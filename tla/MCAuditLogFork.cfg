CONSTANTS
    w1 = w1
    w2 = w2
    ta = ta
    tb = tb
    e1 = e1
    NoCall = NoCall
    Writers <- MCWriters
    Tenants <- MCTenants
    Entries <- MCEntries
    MaxRows = 5
SPECIFICATION AuditSpec
SYMMETRY Symmetry
INVARIANT ChainVerifies
CHECK_DEADLOCK FALSE
