SPECIFICATION PlatformSpec
CONSTANTS
    Tabs = {a1, a2}
    RolesOfUser <- MCRolesOfUser
    MaxSessions = 2
    MaxMeCalls = 2
    Tenants = {"A", "B"}
    Calls = {c1, c2}
    Connections = {p, q}
    Tags = {"a", "b"}
    Times <- OneTwo
    Values <- OneTwo
    Files <- MCFiles
    Uploads = {u1}
    Messages = {m1}
    FirstTag = "a"
    Take = 1
    MaxAsks = 2
    Scans = {s1, s2}
    Acks = {k1}
    MaxEvents = 2
    MaxLists = 2
    Names = {"n1"}
    MaxLoads = 2
    MaxPosts = 2
    MaxChanges = 3
    Instances = {"i1", "i2"}
    Seeds = {"d1"}
    TagSpecs <- MCTagSpecs
    MeterSpecs <- MCMeterSpecs
    Enough = 3
    Window = 4
    MaxStarts = 2
SYMMETRY MCSymmetry
INVARIANTS
    PlatformTypeOK
    
    CallsSeeTheirTenant
    ImportsAddUp
    ChartFollowsTag
    FeedAgrees
    OneLiveEvent
    OwnChangeShown
    StartCompletes
CHECK_DEADLOCK FALSE
