SPECIFICATION ServSpec
CONSTANTS
    s1 = s1
    t1 = t1
    Sessions <- MCSession
    Tenants <- MCSessionTenants
    TenantOf <- MCTenantOf
    TenantCap = 1
    MaxActive = 2
    MaxBoots = 3
    Turns = {"t1", "t2"}
    Limit = 2
    MaxRetries = 1
    MaxLosses = 1
    EventIds = {"e1"}
    RunIds = {"r1"}
    Stages = {"parse", "graph", "project_pg", "project_neo4j"}
    MaxEvents = 2
    MaxAuditFaults = 2
    Events = {"e1"}
    MaxRecords = 1
    MaxCrashes = 1
    MaxClock = 4
    TenantCount = 1
    MaxSlot = 2
    MaxSoakClock = 4
    ResumeGapLimit = 1
    CatastrophicFailure = 1
    Calls = {"c1", "c2"}
    MaxLost = 1
    ApiKeys = {"k1"}
    MaxRequests = 2
    Clients = {"c1"}
    MaxSessions = 2
    MaxCalls = 1
    MaxRestarts = 1
    MaxLostRows = 1
CHECK_DEADLOCK FALSE
INVARIANTS
    KeyDiesWithSession
    AuditIsTrue
    RecordsSurvive
    SoakIsTrue
    OnlyOwnData
    McpCallsOwnData
    AlgorithmsAgree
PROPERTIES
    LifecycleImplemented
    ChatIsComplete
