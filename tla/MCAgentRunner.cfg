SPECIFICATION RunnerSpec
CONSTANTS
    s1 = s1
    s2 = s2
    p1 = p1
    p2 = p2
    p3 = p3
    t1 = t1
    None = None
    Sessions <- MCSessions
    Tenants <- MCTenants
    TenantOf <- MCTenantOf
    Procs <- MCProcs2
    MaxPerTenant = 2
    MaxPerNode = 2
    Redelivered <- MCSession
INVARIANTS
    TenantCapOnProcesses
    MapWithinPermits
    SingleCleanup
PROPERTIES
    ExitsLeaveMap
