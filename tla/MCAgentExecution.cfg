SPECIFICATION Spec
CONSTANTS
    s1 = s1
    p1 = p1
    t1 = t1
    None = None
    Sessions <- MCSessions
    Tenants <- MCTenants
    TenantOf <- MCTenantOf
    Procs <- MCProcs
    TenantCap = 1
    MaxActive = 1
    MaxBoots = 2
    MaxPerTenant = 1
    MaxPerNode = 1
    Redelivered <- MCNone
    MaxLog = 2
    KeyOutcomes <- MCSucceed
    MaxFaults = 1
CHECK_DEADLOCK FALSE
INVARIANTS
    EndedSessionHasNoProcess
    RunningSessionHasKey
PROPERTIES
    DeletedSessionEnds
