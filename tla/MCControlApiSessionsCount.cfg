SPECIFICATION Spec
CONSTANTS
    s1 = s1
    s2 = s2
    t1 = t1
    Sessions <- MCSessions
    Tenants <- MCTenants
    TenantOf <- MCTenantOf
    TenantCap = 1
    MaxActive = 2
    MaxBoots = 1
SYMMETRY Symmetric
CHECK_DEADLOCK FALSE
INVARIANT CountTracksSessions
