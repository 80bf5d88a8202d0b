SPECIFICATION Spec
CONSTANTS
    s1 = s1
    s2 = s2
    t1 = t1
    Sessions <- MCSessions
    Tenants <- MCTenants
    TenantOf <- MCTenantOf
    TenantCap = 1
    MaxActive = 2
    MaxBoots = 2
SYMMETRY Symmetric
CHECK_DEADLOCK FALSE
INVARIANTS TypeOK SlotPerSession TenantCapBound
