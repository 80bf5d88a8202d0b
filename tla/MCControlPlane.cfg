SPECIFICATION CpSpec
CONSTANTS
    Requests = {"q1"}
    Pods = {"p1", "p2"}
    PIPELINE_STAGES = {"clone", "embed"}
    NoRun = "?"
    MaxPending = 2
    MaxFaults = 1
    Users = {"ann", "bob"}
    Owner = "ann"
    Admin = "bob"
    Homeless = {"bob"}
    MaxRequests = 2
    MaxTombstones = 2
    MaxTenantFaults = 1
CHECK_DEADLOCK FALSE
INVARIANTS
    RunsFollowStages
    MembershipHolds
    DeletionIsCarriedOut
PROPERTIES
    RunsGoForward
    DeletedTenantIsErased
