SPECIFICATION DelSpec
CONSTANTS
    s1 = s1
    s2 = s2
    Sessions <- MCSessions
    MaxEvents = 2
    Produces <- MCProduces
    Capacity = 2
    BatchSize = 2
    MaxAttempts = 2
    MaxLate = 1
    TurnEnds <- MCTurnEnds
    Items <- MCItems
    Big <- MCBig
    Mono <- MCMono
    Uses <- MCUses
    RunIds = {"r"}
    Cap = 1
    Deployments <- MCDeployments
    MaxErrors = 1
    MaxCrashes = 1
INVARIANTS
    HealthyPostsStored
