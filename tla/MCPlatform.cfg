SPECIFICATION PlatSpec
SYMMETRY ClaimantSymmetry
CONSTANTS
    Claimants = {t1, t2}
    MaxInFlight = 2
    MaxChanges = 2
    MaxStates = 2
    Pods = {"p1", "p2"}
    Admins = {"a1", "a2"}
    MaxTickets = 3
    Callers = {"c1", "c2", "c3"}
    LIFE = 6
    SAFETY_MARGIN = 1
    MaxMints = 3
    MAX_FAILURES = 2
    WINDOW = 4
    LOCKOUT = 6
    MAX_CREATES = 2
    CREATE_WINDOW = 3
    MaxAttempts = 4
    MAX_SESSIONS = 2
    BUDGET = 3
    MAX_COST = 2
    Threads = {"a", "b"}
    MaxLive = 3
    MaxRewrites = 4
    Runners = {"r1", "r2"}
    Releases <- MCReleases
    KafkaTopics = {"k1"}
    MaxKills = 1
    Owners = {"t1", "t2"}
    Ops = {"o1", "o2", "o3"}
    Clients = {"c1", "c2"}
    MaxTokens = 2
    MaxSessions = 2
    MaxResets = 1
    FailureLimit = 1
    AutoVerify = FALSE
CHECK_DEADLOCK FALSE
INVARIANTS
    LoginsHold
    GitHubAgrees
    TokenCacheHolds
    CountsHold
    SchemaIsComplete
    BlobsAreOwned
