SPECIFICATION StrSpec
CONSTANTS
    Publishers <- MCPublishers
    MaxRows = 3
    Settings <- MCSettings
    LogSize = 3
    MaxBreaks = 3
    MAX_ERROR_STREAK = 2
INVARIANTS
    JoinGapFree
    ReplayComplete
PROPERTIES
    JoinCatchesUp
    WatchedConsumerRecovers
