SPECIFICATION Spec
CONSTANTS
    Node = {n1, n2}
    Interval = 5
    SyncRound = {5, 10}
    Saved <- MCSaved
    DefaultRank = 16
    Args <- MCArgs
    MaxWrites = 2
    MaxRestarts = 1
    MaxRuns = 2
    MaxDeaths = 1
INVARIANTS
    TypeOK
    ConvertedAsAsked
    AuditHolds
    AdapterFits
    ResultsAreOwn
PROPERTIES
    LatestIsNewest
CHECK_DEADLOCK FALSE
