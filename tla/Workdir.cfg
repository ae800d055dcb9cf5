SPECIFICATION Spec
CONSTANTS
    Node = {n1, n2}
    Header = header
    Size = 2
    PerRound = 1
    Rounds = 1
    Experiments = 3
    MaxFaults = 2
SYMMETRY Symmetry
INVARIANTS
    TypeOK
    RowsWalkTheData
    EpochPerRound
    OwnCheckpoint
    ScoreNotStale
PROPERTIES
    CacheStays
CHECK_DEADLOCK FALSE
