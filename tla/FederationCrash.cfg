SPECIFICATION Spec
CONSTANTS
    Node = {n1, n2}
    Weight = {1}
    Genesis = Genesis
    NoHash = NoHash
    TotalEpochs = 2
    MaxPasses = 3
    MaxFaults = 2
INVARIANTS
    TypeOK
    OnlyGenuine
    NoRepeats
    OwnLogIsChain
    ReviewsAnchored
    StagedGenuine
    LocalFirst
PROPERTIES
    ImplementsStore
SYMMETRY Symmetry
CHECK_DEADLOCK FALSE
