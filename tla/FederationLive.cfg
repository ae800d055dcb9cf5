SPECIFICATION MCSpec
CONSTANTS
    Node = {1, 2}
    Weight = {1, 4}
    Genesis = Genesis
    NoHash = NoHash
    TotalEpochs = 0
    MaxPasses = 4
    MaxFaults = 0
    Double <- MCDouble
    Add <- MCAdd
    IdLess <- MCIdLess
    CohortSize = 1
INVARIANTS
    CohortAgreement
PROPERTIES
    PassEnds
    Convergence
CHECK_DEADLOCK FALSE
