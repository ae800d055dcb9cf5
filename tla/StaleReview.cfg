SPECIFICATION Spec
CONSTANTS
    Node = {n1, n2}
    Weight = {1}
    Genesis = Genesis
    NoHash = NoHash
    TotalEpochs = 0
    MaxPasses = 4
    MaxFaults = 0
INVARIANTS
    ReviewsNameEvaluatedUpdates
CHECK_DEADLOCK FALSE
