SPECIFICATION Spec
CONSTANTS
    Node = {n1}
    Weight = {1}
    Genesis = Genesis
    NoHash = NoHash
    TotalEpochs = 0
    MaxPasses = 3
    MaxFaults = 2
PROPERTIES
    RoundNeverGoesBack
CHECK_DEADLOCK FALSE
