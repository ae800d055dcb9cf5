SPECIFICATION Spec
CONSTANTS
    Node = {n1, n2}
    Duration = 3
    Deadline = 2
    Expected = 2
    Horizon = 18
    MaxCrashes = 1
INVARIANTS
    TypeOK
    EpochAligned
    RanksAtDeadline
    SameEpoch
PROPERTIES
    OnePassPerEpoch
    BarrierEnds
CHECK_DEADLOCK FALSE
