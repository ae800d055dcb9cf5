SPECIFICATION Spec
CONSTANTS
    Node = {n1, n2}
    First = n1
    Seeds <- MCSeeds
    Lan <- MCLan
    Capacity = 1
    Batch = 2
    MaxPasses = 1
    MaxFaults = 2
INVARIANTS
    TypeOK
    ActiveAreNeighbours
PROPERTIES
    RedialsAll
    AnnounceEnds
    Heals
CHECK_DEADLOCK FALSE
