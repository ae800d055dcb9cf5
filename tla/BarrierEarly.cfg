SPECIFICATION Spec
CONSTANTS
    Node = {n1, n2}
    Duration = 4
    Deadline = 3
    Expected = 2
    Horizon = 18
    MaxCrashes = 0
INVARIANTS
    ReleasedEarly
CHECK_DEADLOCK FALSE
