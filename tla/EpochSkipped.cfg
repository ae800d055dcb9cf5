SPECIFICATION Spec
CONSTANTS
    Node = {n1}
    Duration = 3
    Deadline = 3
    Expected = 1
    Horizon = 18
    MaxCrashes = 0
PROPERTIES
    OnePassPerEpoch
CHECK_DEADLOCK FALSE
