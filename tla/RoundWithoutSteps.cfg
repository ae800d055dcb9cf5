SPECIFICATION Spec
CONSTANTS
    Self = self
    Peer = {p1}
    Tensor = {lora_a, lora_b}
    Dummy = dummy
    NaN = NaN
    Coord = {1, 2, 3}
    TopK = 2
    Level = 2
    HalfExact = 2
    MaxNorm = 7
    MaxPeerNorm = 4
    Setting <- MCSetting
    Move <- MCMove
    PeerFile <- MCPeerFile
    SyncInterval = 2
    MaxRounds = 3
    MaxDeaths = 0
PROPERTIES
    RoundWithoutStepsIsHarmless
CHECK_DEADLOCK FALSE
