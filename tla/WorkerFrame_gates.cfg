SPECIFICATION FrameSpec
CONSTANTS
    Epochs = {0}
    Peers = {p1}
    Chains = {a}
    EncodePipes = {e1}
    NoEntry = NoEntry
    Idle = Idle
    MaxSessions = 0
    MaxCtr = 1
    MaxWire = 1
    DecodePipes = {d1, d2}
    Drainer = Drainer
    Frames <- GateFrames
    Codec = "h264"
    SifTrailer = FALSE
    QueueCap = 2
    RatchetWindow = 1
    ReplaySizes = {2}
    Tolerances = {0}
    NoFormat = NoFormat
    NoKey = NoKey
    MaxArrivals = 4
SYMMETRY PipeSymmetry
INVARIANTS
    FrameTypeOK
    ReplayBound
    InvalidationBound
CHECK_DEADLOCK FALSE
