SPECIFICATION FairFrameSpec
CONSTANTS
    Epochs = {0, 1}
    Peers = {p1}
    Chains = {a}
    EncodePipes = {}
    NoEntry = NoEntry
    Idle = Idle
    MaxSessions = 1
    MaxCtr = 1
    MaxWire = 1
    DecodePipes = {d1}
    Drainer = Drainer
    Frames <- ParkFrames
    Codec = "h264"
    SifTrailer = FALSE
    QueueCap = 2
    RatchetWindow = 1
    ReplaySizes = {2}
    Tolerances = {}
    NoFormat = NoFormat
    NoKey = NoKey
    MaxArrivals = 3
INVARIANTS
    NoOrphan
    QueueBounded
    FirstFrameSurvives
PROPERTIES
    ParkedIsDrained
CHECK_DEADLOCK FALSE
