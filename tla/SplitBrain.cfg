SPECIFICATION RoomSpec
CONSTANTS
    Nodes = {1, 2, 3}
    Steady = {1}
    Slots = {1, 2}
    MaxChanges = 3
    MaxEpoch = 3
    MaxRewraps = 0
    None = None
    Zeroed = Zeroed
INVARIANTS
    NoSplitBrain
CHECK_DEADLOCK FALSE
