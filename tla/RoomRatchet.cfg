SPECIFICATION RoomSpec
CONSTANTS
    Nodes = {1, 2, 3}
    Steady = {1}
    Slots = {1}
    MaxChanges = 3
    MaxEpoch = 3
    MaxRewraps = 1
    None = None
    Zeroed = Zeroed
INVARIANTS
    RoomTypeOK
    RoomAgrees
    CanSend
    OutsidersExcluded
    
    SasAgrees
    
    OldEpochsForgotten
CHECK_DEADLOCK FALSE
