SPECIFICATION ChatSpec
CONSTANTS
    Tabs = {t1, t2}
    Layouts <- MCLayouts
    Keys = {a, b}
    Ctrs = {c1, c2}
    Slots = {1, 2}
    Window = 2
    CacheCap = 1
    RoomCap = 1
    MaxCalls = 3
    MaxGen = 1
    MaxReloads = 1
    MaxUpsets = 1
    None = None
SYMMETRY Symmetry
INVARIANTS
    ChatTypeOK
    ReplayRefused
    GuardRemembers
    EveryWaitEnds
    
CHECK_DEADLOCK FALSE
