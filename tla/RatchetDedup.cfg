SPECIFICATION FairSpec
CONSTANTS
    Callers = {audio, video}
    Window = 2
    MaxStep = 4
    Garbage = Garbage
    NoPromise = NoPromise
    MaxCalls = 3
INVARIANTS
    RatchetTypeOK
    
    NoOvershoot
    NoStalePromise
PROPERTIES
    
    CallsReturn
CHECK_DEADLOCK FALSE
