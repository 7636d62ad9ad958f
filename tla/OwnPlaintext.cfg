SPECIFICATION Spec
CONSTANTS
    Callers = {audio, video, screen}
    Window = 2
    MaxStep = 4
    Garbage = Garbage
    NoPromise = NoPromise
    MaxCalls = 1
INVARIANTS
    OwnPlaintext
CHECK_DEADLOCK FALSE
