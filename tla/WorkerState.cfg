SPECIFICATION FairSpec
CONSTANTS
    Epochs = {0, 1, 2}
    Peers = {p1}
    Chains = {a}
    EncodePipes = {audio, video}
    NoEntry = NoEntry
    Idle = Idle
    MaxSessions = 1
    MaxCtr = 2
    MaxWire = 2
INVARIANTS
    TypeOK
    CurrentEpochSurvives
    NonceUniqueInSession
PROPERTIES
    SupersededIsWiped
