\* Three epochs, two calls at a time, three calls, a detachment.
SPECIFICATION CryptorSpec
CONSTANTS
  Epochs = {0, 1, 2}
  Peers = {1}
  Chains = {k}
  EncodePipes = {}
  NoEntry = NoEntry
  Idle = Idle
  MaxSessions = 1
  MaxCtr = 0
  MaxWire = 0
  Endpoints = {x}
  CallSlots = {s1, s2}
  NoCall = NoCall
  MaxCalls = 3
SYMMETRY SlotSymmetry
INVARIANTS
  LatestEpochWins
  AppliedEpochTracks
  DetachedHoldsNoKeys
CHECK_DEADLOCK FALSE
