\* Widths of the code divided by eight; all formats, two epochs of a group.
SPECIFICATION Spec
CONSTANTS
  ByteBits = 1
  WordBits = 4
  BigBits = 8
  HalfBits = 2
  SafeBits = 6
  TagBytes = 2
  Configs <- MCConfigs
  Groups <- MCGroups
  FirstEpochs = {0, 1, 3, 7}
  MaxHistory = 2
  Ctrs = {0, 2, 255}
INVARIANTS
  FrameReachesItsKey
  
  KeyPerIdentity
CHECK_DEADLOCK FALSE
