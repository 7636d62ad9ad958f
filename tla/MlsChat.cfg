\* Two pages of one user, one of which reads, two epochs and three calls of
\* setEpoch, a commit that fails after its put, and a reload.
SPECIFICATION Spec
CONSTANTS
  Tabs = {t1, t2}
  Slots = {s1}
  NoCtr = NoCtr
  MaxCtr = 1
  MaxAborts = 1
  MaxReloads = 1
  MlsEpochs = {1, 2}
  NoEpoch = NoEpoch
  Readers = {t1}
  OpenSlots = {o1}
  NoMessage = NoMessage
  WindowSize = 4
  MaxSetEpochs = 3
INVARIANTS
  NonceReuseBounded
  
  EverySealCanEnd
PROPERTIES
  CounterImplemented
CHECK_DEADLOCK FALSE
