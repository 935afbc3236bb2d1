SPECIFICATION FairSpec
CONSTANTS
  Size = 2
  CheckEvery = 1
  MaxCalls = 2
  Workers = {w1, w2}
  Attempts = 2
  MaxSends = 2
  MaxFaults = 1
  None = None
INVARIANTS
  TypeOK
  OnePerFanout
  CancelBites
PROPERTIES
  FanoutSettles
CHECK_DEADLOCK FALSE
