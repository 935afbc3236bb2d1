SPECIFICATION Spec
CONSTANTS
  Requests = {r1, r2}
  Keys = {"k"}
  KeyOf <- OneKey
  Inputs = {"i"}
  InputOf <- SameInput
  Workers = {w1, w2}
  MaxDeferrals = 1
  MaxLapses = 0
  None = None
  Odd = None
SYMMETRY Symmetry
INVARIANTS
  TypeOK
  AtMostOnce
  QueuedHasContent
PROPERTIES
  SettledStaysSettled
CHECK_DEADLOCK FALSE
