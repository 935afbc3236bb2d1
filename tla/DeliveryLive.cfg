SPECIFICATION FairSpec
CONSTANTS
  Messages = {m1}
  Workers = {w1, w2}
  Retriers = {}
  Attempts = 2
  MaxDeferrals = 1
  MaxRetries = 0
  MaxFaults = 2
  Ambiguous = TRUE
  None = None
PROPERTIES
  EnqueuedSettles
CHECK_DEADLOCK FALSE
