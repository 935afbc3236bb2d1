SPECIFICATION Spec
CONSTANTS
  Messages = {m1}
  Workers = {w1, w2}
  Retriers = {h1}
  Attempts = 2
  MaxDeferrals = 1
  MaxRetries = 1
  MaxFaults = 1
  Ambiguous = TRUE
  None = None
SYMMETRY Symmetry
INVARIANTS
  TypeOK
  SuppressionHonoured
  NoSelfMadeDuplicate
CHECK_DEADLOCK FALSE
