SPECIFICATION FairSpec
CONSTANTS
  Requests = {r1, r2}
  Keys = {"k"}
  KeyOf <- OneKey
  Inputs = {"i", "j"}
  InputOf <- TwoInputs
  Workers = {w1}
  MaxDeferrals = 0
  MaxLapses = 2
  None = None
  Odd = r2
INVARIANTS
  ChargedIffInserted
PROPERTIES
  ImplementsPromise
  RowsSettle
CHECK_DEADLOCK FALSE
