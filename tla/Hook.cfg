SPECIFICATION HookSpec
CONSTANTS
  d1 = d1
  d2 = d2
  d3 = d3
  Recipients = {r1, r2}
  Calls = {d1, d2, d3}
  ContentOf <- OneChanged
  Lifetime = 1
  Skew = 1
  LastTime = 2
  NoEntry = NoEntry
SYMMETRY Symmetry
INVARIANTS
  HookTypeOK
  OkMeansAccepted
  OneInputPerKey
CHECK_DEADLOCK FALSE
