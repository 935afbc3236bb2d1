SPECIFICATION FairSpec
CONSTANTS
  Requests = {r1, r2, r3}
  Third = r3
  KeyOf <- TwoShareAKey
  LastDay = 1
  PeriodOf <- MonthPerDay
  Plans <- AllPlans
  BurstLimit = 2
  MaxFaults = 1
  None = None
INVARIANTS
  TypeOK
  OvershootBounded
  OneChargePerMessage
PROPERTIES
  BurstWindowReopens
CHECK_DEADLOCK FALSE
