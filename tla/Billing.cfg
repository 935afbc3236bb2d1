SPECIFICATION Spec
CONSTANTS
  Subs = {s1, s2}
  Handlers = {h1}
  Free = Free
  None = None
  Ordered = TRUE
  MaxFaults = 1
  MaxQuits = 1
PROPERTIES
  PaidPlanKept
CHECK_DEADLOCK FALSE
