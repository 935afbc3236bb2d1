SPECIFICATION FairSpec
CONSTANTS
  Enrollments = {e1}
  Ticks = {t1, t2}
  Enrollers = {c1}
  Steps <- Drip
  ExitOn = {"replied", "unsubscribed"}
  MaxIterations = 3
  Limit = 1
  MaxDelays = 1
  MaxFaults = 1
  None = None
INVARIANTS
  TypeOK
  RepeatsNeedFaults
  NoStepDropped
PROPERTIES
  ExitHolds
  DripEnds
CHECK_DEADLOCK FALSE
