SPECIFICATION FairSpec
CONSTANTS
  Operators = {c1, c2}
  Bands = {"ok", "throttled", "paused"}
  MaxSelfResumes = 1
  MaxFaults = 1
INVARIANTS
  TypeOK
  ResumesBounded
  DisabledMeansPaused
PROPERTIES
  PauseHolds
  SuspendedAfterWarning
  SuspensionHeals
CHECK_DEADLOCK FALSE
