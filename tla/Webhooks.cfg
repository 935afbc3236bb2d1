SPECIFICATION Spec
CONSTANTS
  Events = {v1, v2}
  Endpoints = {e1}
  Editors = {c1}
  MaxAttempts = 2
  Threshold = 2
  MaxFaults = 1
SYMMETRY Symmetry
INVARIANTS
  TypeOK
  ConfirmedOnceOrExhausted
PROPERTIES
  DisabledAfterFailures
CHECK_DEADLOCK FALSE
