SPECIFICATION FairSpec
CONSTANTS
  d1 = d1
  d2 = d2
  o1 = o1
  b1 = b1
  t1 = t1
  c1 = c1
  Messages = {m1}
  Notes = {d1, b1, c1}
  KindOf <- AllKinds
  MsgOf <- OneMessage
  Handlers = {h1, h2}
  Early = TRUE
  MaxFaults = 1
  None = None
INVARIANTS
  TypeOK
  AppliedAtMostOnce
  LossesAreFaults
PROPERTIES
  BadOutcomeSuppresses
CHECK_DEADLOCK FALSE
