SPECIFICATION Spec
CONSTANTS
  g1 = g1
  a1 = a1
  b1 = b1
  b2 = b2
  Regs = {g1}
  First <- TwoFirst
  Later <- OneLater
  Drivers = {"file", "postgres"}
  Clients = {c1}
  MaxMutations = 3
  FaultKinds = {"write", "late", "broken", "rollback", "crash"}
  MaxFaults = 2
INVARIANT TypeOK
INVARIANT AcceptedIsWritten
INVARIANT WrittenIsDurable
INVARIANT NoStaleSleep
PROPERTY VerdictSurvives
CHECK_DEADLOCK FALSE
