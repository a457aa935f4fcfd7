SPECIFICATION Spec
CONSTANTS
  g1 = g1
  a1 = a1
  b1 = b1
  b2 = b2
  Regs = {g1}
  First <- TwoFirst
  Later <- OneLater
  Drivers = {"postgres"}
  Clients = {c1}
  MaxMutations = 3
  FaultKinds = {"rollback", "crash"}
  MaxFaults = 1
CHECK_DEADLOCK FALSE
INVARIANT AcceptedIsKept
