SPECIFICATION Spec
CONSTANTS
  s1 = s1
  s2 = s2
  NoRun = NoRun
  RunIds = {r1, r2, r3}
  Suites = {s1}
  MaxAttempts <- OneSuiteTwoAttempts
  RunnerVerdicts = {"failed"}
  Handlers = {h1, h2}
  Clients = {}
  Progress = FALSE
  FaultKinds = {"post"}
  MaxFaults = 1
SYMMETRY Symmetry
INVARIANT VerdictIsReported
INVARIANT AttemptsContiguous
INVARIANT NoRetryLost
PROPERTY VerdictStable
