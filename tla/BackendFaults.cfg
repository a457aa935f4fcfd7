SPECIFICATION Spec
CONSTANTS
  s1 = s1
  s2 = s2
  NoRun = NoRun
  RunIds = {r1, r2, r3}
  Suites = {s1}
  MaxAttempts <- OneSuiteTwoAttempts
  RunnerVerdicts = {"passed"}
  Handlers = {h1}
  Clients = {}
  Progress = TRUE
  FaultKinds = {"stop", "spec", "register", "death"}
  MaxFaults = 1
SYMMETRY Symmetry
INVARIANT VerdictIsReported
INVARIANT PassIsEarned
INVARIANT NoRetryLost
