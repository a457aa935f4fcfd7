SPECIFICATION Spec
CONSTANTS
  s1 = s1
  s2 = s2
  NoRun = NoRun
  RunIds = {r1, r2, r3}
  Suites = {s1}
  MaxAttempts <- OneSuiteTwoAttempts
  RunnerVerdicts = {"passed", "failed"}
  Handlers = {h1}
  Clients = {}
  Progress = TRUE
  FaultKinds = {}
  MaxFaults = 0
SYMMETRY Symmetry
INVARIANT TypeOK
INVARIANT VerdictIsReported
INVARIANT AttemptsContiguous
INVARIANT NoRetryLost
INVARIANT JobsRemoved
PROPERTY PromiseKept
