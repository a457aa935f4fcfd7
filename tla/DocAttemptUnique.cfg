SPECIFICATION Spec
CONSTANTS
  s1 = s1
  s2 = s2
  NoRun = NoRun
  RunIds = {r1, r2, r3}
  Suites = {s1}
  MaxAttempts <- OneSuiteTwoAttempts
  RunnerVerdicts = {"failed"}
  Handlers = {h1}
  Clients = {}
  Progress = FALSE
  FaultKinds = {}
  MaxFaults = 0
INVARIANT AttemptsUnique
