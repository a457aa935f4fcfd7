SPECIFICATION Spec
CONSTANTS
  s1 = s1
  s2 = s2
  NoRun = NoRun
  RunIds = {r1, r2}
  Suites = {s1}
  MaxAttempts <- OneSuiteOneAttempt
  RunnerVerdicts = {"passed"}
  Handlers = {h1}
  Clients = {c1}
  Progress = FALSE
  FaultKinds = {}
  MaxFaults = 0
PROPERTY RegCanceledSticks
