SPECIFICATION Spec
CONSTANTS
  s1 = s1
  s2 = s2
  NoRun = NoRun
  RunIds = {r1}
  Suites = {s1}
  MaxAttempts <- OneSuiteOneAttempt
  RunnerVerdicts = {"passed", "errored"}
  Handlers = {h1}
  Clients = {c1, c2}
  Progress = TRUE
  FaultKinds = {"spec", "death", "post"}
  MaxFaults = 1
INVARIANT JobsRemoved
