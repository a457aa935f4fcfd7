SPECIFICATION Spec
CONSTANTS
  s1 = s1
  s2 = s2
  NoRun = NoRun
  RunIds = {r1}
  Suites = {s1}
  MaxAttempts <- OneSuiteOneAttempt
  RunnerVerdicts = {"passed", "failed"}
  Handlers = {h1}
  Clients = {c1}
  Progress = TRUE
  FaultKinds = {"stop", "spec", "register", "death", "post", "crash"}
  MaxFaults = 2
PROPERTY VerdictStable
INVARIANT PassIsEarned
PROPERTY PromiseKept
