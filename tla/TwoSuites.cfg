SPECIFICATION Spec
CONSTANTS
  s1 = s1
  s2 = s2
  NoRun = NoRun
  RunIds = {r1, r2}
  Suites = {s1, s2}
  MaxAttempts <- TwoSuitesOneAttempt
  RunnerVerdicts = {"passed", "failed"}
  Handlers = {h1}
  Clients = {c1}
  Progress = FALSE
  FaultKinds = {}
  MaxFaults = 0
SYMMETRY Symmetry
INVARIANT PassIsEarned
