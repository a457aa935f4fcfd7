SPECIFICATION FairSpec
CONSTANTS
  s1 = s1
  s2 = s2
  NoRun = NoRun
  RunIds = {r1, r2}
  Suites = {s1}
  MaxAttempts <- OneSuiteTwoAttempts
  RunnerVerdicts = {"passed"}
  Handlers = {h1}
  Clients = {}
  Progress = FALSE
  FaultKinds = {"crash"}
  MaxFaults = 1
PROPERTY EveryRunEnds
PROPERTY RegressionSettles
