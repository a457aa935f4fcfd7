SPECIFICATION Spec
CONSTANTS
  w1 = w1
  w2 = w2
  w3 = w3
  Runners = {w1, w2, w3}
  NoRunner = NoRunner
  SlowHolders = FALSE
  MaxCrashes = 1
INVARIANT LockIsExclusive
