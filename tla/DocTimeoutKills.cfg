SPECIFICATION Spec
CONSTANTS
  n1 = n1
  Procs = {i1, i2}
  Runs = {r1}
  Nodes = {n1}
  Slots <- OneSlot
  NoRun = NoRun
  NoProc = NoProc
  Signals = {"kill", "term"}
CHECK_DEADLOCK FALSE
INVARIANT TimeoutMeansKilled
