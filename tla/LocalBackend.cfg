SPECIFICATION FairSpec
CONSTANTS
  n1 = n1
  Procs = {i1, i2}
  Runs = {r1}
  Nodes = {n1}
  Slots <- OneSlot
  NoRun = NoRun
  NoProc = NoProc
  Signals = {"kill", "term"}
INVARIANT TypeOK
INVARIANT SlotsAccounted
INVARIANT SuitesFitSlots
INVARIANT PassIsGenuine
PROPERTY FinishedIsLast
PROPERTY PollsFollowTasks
PROPERTY SlotsComeBack
CHECK_DEADLOCK FALSE
