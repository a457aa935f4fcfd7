SPECIFICATION Spec
CONSTANTS
  r1 = r1
  r2 = r2
  r3 = r3
  r4 = r4
  u1 = u1
  u2 = u2
  g1 = g1
  p1 = p1
  p2 = p2
  v = v
  n1 = n1
  n2 = n2
  RunIds = {r1, r2, r3}
  NoRun = NoRun
  NoNode = NoNode
  NoPool = NoPool
  Users = {u1, u2}
  Groups = {g1}
  Pools = {p1, p2, v}
  Nodes = {n1, n2}
  Job <- Jobs
  Slots <- OneAndTwoSlots
  Catalogs <- Labs
  Inventories <- Outages
  MaxEdits = 1
  FaultKinds = {"crash"}
  MaxFaults = 1
INVARIANT NeverOverCommitted
