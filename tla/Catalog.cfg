SPECIFICATION Spec
CONSTANTS
  None = None
  Absent = Absent
  Aborted = Aborted
  p = p
  q = q
  v = v
  n = n
  g = g
  u = u
  Pools = {p, q, v}
  Nodes = {n}
  Groups = {g}
  Users = {u}
  Rules <- SomeRules
  Bodies <- SomeBodies
  Suggestions = {p, v}
  Catalogs <- SomeCatalogs
  Drivers = {"file", "postgres"}
  Clients = {c1, c2}
  FaultKinds = {"save", "commit", "sql", "crash", "refused", "reconnect"}
  MaxEdits = 2
  MaxFaults = 2
  MaxReloads = 1
  MaxEvents = 3
SYMMETRY Symmetry
INVARIANT TypeOK
INVARIANT NothingDangles
INVARIANT InForceIsStored
PROPERTY RemovalsAccepted
PROPERTY HeartbeatMovesNobody
CHECK_DEADLOCK FALSE
