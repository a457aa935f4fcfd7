SPECIFICATION Spec
CONSTANTS
  None = None
  Absent = Absent
  Aborted = Aborted
  p = p
  q = q
  v = v
  n = n
  g = g
  u = u
  Pools = {p, q, v}
  Nodes = {n}
  Groups = {g}
  Users = {u}
  Rules <- SomeRules
  Bodies <- SomeBodies
  Suggestions = {p, v}
  Catalogs <- SomeCatalogs
  Drivers = {"file", "postgres"}
  Clients = {c1}
  FaultKinds = {"crash"}
  MaxEdits = 2
  MaxFaults = 1
  MaxReloads = 0
  MaxEvents = 3
CHECK_DEADLOCK FALSE
PROPERTY StartKeepsCatalog
