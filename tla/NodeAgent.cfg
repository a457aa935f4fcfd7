SPECIFICATION FairSpec
CONSTANTS
  java = java
  tag = tag
  a = a
  b = b
  Absent = Absent
  Bad = Bad
  Keys = {java, tag}
  Values = {a, b}
  Configs <- SomeConfigs
  Facts <- SomeFacts
  Versions = 1
  FaultKinds = {"nomad", "late", "master", "cut", "crash"}
  MaxEdits = 2
  MaxFaults = 2
INVARIANT TypeOK
INVARIANT NothingLingers
PROPERTY LabelsSettle
PROPERTY RunnerSettles
CHECK_DEADLOCK FALSE
