SPECIFICATION FairSpec
CONSTANTS
  java = java
  tag = tag
  a = a
  b = b
  Absent = Absent
  Bad = Bad
  Keys = {java, tag}
  Values = {a, b}
  Configs <- SomeConfigs
  Facts <- SomeFacts
  Versions = 0
  FaultKinds = {"late"}
  MaxEdits = 2
  MaxFaults = 1
CHECK_DEADLOCK FALSE
PROPERTY LabelsTakeEffect
