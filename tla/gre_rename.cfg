SPECIFICATION Spec
CONSTANTS
  Name = {n1, n2}
  Config = {c1, c2}
  NoName = NoName
  NoConfig = NoConfig
  Requests = {"update"}
  BatchSize = 2
  MaxTasks = 4
  MaxInstances = 1
INVARIANTS
  OldDeviceIsRecorded
SYMMETRY Symmetry
CHECK_DEADLOCK FALSE
