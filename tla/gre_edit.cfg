SPECIFICATION Spec
CONSTANTS
  Name = {n1}
  Config = {c1, c2}
  NoName = NoName
  NoConfig = NoConfig
  Requests = {"create", "update", "start", "stop", "delete", "refresh"}
  BatchSize = 2
  MaxTasks = 3
  MaxInstances = 1
INVARIANTS
  EditReachesNode
PROPERTIES
  BaselineWasApplied
SYMMETRY Symmetry
CHECK_DEADLOCK FALSE
