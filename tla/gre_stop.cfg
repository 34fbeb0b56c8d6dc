SPECIFICATION Spec
CONSTANTS
  Name = {n1}
  Config = {c1, c2}
  NoName = NoName
  NoConfig = NoConfig
  Requests = {"update", "start", "stop"}
  BatchSize = 2
  MaxTasks = 4
  MaxInstances = 1
INVARIANTS
  WithdrawnStaysDown
SYMMETRY Symmetry
CHECK_DEADLOCK FALSE
