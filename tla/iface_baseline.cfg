SPECIFICATION Spec
CONSTANTS
  Kinds = {"managed-node"}
  Config = {c1, c2}
  NoConfig = NoConfig
  Handler = {h1}
  Refreshes = {"status", "read"}
  BatchSize = 2
  MaxTasks = 2
  MaxInstances = 1
INVARIANTS
  BaselineWasApplied
CHECK_DEADLOCK FALSE
