SPECIFICATION Spec
CONSTANTS
  Kinds = {"managed-node"}
  Config = {c1}
  NoConfig = NoConfig
  Handler = {h1}
  Refreshes = {"status", "read"}
  BatchSize = 3
  MaxTasks = 3
  MaxInstances = 1
PROPERTIES
  DeletedOnlyWhenDown
CHECK_DEADLOCK FALSE
