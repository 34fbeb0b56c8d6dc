SPECIFICATION BoundedSpec
CONSTANTS
  Kinds = {"managed-node", "manual"}
  Config = {c1}
  NoConfig = NoConfig
  Handler = {h1, h2}
  Refreshes = {"status"}
  BatchSize = 3
  MaxTasks = 3
  MaxInstances = 2
INVARIANTS
  ShownStateIsOwn
PROPERTIES
  LateStatusIsIgnored
  StopSupersedes
SYMMETRY Symmetry
CHECK_DEADLOCK FALSE
