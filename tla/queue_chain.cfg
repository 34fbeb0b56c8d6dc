SPECIFICATION BoundedSpec
CONSTANTS
  MaxTasks = 3
  Plan = {p1}
  NoPlan = NoPlan
  Capability = {c1}
  Requires <- StopRequirement
  Input <- ChainInput
  Outcome = {"succeeded", "failed"}
  BatchSize = 2
  ScanLimit = 3
  MaxDepth = 2
  RunningTimeout = 0
  QueryTtl = 1
  Request = {q1, q2}
  NoRequest = NoRequest
INVARIANTS
  AtMostOnceExecution
  WithdrawnNeverExecuted
  
  PlanShowsItsTasks
PROPERTIES
  NoLateDependency
  ResultsAreFinal
  
SYMMETRY RequestSymmetry
CHECK_DEADLOCK FALSE
