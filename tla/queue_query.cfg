SPECIFICATION Spec
CONSTANTS
  MaxTasks = 2
  Plan = {}
  NoPlan = NoPlan
  Capability = {c1}
  Requires <- QueryRequirement
  Input <- QueryInput
  Outcome = {"succeeded", "tolerated", "invalid"}
  BatchSize = 1
  ScanLimit = 1
  MaxDepth = 1
  RunningTimeout = 1
  QueryTtl = 1
  Request = {q1, q2}
  NoRequest = NoRequest
INVARIANTS
  TypeOK
  
SYMMETRY RequestSymmetry
CHECK_DEADLOCK FALSE
