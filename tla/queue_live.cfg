SPECIFICATION FairSpec
CONSTANTS
  MaxTasks = 2
  Plan = {}
  NoPlan = NoPlan
  Capability = {}
  Requires <- NoRequirement
  Input <- LiveInput
  Outcome = {"failed", "invalid"}
  BatchSize = 1
  ScanLimit = 2
  MaxDepth = 1
  RunningTimeout = 0
  QueryTtl = 1
  Request = {q1}
  NoRequest = NoRequest
PROPERTIES
  EveryTaskSettles
  ReportsDrain
CHECK_DEADLOCK FALSE
