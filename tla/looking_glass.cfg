SPECIFICATION FairSpec
CONSTANTS
  Fingerprint = {f1}
  Submitter = {s1, s2}
  Reader = {r1}
  QueueLimit = 1
  BatchSize = 2
  CacheWindow = 0
  QueueTimeout = 1
  TotalDeadline = 1
  Retention = 2
  MaxQueries = 2
  MaxTime = 2
INVARIANTS
  TypeOK
  OneActiveQuery
  QueueLimitHolds
  SuccessIsReal
PROPERTIES
  QueryEnds
CHECK_DEADLOCK FALSE
