SPECIFICATION LinkSpec
CONSTANTS
  Side = {left, right}
  Scenarios = {{"faultless","rename"}}
  Plugins = {"mimic"}
  MaxConfig = 3
  MaxName = 3
  MaxLinkRequests = 2
  MaxTaskFailures = 0
  LinkBatchSize = 5
INVARIANTS
  OldNamesAreCleaned
CHECK_DEADLOCK FALSE
