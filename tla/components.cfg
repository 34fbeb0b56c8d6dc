SPECIFICATION ComponentSpec
CONSTANTS
  MaxTasks = 4
  MaxDepth = 2
  Nodes = {n1, n2}
  Side = {left, right}
  Scenarios = {
    {"update", "stop", "delete"},
    {"faultless", "rename", "update"},
    {"settled", "update", "start", "stop", "delete", "middleware"},
    {"settled", "rename", "update", "start", "stop", "delete"}}
  Plugins = {"udp2raw", "mimic"}
  MaxConfig = 3
  MaxName = 2
  MaxLinkRequests = 2
  MaxTaskFailures = 1
  LinkBatchSize = 5
  WgName = {"a", "b"}
  BootNames = {"b"}
  LastConfig = 2
  Managers = {"systemd", "openrc", "direct", "openwrt"}
  MaxOps = 2
  MaxWgFaults = 2
  MwInst = {m1, m2}
  LastArgs = 2
  Hosts = {"systemd", "openwrt", "mimic"}
  MaxMwOps = 2
  MaxMwFaults = 1
  Owner = {o1}
  PollRequest = {p1, p2}
  Interval = 1
  RetentionTicks = 1
  DueLimit = 1
  Behind = 0
  Ahead = 1
  MaxMonitorEdits = 3
  MaxReports = 2
  LastTick = 2
  LastVersion = 2
  Backends = {"systemd", "openwrt"}
  Overlap = FALSE
  MaxRequests = 2
  MaxFaults = 2
INVARIANTS
  ComponentTypeOK
  VerdictIsRight
  
  
  OldNameIsRecorded
  NoTaskStuck
  OldConfigSurvives
  FailedApplyRestores
  WgSuccessIsReal
  OthersKept
  MwFailureRestores
  
  ClaimsAreSpaced
  
  
  
  
  

  
CHECK_DEADLOCK FALSE
