SPECIFICATION FairSpec
CONSTANTS
  MaxTasks = 1
  manual = manual
  scheduled = scheduled
  owner = owner
  Lanes = {scheduled}
  LaneOf <- OneLane
  OwnerOf <- OneOwner
  ScheduledLanes = {scheduled}
  Limit <- LimitOne
  RequeueLimit = 1
  Jobs = {j1, j2}
  NoJob = NoJob
  Workers = {w1}
  Api = {a1}
  Runner = Runner
  NoProc = NoProc
  Serial = FALSE
  LockMayExpire = FALSE
  SlowRuns = FALSE
  MaxReruns = 0
  MaxFaults = 1
CHECK_DEADLOCK FALSE
PROPERTIES
  QueuedIsServed
  RunningEnds
