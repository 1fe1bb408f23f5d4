SPECIFICATION Spec
CONSTANTS
  MaxTasks = 2
  manual = manual
  scheduled = scheduled
  owner = owner
  Lanes = {scheduled}
  LaneOf <- OneLane
  OwnerOf <- OneOwner
  ScheduledLanes = {scheduled}
  Limit <- LimitOne
  RequeueLimit = 1
  Jobs = {j1, j2}
  NoJob = NoJob
  Workers = {w1, w2}
  Api = {a1}
  Runner = Runner
  NoProc = NoProc
  Serial = TRUE
  LockMayExpire = FALSE
  SlowRuns = FALSE
  MaxReruns = 1
  MaxFaults = 1
SYMMETRY Symmetric
CHECK_DEADLOCK FALSE
INVARIANTS
  TypeOK
  CapacityRespected
  ExclusiveRun
PROPERTIES
  CancelSticks
  LiveRunKeepsItsRow
  MarkerKept
