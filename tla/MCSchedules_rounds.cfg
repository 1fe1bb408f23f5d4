SPECIFICATION FairSchedules
CONSTANTS
  t1 = t1
  t2 = t2
  store = store
  NoId = NoId
  Schedules = {t1, t2}
  Kinds <- Pairs
  StoreOf <- OneStore
  Runners = {r1}
  RqWorkers = {w1}
  Requests = {a1}
  Batch = 1
  OneTick = TRUE
  SerialReads = TRUE
  LateEnqueues = FALSE
  RunManual = FALSE
  MaxTimes = 1
  MaxJobs = 1
  MaxMishaps = 1
CHECK_DEADLOCK FALSE
INVARIANTS
  SchedTypeOK
  OneInFlight
  RunsOnce
PROPERTIES
  QueueMoves
  ScheduleEnds
