SPECIFICATION SchedSpec
CONSTANTS
  t1 = t1
  t2 = t2
  store = store
  NoId = NoId
  Schedules = {t1, t2}
  Kinds <- ManualPair
  StoreOf <- OneStore
  Runners = {r1}
  RqWorkers = {w1}
  Requests = {a1}
  Batch = 1
  OneTick = TRUE
  SerialReads = FALSE
  LateEnqueues = FALSE
  RunManual = FALSE
  MaxTimes = 1
  MaxJobs = 1
  MaxMishaps = 0
CHECK_DEADLOCK FALSE
INVARIANTS
  OneDispatcher
