SPECIFICATION FairSpec
CONSTANTS
  MaxTasks = 1
  user = user
  x = x
  y = y
  s1 = s1
  s2 = s2
  g = g
  Products = {x}
  Stores = {s1}
  OwnerOf <- OneOwner
  ProductsOf <- OneProduct
  StoresOf <- OneStore
  GroupOf <- NoGroups
  NoGroup = NoGroup
  GlobalLimit = 2
  UserLimit = 1
  StoreLimit = 1
  GroupLimit = 1
  Jobs = {j1, j2}
  NoJob = NoJob
  Workers = {w1}
  Api = {a1}
  Runner = Runner
  Serial = FALSE
  LateFailures = TRUE
  MaxRetries = 1
  MaxFaults = 1
CHECK_DEADLOCK FALSE
PROPERTIES
  QueuedIsServed
  RunningEnds
