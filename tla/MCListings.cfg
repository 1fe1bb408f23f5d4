SPECIFICATION ListingsSpec
CONSTANTS
  user = user
  product1 = product1
  product2 = product2
  store1 = store1
  store2 = store2
  group = group
  NoGroup = NoGroup
  job1 = job1
  job2 = job2
  NoJob = NoJob
  worker1 = worker1
  worker2 = worker2
  api = api
  Runner = Runner
SYMMETRY Symmetric
CHECK_DEADLOCK FALSE
INVARIANTS
  OneLister
  LimitsKept
  ProductsKept
PROPERTIES
  CancelSticks
