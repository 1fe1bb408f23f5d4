SPECIFICATION SalesSpec
CONSTANTS
  Runs = {r1, r2}
  NoRun = NoRun
  Timeout = 1
  MaxVersion = 2
  MaxFaults = 1
  Slow = TRUE
  Serial = FALSE
  o1 = o1
  o2 = o2
  l1 = l1
  l2 = l2
SYMMETRY RunsSymmetric
INVARIANTS TypeOK BooksAgree
PROPERTIES ActsSerially OrdersNeverOlder RunEndsOnce SnapshotsNeverOlder
