SPECIFICATION Spec
CONSTANTS
  p = p
  s = s
  u1 = u1
  u2 = u2
  TaskIds = {p, s}
  Users = {u1, u2}
  OwnerOf <- TwoOwners
  Crawls = {}
  Sales = {s}
  Workers = {w1, w2}
  None = None
  StableChecks = 2
  LateChecks = FALSE
  MaxRetries = 1
  MaxFaults = 1
SYMMETRY WorkersSymmetric
CHECK_DEADLOCK FALSE
INVARIANT StopMayBeRepeated
