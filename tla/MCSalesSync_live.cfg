SPECIFICATION FairSpec
CONSTANTS
  Runs = {r1, r2}
  NoRun = NoRun
  Timeout = 1
  MaxVersion = 1
  MaxFaults = 1
  Slow = FALSE
  Serial = TRUE
INVARIANT OutcomeAgrees
PROPERTIES LiveLeaseKept LeaseEnds ActiveRunEnds QueuedStarts
