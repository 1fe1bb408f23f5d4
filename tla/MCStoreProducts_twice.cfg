SPECIFICATION Spec
CONSTANTS
  m1 = m1
  s1 = s1
  p1 = p1
  NoMaster = NoMaster
  Masters = {m1}
  Drafts = {}
  Stores = {s1}
  CodeOf <- SameCode
  Swaps = {}
  Procs = {p1}
  MaxDays = 3
  FreshNumbers = TRUE
  ShortListings = FALSE
  NoLostUpdates = TRUE
CHECK_DEADLOCK FALSE
INVARIANT ListedOnce
