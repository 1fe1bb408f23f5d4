SPECIFICATION ServicesSpec
CONSTANTS
  u1 = u1
  u2 = u2
  cr = cr
  so = so
  px = px
  py = py
  s1 = s1
  sy = sy
  ls = ls
  ti = ti
  NoId = NoId
  s2 = s2
  NoMaster = NoMaster
  q1 = q1
  q2 = q2
  d1 = d1
  d2 = d2
  a1 = a1
  j1 = j1
  j2 = j2
  NoJob = NoJob
  Runner = Runner
  NoProc = NoProc
  TaskIds = {cr, so}
  Users = {u1, u2}
  OwnerOf <- TwoOwners
  Crawls = {}
  Sales = {so}
  Workers = {w1, w2}
  None = None
  StableChecks = 2
  LateChecks = FALSE
  MaxRetries = 0
  MaxFaults = 1
  Starters = {w1, w2}
  Accounts = {u1, u2}
  Root = u1
  Legacy = {wa}
  Defaults = {wb}
  NoOwner = NoOwner
  TornColumns = FALSE
  MaxChanges = 1
  MaxDeaths = 1
  Posts = {px, py}
  Manual = px
  Images = {im}
  Editors = {w1, w2}
  Readers = {u1}
  NoPost = NoId
  FreshForms = TRUE
  PromptReads = TRUE
  MaxEdits = 3
  Runners = {u1}
  Requests = {a1}
  Records = {px}
  CleanTasks = {j1, j2}
  NoTask = NoId
  Choices = {"on", "off"}
  SerialRows = TRUE
  RowFirst = TRUE
  MaxClock = 1
  Texts = {wa, wb}
  First = wa
  Writers = {u1}
  Syncers = {d1}
  Testers = {d2}
  PromptWriters = TRUE
  SyncsAlone = TRUE
  FreshTexts = TRUE
  TestsAlone = TRUE
  MaxVersions = 2
  MaxModels = 3
SYMMETRY Symmetric
CHECK_DEADLOCK FALSE
INVARIANTS
  ServicesTypeOK
  SafeMeansStill
  StopRemembers
  OneExecution
  TasksApart
  MarkMeansProduct
  RecordsAgree
PROPERTIES
  ImagesKept
  SyncRepairs
  DecisionsKept
