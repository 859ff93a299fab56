SPECIFICATION UpkeepSpec
CONSTANTS
  \* MemoryLifecycle
  m1 = m1
  e1 = e1
  e2 = e2
  home = home
  NoMemory = NoMemory
  NoBody = NoBody
  Ids = {m1}
  Events = {e1, e2}
  Local = {e1}
  Bodies = {"draft"}
  Pages = {home}
  Revisions = {}
  PageOf <- SamePage
  Editors = {"editor", "other"}
  Reviewers = {}
  Curators = {}
  Maintainers = {"maintainer"}
  Closers = {"closer"}
  Drafts <- Settled
  Overwrite = TRUE
  Targets <- Ended
  \* HostedErasure
  Clients = {c1}
  Workers = {w1}
  ErasureKeys = {k1}
  Kinds = {"tenant", "project"}
  BackupIds = {b1}
  MaxOps = 2
  MaxDeaths = 1
INVARIANTS
  ActiveHasEvidence
  ReceiptMeansErased
  OperationsAccounted
PROPERTIES
  TerminalPurged
  EveryErasureAnswered
CHECK_DEADLOCK FALSE
