SPECIFICATION Spec

CONSTANTS
  m1 = m1
  m2 = m2
  m3 = m3
  e1 = e1
  e2 = e2
  r1 = r1
  r2 = r2
  home = home
  NoMemory = NoMemory
  NoBody = NoBody
  Ids = {m1}
  Events = {e1}
  Local = {e1}
  Bodies = {"draft", "final"}
  Pages = {home}
  Revisions = {r1, r2}
  PageOf <- SamePage
  Editors = {"editor"}
  Reviewers = {}
  Curators = {"curator", "other"}
  Maintainers = {"maintainer"}
  Closers = {}
  Drafts <- Settled
  Overwrite = TRUE
  Targets <- Ended

INVARIANT OnePublishedPerPage
INVARIANT CitationsResolve
PROPERTY WithdrawalStalesWiki
