SPECIFICATION Spec

CONSTANTS
  m1 = m1
  m2 = m2
  m3 = m3
  e1 = e1
  e2 = e2
  r1 = r1
  r2 = r2
  home = home
  NoMemory = NoMemory
  NoBody = NoBody
  Ids = {m1, m2, m3}
  Events = {e1}
  Local = {e1}
  Bodies = {"draft"}
  Pages = {home}
  Revisions = {}
  PageOf <- SamePage
  Editors = {"editor"}
  Reviewers = {"reviewer"}
  Curators = {}
  Maintainers = {}
  Closers = {"closer"}
  Drafts <- Settled
  Overwrite = FALSE
  Targets = {}

SYMMETRY Symmetry

INVARIANT TypeOK
INVARIANT ReplacementLinked
