SPECIFICATION Spec
CONSTANTS
  Articles <- IngestArticles
  Snapshots <- IngestSnapshots
  Users = {u1}
  NoUser = NoUser
  Requests = {r1}
  NoRequest = NoRequest
  Refreshes = {p1, p2, p3}
SYMMETRY Symmetry
INVARIANTS
  TypeOK
  OneRowPerArticle
  RefreshedArticlesAreOnTheBoard
PROPERTY
  OnlyTransitionsTriage
CHECK_DEADLOCK FALSE
