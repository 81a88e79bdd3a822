SPECIFICATION Spec
CONSTANTS
  Articles <- TriageArticles
  Snapshots <- TriageSnapshots
  Users = {u1, u2}
  NoUser = NoUser
  Requests = {r1, r2, r3}
  NoRequest = NoRequest
  Refreshes = {p1}
SYMMETRY Symmetry
INVARIANTS
  CompletedByWhoTookIt
  DoneMeansDecided
CHECK_DEADLOCK FALSE
