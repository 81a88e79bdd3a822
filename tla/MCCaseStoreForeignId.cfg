SPECIFICATION Spec
CONSTANTS
  Null = Null
  NoOrder = NoOrder
  Requests = {r1, r2}
  Bodies <- MCBodies
  PathIds = {1}
  ForeignIds = {2}
  MaxId = 2
  PoolSize = 2
PROPERTY
  CaseIdsNeverChange
CHECK_DEADLOCK FALSE
