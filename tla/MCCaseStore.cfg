SPECIFICATION Spec
CONSTANTS
  Null = Null
  NoOrder = NoOrder
  Requests = {r1, r2, r3}
  Bodies <- MCBodies
  PathIds = {1, 2}
  ForeignIds = {}
  MaxId = 2
  PoolSize = 2
SYMMETRY RequestSymmetry
INVARIANTS
  TypeOK
  LookupStillHolds
PROPERTY
  ImplementsRegistry
CHECK_DEADLOCK FALSE
