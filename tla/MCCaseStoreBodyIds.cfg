SPECIFICATION FairSpec
CONSTANTS
  Null = Null
  NoOrder = NoOrder
  Requests = {r1, r2, r3}
  Bodies <- MCAcceptedBodies
  PathIds = {1}
  ForeignIds = {2}
  MaxId = 2
  PoolSize = 2
INVARIANTS
  OneToOne
  NoOrphans
PROPERTY
  EveryRequestIsAnswered
CHECK_DEADLOCK FALSE
