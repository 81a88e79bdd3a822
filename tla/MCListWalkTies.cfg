SPECIFICATION Spec
CONSTANTS
  PerMs = 2
  Lists = {"cases", "backlog", "all"}
  Ids = {0, 2, 3}
  Days = {1, 2}
  Publications = {0, 2}
  CaseTables <- MCCaseTables
  ItemTables <- MCItemTables
  Limits = {0, 1, 2}
  NoLimit = NoLimit
  LastMs = 3
  Transitions = {t1}
  NoStamp = NoStamp
  NoCursor = NoCursor
INVARIANT
  BacklogWalkHasNoGaps
CHECK_DEADLOCK FALSE
