SPECIFICATION Spec
CONSTANTS
  Null = Null
  Ids = {i1, i2, i3}
  CaseRows <- MCCaseRows
  Tables <- MCTables
  Queries <- MCQueries
  Tabs = {t1, t2}
  Browsers = {b1}
  BrowserOf <- MCBrowserOf
  MaxAge = 2
  MaxTime = 2
  MaxWrites = 1
  MaxAsks = 2
  Nothing = Nothing
INVARIANTS
  FiguresAddUp
  SameCasesSameFigures
  DrillDownsAgree
  StaleByMaxAgeAtMost
SYMMETRY Symmetry
CHECK_DEADLOCK FALSE
