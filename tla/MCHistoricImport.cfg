SPECIFICATION Spec
CONSTANTS
  Null = Null
  Blank = Blank
  Undefined = Undefined
  NaN = NaN
  Sheets <- MCSheets
  MaxRuns = 3
INVARIANTS
  TypeOK
  NoLineIsLost
  DeadLettersAreNotCases
  DuplicatesOnlyFromDoubt
  RefusalsHaveAReason
  YesIsWhatTheSheetSays
CHECK_DEADLOCK FALSE
