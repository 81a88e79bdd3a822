SPECIFICATION Spec
CONSTANTS
  Null = Null
  Blank = Blank
  Undefined = Undefined
  NaN = NaN
  Sheets <- SingleRowSheets
  MaxRuns = 1
INVARIANT
  NoDataIsNotYes
CHECK_DEADLOCK FALSE
