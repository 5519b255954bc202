SPECIFICATION Spec
CONSTANTS
  Scripts <- MCScripts
  MaxPid = 4
  MaxRuns = 5
  MayFail = TRUE
INVARIANTS RunsAsWritten NothingLost
PROPERTIES LineEnds
CHECK_DEADLOCK FALSE
