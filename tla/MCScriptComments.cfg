SPECIFICATION Spec
CONSTANTS
  Scripts <- Commented
  MaxPid = 4
  MaxRuns = 5
  MayFail = TRUE
INVARIANT RunsAsCommented
CHECK_DEADLOCK FALSE
