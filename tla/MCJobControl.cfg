SPECIFICATION MCSpec
CONSTANTS
  p1 = p1
  p2 = p2
  c1 = c1
  c2 = c2
  Pid = {p1, p2, c1, c2}
  Group <- SinglesAndPair
  Child = {c1, c2}
  Foreign = {}
  Enabled = TRUE
  Interactive = TRUE
  MaxJobs = 2
INVARIANTS
  TypeOK
  NoFalseCompletion
  LiveTracked
  SafeExit
  ReapIsRecorded
  NoSilentErase
PROPERTIES
  DoneIsFinal
  ImplementsLedger
  OverIsForgotten
