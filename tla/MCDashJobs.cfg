SPECIFICATION Spec
CONSTANTS
  p1 = p1
  p2 = p2
  Pid = {p1, p2}
  MaxJobs = 2
  MaxStops = 1
  Monitor = TRUE
  Toggle = TRUE
INVARIANTS
  StatusIsTrue
  NoLostChild
  NoMissedWake
SYMMETRY Symmetry
CHECK_DEADLOCK FALSE
