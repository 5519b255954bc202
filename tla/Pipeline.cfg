SPECIFICATION FairSpec
CONSTANTS
  Stages = 3
  Capacity = 1
  Supply = {0, 2}
  Endless = Endless
  MayFail = TRUE
INVARIANTS
  EofMeansOver
  NothingLeft
PROPERTIES
  PipelineReturns
CHECK_DEADLOCK FALSE
