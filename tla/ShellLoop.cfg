SPECIFICATION FairSpec
CONSTANTS
  Kid = {k1, k2, k3}
  ForkMayFail = TRUE
  MaxLines = 3
  MaxSigint = 2
  MaxTstp = 1
INVARIANTS
  ExitIsRequested
  NoChildAtPrompt
  MaskDiscipline
PROPERTIES
  PromptReturns
