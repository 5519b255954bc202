SPECIFICATION FairSpec
CONSTANTS
  MaxLaunch = 2
  MaxSigint = 2
  MayFail = TRUE
INVARIANTS
  NoStrayChild
  ListedIsReal
  ShellRestored
PROPERTIES
  LaunchReturns
CHECK_DEADLOCK FALSE
