SPECIFICATION Spec
CONSTANTS
  MaxFd = 4
  Table <- Tables
  Request <- Lists
  MayThrow = TRUE
INVARIANTS
  SavedIsOriginal
  CommandSeesRequest
PROPERTIES
  ShellFdsRestored
