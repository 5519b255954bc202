SPECIFICATION MCSpec
CONSTANTS
  Command = {"ls", "echo"}
  Builtin = {"echo"}
  Entries <- MCEntries
  Absolute = {"/bin"}
  Has <- MCHas
  Name = {"PATH", "PWD", "OLDPWD", "x"}
  Value = {"near", "far", "/d", "/e"}
  None = "unset"
  Values <- MCValues
  Unsettable = {"x"}
  Protectable = {"x"}
  FirstPath = "near"
  Home = "/d"
  Directory = {"/d", "/e"}
  AllExport = FALSE
  MaxScopes = 2
  MaxLocals = 2
INVARIANTS
  TextsAreLive
  LookupIsSearch
PROPERTIES
  ScopesAreUndone
CHECK_DEADLOCK FALSE
