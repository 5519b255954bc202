SPECIFICATION Spec
CONSTANTS
  Scripts <- MCScripts
  Lines <- MCLines
INVARIANTS
  FramesMatch
  InterruptsOn
  RunsAsWritten
CHECK_DEADLOCK FALSE
