CONSTANTS
  World <- Same
  SchemaVersion = 2
  Player = {"p"}
  Files <- New
  Backup = {"b"}
  MaxStarts = 2
  Force = {TRUE}
  DryRun = {FALSE}
SPECIFICATION Spec
CHECK_DEADLOCK FALSE
INVARIANT RefusedOnlyByNewer
