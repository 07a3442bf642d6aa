CONSTANTS
  World <- Both
  SchemaVersion = 2
  Player = {"p"}
  Files <- Lived
  Backup = {"b"}
  MaxStarts = 2
  Force = {TRUE}
  DryRun = {FALSE}
SPECIFICATION Spec
CHECK_DEADLOCK FALSE
INVARIANT RestoreAlwaysRuns
