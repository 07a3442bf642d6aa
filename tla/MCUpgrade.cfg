SPECIFICATION PartsSpec
CONSTANTS
  s1 = s1  s2 = s2
  Session = {s1, s2}
  Target = {"room", "secret", "lore"}
  RoomTarget = "room"
  Sensitive = {"room", "secret"}
  Locked = {"secret"}
  Concurrency = 1
  MaxPending = 2
  MaxAttempts = 2
  MaxWatchers = 1
  MaxEpochs = 2
  MaxLines = 1
  OtherProcess <- MCOther
SYMMETRY Symmetry
INVARIANTS
  TextsAreTrue
  QueueWorks
PROPERTIES
  LinesKeepTheirPlace
  WrittenOnce
CHECK_DEADLOCK FALSE
