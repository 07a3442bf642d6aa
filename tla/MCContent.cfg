SPECIFICATION ContentSpec
CONSTANTS
  Rooms = 6
  Root = 3
  Loops = TRUE
  Shapes = {"open", "lair", "split"}
  Doors = {"none", "pair", "half", "oneway", "crossed", "sealed", "banned", "ranked", "tooHigh", "trap", "inward"}
  Seconds = {"none", "pair", "loop", "banned"}
  Slips = {"none", "hunt", "hunt2", "noClerk", "seedless", "noFoe", "mood", "clerkInWall", "lostFlag", "undeclared"}
  Width = 3
  Batch = 2
  MaxModel = 2
  MaxEdits = 3
  Good = {g1}
  Bad = {b1}
  Drawn <- MCDrawn
  Authored <- MCAuthored
  Slain <- SlainFlag
  TopRank = 1
  Item = {"coin"}
CHECK_DEADLOCK FALSE
INVARIANTS
  OnePiece
  AcceptedWorldsWork
  FileIsResumable
PROPERTIES
  DoorsReturn
  NothingOverwritten
