CONSTANTS
  Width = 3
  Drawn = {1, 2, 3}
  Good = {g1}
  Bad = {b1}
  Batch = 2
  MaxModel = 2
  MaxEdits = 2
  Beside = FALSE
SPECIFICATION Spec
INVARIANTS DoorsHaveTwoSides
