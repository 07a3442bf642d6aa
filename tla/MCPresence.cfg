SPECIFICATION Spec
CONSTANTS
  p1 = p1  p2 = p2
  c1 = c1  c2 = c2  c3 = c3
  hall = hall  yard = yard  cave = cave
  Player = {p1, p2}
  Conn = {c1, c2, c3}
  NoConn = NoConn
  NoRoom = NoRoom
  MaxTimers = 1
  Room <- MCRoom
  RegionOf <- MCRegionOf
  Exit <- MCExit
  Arena = {cave}
  Spawn = hall
SYMMETRY Symmetry
INVARIANTS
  IndexMatchesPositions
  StoredPositionIsCurrent
  ClientsAgree
PROPERTIES
  QuietReconnect
CHECK_DEADLOCK FALSE
