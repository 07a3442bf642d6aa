SPECIFICATION FairSpec
CONSTANTS
  p1 = p1
  c1 = c1  c2 = c2
  Player = {p1}
  Conn = {c1, c2}
  NoPlayer = NoPlayer
  NoConn = NoConn
  MaxSockets = 2
  MaxSeq = 0
PROPERTIES
  NoEternalGhost
