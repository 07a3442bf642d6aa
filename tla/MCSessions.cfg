SPECIFICATION Spec
CONSTANTS
  p1 = p1  p2 = p2
  c1 = c1  c2 = c2  c3 = c3
  Player = {p1, p2}
  Conn = {c1, c2, c3}
  NoPlayer = NoPlayer
  NoConn = NoConn
  MaxSockets = 2
  MaxSeq = 1
SYMMETRY Symmetry
INVARIANTS
  OpenPageOwnsSession
  SeqBelongsToConnection
PROPERTIES
  DepartsOnlyWhenGone
  ImplementsSeats
