SPECIFICATION Spec
CONSTANTS
  p1 = p1  p2 = p2
  c1 = c1  c2 = c2
  town = town  den = den
  Player = {p1, p2}
  Conn = {c1, c2}
  NoConn = NoConn
  NoRoom = NoRoom
  NoPlayer = NoPlayer
  NoBattle = NoBattle
  Room = {town, den}
  Spawn = town
  Den = {den}
  Boss = {}
  WindupDens = {}
  MaxHp = 2
  EnemyHp = 2
  Damage = {1}
  Mend = 1
  EveryNth <- MCEveryNth
  Skill = {}
  ShareNeeded = 1
  MaxPotions = 1
  MaxTimers = 1
  MaxFaults = 0
  MaxCrashes = 0
SYMMETRY Symmetry
INVARIANT FightEndsWithRoom
CHECK_DEADLOCK FALSE
