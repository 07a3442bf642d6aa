SPECIFICATION PartySpec
CONSTANTS
  p1 = p1  p2 = p2
  c1 = c1  c2 = c2
  p3 = p3
  town = town  den = den  cave = cave  lair = lair
  Player = {p1, p2, p3}
  Conn = {c1, c2}
  NoConn = NoConn
  NoRoom = NoRoom
  NoPlayer = NoPlayer
  NoBattle = NoBattle
  Room = {town, den, cave, lair}
  Spawn = town
  Den = {den, cave, lair}
  Boss = {lair}
  WindupDens = {cave, lair}
  MaxHp = 2
  EnemyHp = 2
  Damage = {1, 2}
  Mend = 1
  EveryNth <- MCEveryNth
  Skill = {"strike", "heal", "guard"}
  ShareNeeded = 1
  MaxPotions = 1
  MaxTimers = 2
  MaxFaults = 1
  MaxCrashes = 1
SYMMETRY Symmetry
INVARIANTS
  FightIsSound
  ScreensShowFights
  CreditIsDamage
  ClocksRun
CHECK_DEADLOCK FALSE
