CONSTANTS
  Dir = {"east", "west"}
  Delta <- MCDelta
  Walkable <- MCWalkable
  Spawn <- MCSpawn
  Exit <- MCExit
  Sealed <- MCSealed
  MaxPending = 2
  MaxSeq = 2
  MaxLinks = 1
  MaxFalls = 0
  Tab = {t1, t2}
  Slot = {k1, k2}
  MaxBreaks = 1
  MaxLogins = 1
  \* A window on an empty room.
  Listing <- NoThings
  Skills = {}
  Healing = {}
  Items = {}
  Usable = {}
  Missions = {}
  Npcs = {}
  Topics = {}
  Mates = {}
  Rooms = {r}
  Home <- NoThings
  Guild = {}
  Lairs = {}
  Hall = r
  Lines = {}
  Autos = {FALSE}
  MaxUp = 0
  MaxWire = 0
  MaxTurns = 0
  NoFight = NoFight
  Nowhere = Nowhere
SPECIFICATION LiveSpecs
CHECK_DEADLOCK FALSE
PROPERTIES
  TimersDoTheirWork
  WaitingEnds
