CONSTANTS
  Dir = {"east", "west"}
  Delta <- MCDelta
  Walkable <- MCWalkable
  Spawn <- MCSpawn
  Exit <- MCExit
  Sealed <- MCSealed
  MaxPending = 2
  MaxSeq = 3
  MaxLinks = 2
  MaxFalls = 1
  Tab = {t1, t2}
  Slot = {k1, k2}
  MaxBreaks = 2
  MaxLogins = 1
  \* A window on an empty room.
  Listing <- NoThings
  Skills = {}
  Healing = {}
  Items = {}
  Usable = {}
  Missions = {}
  Npcs = {}
  Topics = {}
  Mates = {}
  Rooms = {r}
  Home <- NoThings
  Guild = {}
  Lairs = {}
  Hall = r
  Lines = {}
  Autos = {FALSE}
  MaxUp = 0
  MaxWire = 0
  MaxTurns = 0
SPECIFICATION PageSpec
CHECK_DEADLOCK FALSE
INVARIANTS
  SeesItself
  LinkIsTrue
PROPERTIES
  SmoothWhenRight
  ReasonStays
