CONSTANTS
  Dir = {}
  Delta <- NoWays
  Walkable <- Here1
  Spawn <- Nowhere
  Exit <- NoWays
  Sealed = {}
  MaxPending = 0
  MaxSeq = 0
  MaxLinks = 0
  MaxFalls = 0
  Tab = {}
  Slot = {k1}
  MaxBreaks = 0
  MaxLogins = 0
  n1 = n1
  i1 = i1
  i2 = i2
  p1 = p1
  m1 = m1
  t1 = t1
  s1 = s1
  r1 = r1
  r2 = r2
  r3 = r3
  Listing <- MCListing
  Skills = {s1}
  Healing = {s1}
  Items = {i1, i2}
  Usable = {i2}
  Missions = {m1}
  Npcs = {n1}
  Topics = {t1}
  Mates = {p1}
  Rooms = {r1, r2, r3}
  Home <- HomeOf
  Guild = {n1}
  Lairs = {r1, r2}
  Hall = r1
  Lines = {}
  Autos = {TRUE, FALSE}
  MaxUp = 1
  MaxWire = 2
  MaxTurns = 2
SPECIFICATION KindSpec
VIEW Seen
CHECK_DEADLOCK FALSE
INVARIANTS
  WindowHasAList
  WindowIsTrue
PROPERTIES
  IrreversibleTakesTwo
