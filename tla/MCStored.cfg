SPECIFICATION KindSpec
CONSTANTS
  p1 = p1  p2 = p2
  Player = {p1, p2}
  Item = {"ampoule", "shard"}
  Mission = {"clean", "slayer"}
  Enemy = {"husk", "boss"}
  Trophy = {"shard"}
  Drops <- Dropped
  NoDrop = NoDrop
  Goal <- Wanted
  Count <- Times
  Reward <- Paying
  MinRank <- FromRank
  Requires <- Open
  SlainFlag <- FlagOf
  NoFlag = NoFlag
  Returns <- ComesBack
  Cost <- Prices
  MaxEarned = 1
  World <- Worlds
  SchemaVersion = 2
  Visitor = {"p"}
  Forced = {TRUE, FALSE}
  DryRun = {FALSE}
  Files <- SomeFiles
  b1 = b1  b2 = b2
  Backup = {b1, b2}
  MaxStarts = 2
  gate = gate
  hall = hall
  yard = yard
  talk = talk
  Room = {gate, hall, yard}
  Line = {talk}
  Order <- MCOrder
  Sensitive = {gate, talk}
  Bank <- MCBank
  Queues <- MCQueues
  Limits = {0, 1, 2}
  MaxFlips = 1
  MaxRuns = 2
SYMMETRY Symmetry
CHECK_DEADLOCK FALSE
INVARIANTS
  ItemsConserved
  TrophiesBuyRanks
  CopiesAreFresh
  FilesAreWhole
  RunsDoWhatTheySay
PROPERTIES
  PaidOnce
  PaidWorkStays
