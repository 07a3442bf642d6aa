SPECIFICATION ConfinedSpec
CONSTANTS
  Device = {d1, d2, d3}
  Browser = {{d1, d3}, {d2}}
  Name = {n1, n2}
  Old = {n1}
  Slots = 1
  MaxDevices = 1
  MaxClock = 1
  MaxAttempts = 3
  MaxCharacters = 3
  MaxFailures = 1
  c1 = c1  c2 = c2  c3 = c3  ip1 = ip1  ip2 = ip2  q1 = q1
  Conn = {c1, c2, c3}
  Address = {ip1, ip2}
  From <- MCFrom
  Char = {q1, q2}
  MaxPerIp = 1
  MaxSockets = 2
  NewCharsPerIp = 1
  NewCharWindow = 2
  Cap <- MCCap
  Per <- MCPer
  DoorClock = 3
  MaxJumps = 1
  MaxFrames = 2
  MaxSilent = 0
CHECK_DEADLOCK FALSE
INVARIANTS
  AccountsAreOwned
  WaitsAreAnswered
  DoorKeepsCount
