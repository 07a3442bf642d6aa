CONSTANTS
  Device = {d1, d2, d3}
  Browser = {{d1}, {d2}, {d3}}
  Name = {n1}
  Old = {n1}
  Slots = 1
  MaxDevices = 2
  MaxClock = 1
  MaxAttempts = 5
  MaxCharacters = 1
  MaxFailures = 0
SPECIFICATION Spec
CHECK_DEADLOCK FALSE
INVARIANT WelcomeTokenWorks
