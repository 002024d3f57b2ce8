SPECIFICATION Spec
CONSTANTS
  Path = {1, 2}
  Remotes = {TRUE, FALSE}
  MaxWrites = 1
  MaxForeign = 1
  MaxToggles = 1
  MaxCrashes = 0
  MaxFaults = 1
  Faulty <- Network
  Fragile = {}
PROPERTY BothSidesKept
CHECK_DEADLOCK FALSE
