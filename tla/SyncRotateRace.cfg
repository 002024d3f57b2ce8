SPECIFICATION Spec
CONSTANTS
  Path = {1}
  Remotes = {TRUE}
  MaxWrites = 1
  MaxForeign = 0
  MaxToggles = 0
  MaxCrashes = 0
  MaxFaults = 0
  Faulty = {}
  Fragile = {}
INVARIANT CommitsNameWriters
CHECK_DEADLOCK FALSE
