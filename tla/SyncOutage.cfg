SPECIFICATION Spec
CONSTANTS
  Path = {1}
  Remotes = {TRUE}
  MaxWrites = 2
  MaxForeign = 0
  MaxToggles = 0
  MaxCrashes = 2
  MaxFaults = 1
  Faulty <- AnyCommand
  Fragile = {"up", "boot"}
INVARIANTS TypeOK ReportIsHonest
PROPERTIES AttributionKept ClearedAfterPush SyncedIsOnRemote BackedUp
CHECK_DEADLOCK FALSE
