SPECIFICATION Spec
CONSTANTS
  Refresher = {"refresh"}
  Watcher = {"watch", "again"}
  MaxCommit = 2
  MaxChanges = 1
  MaxFaults = 1
INVARIANTS TypeOK HandlersToldLast
PROPERTY WatchCatchesUp
CHECK_DEADLOCK FALSE
