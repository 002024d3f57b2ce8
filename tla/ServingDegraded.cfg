SPECIFICATION Spec
CONSTANTS
  w1 = w1
  w2 = w2
  c1 = c1
  Writer = {w1}
  Consumer = {c1}
  MaxRevision = 1
  MaxCrashes = 0
  MaxFaults = 2
PROPERTY SnapshotKeepsServing
CHECK_DEADLOCK FALSE
