SPECIFICATION Spec
CONSTANTS
  w1 = w1
  w2 = w2
  c1 = c1
  Writer = {w1}
  Consumer = {c1}
  MaxRevision = 2
  MaxCrashes = 1
  MaxFaults = 2
INVARIANTS TypeOK FlagsNotOlder NoMissedWake
PROPERTIES HoldIsNoWayAround ServedCatchesUp
CHECK_DEADLOCK FALSE
