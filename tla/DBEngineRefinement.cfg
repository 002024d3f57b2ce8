SPECIFICATION Spec
CONSTANTS
  r1 = r1
  r2 = r2
  r3 = r3
  a = a
  b = b
  x = x
  none = none
  Request = {r1, r2}
  Path <- MCPath
  Content = {a, b, x}
  Absent = none
  Invalid = {x}
  Collection = {1, 2}
  Batches <- AllBatches
  InitialStores <- MCInitialStores
  MaxCrashes = 2
  MaxFaults = 2
INVARIANTS TypeOK Recoverable SeenIsCurrent AcknowledgedIsDurable RefusedLeavesNoTrace AttributedIsPublished
PROPERTIES
  ImplementsAtomicStore
  EveryRequestAnswered
  RecoveryCompletes
CHECK_DEADLOCK FALSE
