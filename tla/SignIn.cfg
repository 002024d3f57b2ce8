SPECIFICATION Spec
CONSTANTS
  b1 = b1
  b2 = b2
  ann = ann
  bob = bob
  r1 = r1
  r2 = r2
  Browser = {b1, b2}
  Account = {ann, bob}
  Record = {r1, r2}
  None = None
  Broken = Broken
  FlowTTL = 1
  SessionTTL = 1
  MaxClock = 2
  MaxFlows = 2
  MaxChanges = 2
SYMMETRY Symmetric
INVARIANT TypeOK
PROPERTIES SpentOnce SignedInAsOneself
CHECK_DEADLOCK FALSE
