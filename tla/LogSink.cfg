SPECIFICATION Spec
CONSTANTS
  BatchRows = 2
  MaxBuffered = 3
  MaxLines = 4
INVARIANTS TypeOK CountCoversLoss
PROPERTY LinesSettle
CHECK_DEADLOCK FALSE
