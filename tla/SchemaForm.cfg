SPECIFICATION Spec
CONSTANTS
  Names <- MCNames
  GoodNames <- MCGoodNames
  Rows <- MCRows
  Stored <- MCStored
INVARIANTS TypeOK BuiltIsReadUnlessDifferent SchemaMeansTheForm UntouchedIsUnchanged
CHECK_DEADLOCK FALSE
