SPECIFICATION Spec
CONSTANTS
  MaxExact = 4
  Inserted <- MixedValues
  MaxSize = 8
INVARIANT LookupFindsAll
CHECK_DEADLOCK FALSE
