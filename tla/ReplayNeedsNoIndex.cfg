SPECIFICATION Spec
CONSTANTS
  scalar = scalar
  NotAnObject = scalar
  MaxExact = 4
  Fields = {"a", "k", "v"}
  Refs <- ListNodes
  Inputs <- TwoInputs
  Patches <- TwoInputs
  Queries <- TwoQueries
  Limits = {0, 17}
  IntHalf = 8
  MaxId = 2
  NameOrder <- StrcmpOrder
  Garbled = "garbled"
  Collections = {"c"}
  IndexFields = {"a"}
  Keys <- FewKeys
  KeyValues <- FewKeyValues
  Operations = {"append", "update", "createIndex"}
  Faults = {}
  MaxJournal = 4
  MaxDocuments = 2
  MaxCrashes = 0
INVARIANT ReplayGivesBack
CHECK_DEADLOCK FALSE
