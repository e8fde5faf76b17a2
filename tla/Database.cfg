SPECIFICATION Spec
CONSTANTS
  scalar = scalar
  NotAnObject = scalar
  MaxExact = 4
  Fields = {"a", "k", "v"}
  Refs <- ListNodes
  Inputs <- FewInputs
  Patches <- FewPatches
  Queries <- FewQueries
  Limits = {0, 17}
  IntHalf = 8
  MaxId = 2
  NameOrder <- StrcmpOrder
  Garbled = "garbled"
  Collections = {"c"}
  IndexFields = {"a"}
  Keys <- FewKeys
  KeyValues <- FewKeyValues
  Operations = {"append", "update", "drop", "upsert", "dropCollection", "createIndex", "setValue", "save"}
  Faults = {"saving", "torn", "short", "unwritten"}
  MaxJournal = 2
  MaxDocuments = 2
  MaxCrashes = 2
INVARIANTS
  TypeOK
  FilesHoldCommitted
  ClientSeesCommitted
  KeysAreUnique
  StartsFailForAReason
  TornFileIsBeginning
PROPERTY Recovers
CHECK_DEADLOCK FALSE
