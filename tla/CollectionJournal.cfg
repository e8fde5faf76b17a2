SPECIFICATION FairSpec
CONSTANTS
  n1 = n1
  n2 = n2
  n3 = n3
  scalar = scalar
  NotAnObject = scalar
  MaxExact = 4
  Fields = {"a", "b"}
  Refs <- ListNodes2
  Inputs <- FewInputs
  Patches <- FewPatches
  Queries <- FewQueries
  Limits = {0, 12}
  IntHalf = 8
  MaxId = 2
  Operations = {"append", "update", "drop", "upsert", "createIndex", "enableJournal", "disableJournal"}
  IndexFields = {"a"}
  Overwriting = {}
  MaxIndices = 2
  MaxJournal = 2
CHECK_DEADLOCK FALSE
INVARIANT JournalAsAsked
PROPERTIES
  RefinesDocStore
  CallsReturn
