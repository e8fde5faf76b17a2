SPECIFICATION CursorSpec
CONSTANTS
  n1 = n1
  n2 = n2
  n3 = n3
  end = end
  scalar = scalar
  NotAnObject = scalar
  AtEnd = end
  SizeMax = 9
  CursorLimits = {0}
  MaxDelivered = 0
  MaxExact = 4
  Fields = {"a"}
  Refs <- ListNodes
  Inputs <- AnyInputs
  Patches <- AnyPatches
  Queries <- AnyQueries
  Limits = {1}
  IntHalf = 8
  MaxId = 3
  Operations = {"append", "update", "drop", "createIndex", "dropIndex", "clear", "find", "next", "count", "setLimit"}
  IndexFields = {"a"}
  Overwriting = {}
  MaxIndices = 2
  MaxJournal = 0
SYMMETRY Symmetry
CHECK_DEADLOCK FALSE
INVARIANTS
  NodesAreDocuments
  CursorTypeOK
  CursorHoldsOn
  DeliversOnce
  DeliversAll
