SPECIFICATION Spec
CONSTANTS
  n1 = n1
  n2 = n2
  n3 = n3
  scalar = scalar
  NotAnObject = scalar
  MaxExact = 4
  Fields = {"a", "b"}
  Refs <- ListNodes2
  Inputs <- FewInputs
  Patches <- FewPatches
  Queries <- FewQueries
  Limits = {0, 12}
  IntHalf = 8
  MaxId = 2
  Operations = {"append", "update", "drop"}
  IndexFields = {"a"}
  Overwriting = {}
  MaxIndices = 2
  MaxJournal = 2
PROPERTY UpdateChangesEveryMatch
