SPECIFICATION Spec
CONSTANTS
  n1 = n1
  n2 = n2
  n3 = n3
  scalar = scalar
  NotAnObject = scalar
  MaxExact = 4
  Fields = {"a", "b"}
  Refs <- ListNodes2
  Inputs <- FewInputs
  Patches <- FewPatches
  Queries <- FewQueries
  Limits = {1}
  IntHalf = 8
  MaxId = 3
  Operations = {"append", "update"}
  IndexFields = {}
  Overwriting <- FewPatches
  MaxIndices = 2
  MaxJournal = 0
INVARIANT StaysDefined
