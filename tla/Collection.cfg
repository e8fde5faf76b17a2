SPECIFICATION Spec
CONSTANTS
  n1 = n1
  n2 = n2
  n3 = n3
  scalar = scalar
  NotAnObject = scalar
  MaxExact = 4
  Fields = {"a", "b"}
  Refs <- ListNodes3
  Inputs <- UniformInputs
  Patches <- UniformPatches
  Queries <- UniformQueries
  Limits = {1, 9}
  IntHalf = 8
  MaxId = 3
  Operations = {"append", "update", "drop", "upsert", "createIndex", "dropIndex", "clear"}
  IndexFields = {"a", "b"}
  Overwriting = {}
  MaxIndices = 2
  MaxJournal = 0
SYMMETRY Nodes3Symmetry
INVARIANTS
  TypeOK
  NodesAreDocuments
  IndexCoherent
  IndexTransparent
  IdsBelowCounter
  StaysDefined
PROPERTY RefinesDocStore
