SPECIFICATION Spec
CONSTANTS
  n1 = n1
  n2 = n2
  n3 = n3
  scalar = scalar
  NotAnObject = scalar
  MaxExact = 4
  Fields = {"a", "b"}
  Refs <- ListNodes2
  Inputs <- FewInputs
  Patches = {}
  Queries <- BadQueries
  Limits = {1}
  IntHalf = 8
  MaxId = 3
  Operations = {"append", "drop", "enableJournal", "disableJournal"}
  IndexFields = {}
  Overwriting = {}
  MaxIndices = 2
  MaxJournal = 2
INVARIANT JournalAsAsked
