SPECIFICATION Spec
CONSTANTS
  d1 = d1
  d2 = d2
  Handles <- TwoHandles
  Scalar <- Number
  JsonTexts <- FewTexts
  Texts <- FewEvents
  Names = {"a", "b"}
  MaxNodes = 3
  MaxLost = 0
SYMMETRY Symmetry
INVARIANTS
  TypeOK
  OneOwner
PROPERTIES
  ForgetsNothing
  ViewsOutliveAdding
  RefinesDocTrees
CHECK_DEADLOCK FALSE
