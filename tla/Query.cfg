SPECIFICATION Spec
CONSTANTS
  MaxExact = 4
  Asked <- Nested
  Expressions <- Nested
  Depth <- Nesting
  Stored <- Documents
  Indexed = {"a", "c"}
  Fits <- PatternFits
INVARIANTS
  StaysInBounds
  OneVerdict
  AnswersAreMeaning
