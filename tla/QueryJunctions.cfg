SPECIFICATION Spec
CONSTANTS
  MaxExact = 4
  Asked <- JunctionQueries
  Expressions <- JunctionParts
  Depth <- Nesting
  Stored <- Documents
  Indexed = {"a", "c"}
  Fits <- PatternFits
INVARIANT EveryAnswerIsMeaning
