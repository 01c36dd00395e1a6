CONSTANTS
  NULL = NULL
  size = 4
  LimitPerIndex = 2
  d = 2
  Shapes <- MCShapes
SPECIFICATION BSpec
INVARIANTS
  BCTypeOK
  IndicesDistinct
  ListsSound
  MatchesValid
  OutcomeJustified
  TreesCorrect
PROPERTIES
  BatchEnds
