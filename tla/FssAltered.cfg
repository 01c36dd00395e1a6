CONSTANTS
  BitPos <- MCBitPos
  PRG <- MCPRG
  MaxSize <- MCMaxSize
  Pow2 <- MCPow2
  Sizes <- MCSizes
  Roots <- MCRoots
  Teams <- MCTeams
SPECIFICATION FairSpec
INVARIANTS
  FTypeOK
  ExpandsPointFunction
PROPERTIES
  FssEnds
  FssProgress
CHECK_DEADLOCK FALSE
