CONSTANTS
  BitPos <- MCBitPos
  PRG <- MCPRG
  MaxSize <- MCMaxSize
  Pow2 <- MCPow2
SPECIFICATION DSpec
INVARIANTS
  DTypeOK
  LevelsFit
  SharesMeet
  DifferOnlyAtIndex
  PointFunction
