CONSTANTS
  BitPos <- MCBitPos
  Size = 3
  MaxT = 3
  MaxThreads = 2
  Mask <- MCMask
  Inputs <- MCInputs
  Values <- MCValues
SPECIFICATION Spec
INVARIANTS
  ThreadedShares
