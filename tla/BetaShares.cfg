CONSTANTS
  BitPos <- MCBitPos
  used = 2
  b = 4
  Index <- MCIndex
SPECIFICATION Spec
INVARIANTS
  BTypeOK
  PairedByRank
