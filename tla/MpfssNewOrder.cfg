CONSTANTS
  BitPos <- MCBitPos
  Size = 4
  t = 2
  b = 3
  Seed <- MCSeed
  Buckets <- MCBuckets
  Mask <- MCMask
  Values <- MCValues
  Schedule <- MCSchedule
  Runs = 1
SPECIFICATION Spec
CHECK_DEADLOCK FALSE
INVARIANTS
  InputFunctionShared
