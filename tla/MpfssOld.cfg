CONSTANTS
  BitPos <- MCBitPos
  Size = 3
  t = 2
  b = 3
  Seed <- MCSeed
  Buckets <- MCBuckets
  Mask <- MCMask
  Values <- MCValues
  Threads <- MCThreads
  Schedule <- MCSchedule
  Runs = 2
  Byte <- MCByte
  MemBytes = 3
  SizeOfT = 2
SPECIFICATION Spec
CHECK_DEADLOCK FALSE
INVARIANTS
  OTypeOK
  ThreadsShareFunction
PROPERTIES
  OldProgress
