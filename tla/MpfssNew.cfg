CONSTANTS
  BitPos <- MCBitPos
  Size = 4
  t = 2
  b = 3
  Seed <- MCSeed
  Buckets <- MCBuckets
  Mask <- MCMask
  Values <- MCValues
  Schedule <- MCSchedule
  Runs = 2
SPECIFICATION FairSpec
CHECK_DEADLOCK FALSE
INVARIANTS
  NTypeOK
  CallsAligned
  OutcomesAgree
  ResultsShareFunction
PROPERTIES
  EndsTogether
  NewProgress
