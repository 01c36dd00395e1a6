CONSTANTS
  Size <- MCSize
  Key <- MCKey
  Rand <- MCRand
  HashFunction <- MCHashFunction
  IntMin <- MCIntMin
  NoHashFunctions = 2
  NoHashTables = 1
  SizeHashTables <- MCSizeHashTables
  MaxLoop <- MCMaxLoop
  NoKeys = 3
SPECIFICATION ASpec
INVARIANTS
  ATypeOK
  BucketsCorrect
  MatchesConsistent
  CuckooNeverThrows
PROPERTIES
  ImplementsContract
