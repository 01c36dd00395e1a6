CONSTANTS
  Key <- MCKey
  Rand <- MCRand
  HashFunction <- MCHashFunction
  IntMin <- MCIntMin
  NoHashFunctions = 2
  NoHashTables = 2
  SizeHashTables <- MCSizeHashTables
  MaxLoop = 4
  NoKeys = 4
SPECIFICATION Spec
INVARIANTS
  TypeOK
  NoKeyLost
  SlotsHoldHashedKeys
  WalkBounded
