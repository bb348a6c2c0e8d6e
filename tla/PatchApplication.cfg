SPECIFICATION Spec
CONSTANTS
  AtType <- MCAtType
  IntBits = 16
  Null = Null
  Malformed = Malformed
  Documents <- MCDocuments
  Patches <- MCPatches
INVARIANTS
  TypeOK
  IndexInBounds
  Framed
  KeepsType
PROPERTIES
  ImplementsContract
CHECK_DEADLOCK FALSE
