SPECIFICATION ValidateSpec
CONSTANTS
  AtType <- MCAtType
  IntBits = 16
  KeySets <- MCKeySets
  Accepted = Accepted
INVARIANTS
  FirstOffender
  Unaliased
  ParentsFirst
CHECK_DEADLOCK FALSE
