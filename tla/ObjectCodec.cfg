SPECIFICATION Spec
CONSTANTS
  Event = Event
  Empty = Empty
  a = a
  b = b
  k1 = k1
  k2 = k2
  Null = Null
  Broken = Broken
  NotObject = NotObject
  Type = Event
  Zero = Empty
  Fields <- MCFields
  Kind <- MCKind
  Variants <- MCVariants
  Names <- MCNames
  Scalars <- MCScalars
  Sets <- MCSets
  Wires <- MCWires
  MaxTurns = 2
INVARIANTS
  TypeOK
  WellFormed
  Preserved
PROPERTIES
  DecodesWhole
  RoundTrip
  ByteStable
