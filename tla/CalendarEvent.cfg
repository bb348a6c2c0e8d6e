SPECIFICATION Spec
CONSTANTS
  Event = Event
  Empty = Empty
  a = a
  k1 = k1
  c1 = c1
  c2 = c2
  c3 = c3
  Null = Null
  Broken = Broken
  NotObject = NotObject
  Type = Event
  Zero = Empty
  Fields <- MCFields
  Kind <- MCKind
  Variants <- MCVariants
  Names <- MCNames
  Scalars <- MCScalars
  Sets <- MCSets
  JMAPMembers <- MCJMAPMembers
  JMAPKind <- MCJMAPKind
  Cells = {c1, c2, c3}
  Wires <- MCWires
  MaxTurns = 2

  
PROPERTIES
  LeavesHeldEvent
  AgreesWithCore
  RoundTrip
