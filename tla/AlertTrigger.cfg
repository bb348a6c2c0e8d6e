SPECIFICATION Spec
CONSTANTS
  MaxUint = 8191
  NanoDigits = 2
  NoDigits = NoDigits
  NoPoint = NoPoint
  NotDigits = NotDigits
  Absent = Absent
  Null = Null
  NotObject = NotObject
  NotText = NotText
  Members <- MCMembers
  Offsets <- MCOffsets
  Anchors <- MCAnchors
  Whens <- MCWhens
  Instants <- MCInstants
  MaxTurns = 2
INVARIANTS
  SameSpan
  DecodedFits
  RoundTrips
  RealInstant
  KeepsKind
