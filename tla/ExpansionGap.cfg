SPECIFICATION Spec
CONSTANTS
  TzDatabase <- MCTzDatabase
  CustomIds <- MCCustomIds
  Floating = Floating
  Malformed = Malformed
  Horizon <- MCHorizon
  DayLength = 4
  None = None
  BadKeys <- MCBadKeys
  Absent = Absent
  Null = Null
  Junk = Junk
  West = West
  Fold = Fold
  East = East
  Late = Late
  Unknown = Unknown
  CustomFixed = CustomFixed
  CustomDst = CustomDst
  CustomBad = CustomBad
  BadKey = BadKey
  Windows <- MCWindows
  Series <- GapSeries
INVARIANT
  KeepsWallClock
CHECK_DEADLOCK FALSE
