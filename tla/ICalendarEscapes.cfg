SPECIFICATION Spec
CONSTANTS
  TzDatabase <- MCTzDatabase
  CustomIds = {}
  Floating <- MCFloating
  Malformed = Malformed
  Day = 10
  Chars <- MCChars
  Slash = "slash"
  EtcUTC <- Zulu
  Absent = Absent
  Upper <- MCUpper
  Lower <- MCLower
  Unset = Unset
  NoEquals = NoEquals
  BadValue = BadValue
  Ordinals <- MCOrdinals
  IdOrder <- MCIdOrder
  ZoneOrder <- MCZoneOrder
  Special <- MCSpecial
  Escape = "escape"
  Quoted <- MCQuoted
  EpochTime = "epoch"
  Raw = Raw
  Items <- MCItems
  Arguments <- MCEscapedArguments
  Calendars <- MCCalendars
  ControlTexts = {"ctl"}
  Control = "ctl"
  MaxRounds = 1
INVARIANTS
  EscapedTextReturns
CHECK_DEADLOCK FALSE
