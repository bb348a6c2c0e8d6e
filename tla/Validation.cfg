SPECIFICATION Spec
CONSTANTS
  AtType <- MCAtType
  UidText <- MCUidText
  DateTimes <- MCDateTimes
  Objects <- MCObjects
  IntBits = 16
  Absent = Absent
  NotText = NotText
INVARIANTS
  Ordered
  Reported
  SameRouting
CHECK_DEADLOCK FALSE
