------------------------------ MODULE DateTime ------------------------------
(***************************************************************************)
(* The six-field date-time behind LocalDateTime and UTCDateTime            *)
(* (datetime.go), and the conversions of a UTCDateTime from and to an      *)
(* instant (utcdatetime.go), where the calendar is that of package time.   *)
(***************************************************************************)
EXTENDS Integers, Sequences

CONSTANT NotDigits  \* a field of a text that holds another character

ASSUME DateTimeAssumption == NotDigits \notin Int

DT(year, month, day, hour, minute, second) ==
  [year |-> year, month |-> month, day |-> day,
   hour |-> hour, minute |-> minute, second |-> second]

DateTimes ==
  [year : Int, month : Int, day : Int, hour : Int, minute : Int, second : Int]

(***************************************************************************)
(* A text: its fields, whether its length is the expected one and its      *)
(* separators are in place, and whether it ends in "Z".                    *)
(***************************************************************************)
DTText(fields, shaped, z) == [fields |-> fields, shaped |-> shaped, z |-> z]

-----------------------------------------------------------------------------
(***************************************************************************)
(* isLeapYear, daysInMonth, validate.                                      *)
(***************************************************************************)
IsJulianLeapYear(year) == year % 4 = 0

IsLeapYear(year) == year % 4 = 0 /\ (year % 100 # 0 \/ year % 400 = 0)

DaysInMonth(year, month) ==
  CASE month \in {1, 3, 5, 7, 8, 10, 12} -> 31
    [] month \in {4, 6, 9, 11}           -> 30
    [] month = 2                         -> IF IsLeapYear(year) THEN 29 ELSE 28
    [] OTHER                             -> 0

Valid(dt) ==
  /\ dt.year \in 1 .. 9999
  /\ dt.month \in 1 .. 12
  /\ dt.day \in 1 .. DaysInMonth(dt.year, dt.month)
  /\ dt.hour \in 0 .. 23
  /\ dt.minute \in 0 .. 59
  /\ dt.second \in 0 .. 59

(***************************************************************************)
(* scanDateTime: the value of the digits, which must be a valid one.       *)
(***************************************************************************)
Scanned(f) == DT(f[1], f[2], f[3], f[4], f[5], f[6])

ScansDT(text, requireZ) ==
  /\ text.shaped
  /\ text.z = requireZ
  /\ \A i \in 1 .. 6 : text.fields[i] # NotDigits
  /\ Valid(Scanned(text.fields))

(***************************************************************************)
(* appendText, for a valid value.                                          *)
(***************************************************************************)
AppendTextLocal(dt, withZ) ==
  DTText(<<dt.year % 10000, dt.month % 100, dt.day % 100,
           dt.hour % 100, dt.minute % 100, dt.second % 100>>, TRUE, FALSE)

AppendText(dt, withZ) ==
  DTText(<<dt.year % 10000, dt.month % 100, dt.day % 100,
           dt.hour % 100, dt.minute % 100, dt.second % 100>>, TRUE, withZ)

-----------------------------------------------------------------------------
(***************************************************************************)
(* time.Date and the fields of a time.Time in UTC: an instant is a day     *)
(* number and a second of that day; fields out of range carry over.  The   *)
(* years repeat after 400 of them.                                         *)
(***************************************************************************)
IsInstant(t) == t.day \in Int /\ t.second \in Nat /\ t.second < 86400

DaysIn400Years == 146097

DaysBeforeYear(year) ==
  LET y == year - 1 IN 365 * y + (y \div 4) - (y \div 100) + (y \div 400)

YearLength(year) == DaysBeforeYear(year + 1) - DaysBeforeYear(year)

DaysBeforeMonth(year, month) ==
  <<0, 31, 59, 90, 120, 151, 181, 212, 243, 273, 304, 334>>[month]
    + (IF month > 2 THEN YearLength(year) - 365 ELSE 0)

Time(dt) ==
  LET year    == dt.year + ((dt.month - 1) \div 12)
      month   == ((dt.month - 1) % 12) + 1
      seconds == 3600 * dt.hour + 60 * dt.minute + dt.second
  IN  [day    |-> DaysBeforeYear(year) + DaysBeforeMonth(year, month) + dt.day
                    + (seconds \div 86400),
       second |-> seconds % 86400]

FromTime(t) ==
  LET days  == t.day - 1
      last  == 400 * (days \div DaysIn400Years) + ((days % DaysIn400Years) \div 365) + 1
      year  == CHOOSE y \in {last - 1, last} :
                 DaysBeforeYear(y) < t.day /\ t.day <= DaysBeforeYear(y + 1)
      rest  == t.day - DaysBeforeYear(year)
      month == CHOOSE m \in 1 .. 12 :
                 /\ DaysBeforeMonth(year, m) < rest
                 /\ m < 12 => rest <= DaysBeforeMonth(year, m + 1)
  IN  DT(year, month, rest - DaysBeforeMonth(year, month),
         t.second \div 3600, (t.second % 3600) \div 60, t.second % 60)

=============================================================================
