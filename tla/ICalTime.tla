------------------------------ MODULE ICalTime ------------------------------
(***************************************************************************)
(* The split of an iCalendar date-time into a wall clock and a zone, the   *)
(* way back, and the duration between two of them (ical/convert.go,        *)
(* ical/duration.go, dateTimeProp of ical/to_ical_values.go).  Wall clocks *)
(* and instants are those of WallClock; a time zone id is a sequence,      *)
(* custom when it begins with the slash, <<>> when there is none.          *)
(***************************************************************************)
EXTENDS WallClock, SequencesExt

CONSTANTS
  Day,    \* the time units of a day
  Chars,  \* the characters of an id
  Slash,  \* what a custom id begins with
  EtcUTC, \* the id of UTC
  Absent  \* no property, nil

IsCustom(id) == id # <<>> /\ Head(id) = Slash

ASSUME ICalTimeAssumption ==
  /\ Day \in Nat \ {0}
  /\ Slash \in Chars /\ \A id \in DOMAIN TzDatabase : id \in Seq(Chars) /\ ~IsCustom(id)
  /\ EtcUTC \in DOMAIN TzDatabase /\ TzDatabase[EtcUTC] = UTC
  /\ Floating = <<>>
  /\ Absent \notin Int

CustomTimeZoneID(tzid) == IF IsCustom(tzid) THEN tzid ELSE <<Slash>> \o tzid

BareTZIDWithSlash(id) == id

BareTZID(id) == IF IsCustom(id) THEN Tail(id) ELSE id

LoadsLocation(id) == id \in DOMAIN TzDatabase

-----------------------------------------------------------------------------
(***************************************************************************)
(* A DATE or DATE-TIME property: its wall clock or Malformed, whether it   *)
(* has the form of a DATE, whether it ends in "Z", and its TZID.           *)
(***************************************************************************)
DateProp(wall, date, z, tzid) == [wall |-> wall, date |-> date, z |-> z, tzid |-> tzid]

DateProps ==
  [wall : Int \cup {Malformed}, date : BOOLEAN, z : BOOLEAN, tzid : Seq(Chars)]

Parses(prop) == prop.wall # Malformed

Midnight(wall) == wall - (wall % Day)

(***************************************************************************)
(* splitDateTimeProp.  The instant is a set: empty where utcOK is false.   *)
(***************************************************************************)
Split(prop) ==
  LET split(local, zone, kind, instant) ==
        [local |-> local, zone |-> zone, kind |-> kind, instant |-> instant]
  IN  CASE prop.date -> split(Midnight(prop.wall), Floating, "date", {})
        [] ~prop.date /\ prop.z -> split(prop.wall, EtcUTC, "utc", {prop.wall})
        [] ~prop.date /\ ~prop.z /\ prop.tzid # <<>> ->
             split(prop.wall, prop.tzid, "zoned",
                   IF LoadsLocation(prop.tzid)
                   THEN {Place(TzDatabase[prop.tzid], prop.wall)} ELSE {})
        [] OTHER -> split(prop.wall, Floating, "local", {})

(***************************************************************************)
(* dateTimeProp: only an all-day value without a zone is a DATE.           *)
(***************************************************************************)
DateTimeProp(wall, zone, allDay) ==
  IF allDay /\ zone = Floating
  THEN DateProp(Midnight(wall), TRUE, FALSE, <<>>)
  ELSE DateProp(wall, FALSE, zone = EtcUTC, IF zone = EtcUTC THEN <<>> ELSE BareTZID(zone))

-----------------------------------------------------------------------------
Duration(days, seconds) == [days |-> days, seconds |-> seconds]

IsZero(d) == d.days = 0 /\ d.seconds = 0

Clamped(n) == IF n < 0 THEN 0 ELSE n

(***************************************************************************)
(* deriveDuration: a DURATION that is there wins; days between two dates;  *)
(* time between two instants, and where one is not known between the two   *)
(* wall clocks.                                                            *)
(***************************************************************************)
ElapsedByWallClock(start, end) == end.local - start.local

Elapsed(start, end) ==
  IF start.instant # {} /\ end.instant # {}
  THEN (CHOOSE t \in end.instant : TRUE) - (CHOOSE t \in start.instant : TRUE)
  ELSE end.local - start.local

DeriveDuration(start, end, duration) ==
  CASE duration # Absent -> duration
    [] duration = Absent /\ end = Absent -> Absent
    [] duration = Absent /\ end # Absent ->
         LET to == Split(end)
         IN  IF start.kind = "date" \/ to.kind = "date"
             THEN Duration(Clamped(to.local - start.local) \div Day, 0)
             ELSE Duration(0, Clamped(Elapsed(start, to)))

=============================================================================
