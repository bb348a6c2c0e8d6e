----------------------------- MODULE WallClock -----------------------------
(***************************************************************************)
(* Wall-clock values, instants and the locations that relate them, as      *)
(* recur/recur.go uses them.  A LocalDateTime (the recurrence ids, the     *)
(* start, the override keys) is an integer count of time units on a clock  *)
(* face that never jumps; an instant is a count of the same units on the   *)
(* absolute timeline.  A location is what *time.Location is to this code:  *)
(* the UTC offset in force at each instant, with at most one transition in *)
(* the span a run looks at.                                                *)
(***************************************************************************)
EXTENDS Integers

CONSTANTS
  TzDatabase,  \* the IANA zones time.LoadLocation finds: a function from name to location
  CustomIds,   \* the "/"-prefixed time zone ids
  Floating,    \* the empty time zone id
  Malformed    \* an "offsetTo" that parseUTCOffset rejects

(***************************************************************************)
(* The offset is `before` until the instant `at` and `after` from then on. *)
(***************************************************************************)
Location == [at : Int, before : Int, after : Int]

ASSUME ZoneAssumption ==
  /\ \A name \in DOMAIN TzDatabase : TzDatabase[name] \in Location
  /\ CustomIds \cap DOMAIN TzDatabase = {}
  /\ Floating \notin CustomIds \cup DOMAIN TzDatabase
  /\ Malformed \notin Int

FixedZone(offset) == [at |-> 0, before |-> offset, after |-> offset]
UTC == FixedZone(0)

Offset(loc, t) == IF t < loc.at THEN loc.before ELSE loc.after

(***************************************************************************)
(* time.Date(..., loc): the offset in force at the wall clock read as UTC  *)
(* is tried first; when the instant it gives lies in another period of the *)
(* zone, the offset of that instant is the one subtracted.  In a gap the   *)
(* result carries another wall clock than the one asked for; in a fold it  *)
(* is one of the two candidates.                                           *)
(***************************************************************************)
Place(loc, lt) == lt - Offset(loc, lt - Offset(loc, lt))

(***************************************************************************)
(* timeToLocal: the clock-face fields of an instant.                       *)
(***************************************************************************)
Wall(loc, t) == t + Offset(loc, t)

(***************************************************************************)
(* A wall clock the zone skips: no instant shows it.                       *)
(***************************************************************************)
InGap(loc, lt) == Wall(loc, Place(loc, lt)) # lt

InWindow(t, from, until) == from <= t /\ t < until

-----------------------------------------------------------------------------
(***************************************************************************)
(* resolveLocation and fixedZoneFrom.  An embedded definition is the set   *)
(* of the offsets of its standard and daylight rules; it resolves only     *)
(* when they all parse and agree.                                          *)
(***************************************************************************)
IsFixed(offsets) == \E o \in offsets : o # Malformed /\ offsets = {o}

Resolvable(id, timeZones) ==
  \/ id = Floating
  \/ id \in DOMAIN TzDatabase
  \/ /\ id \in CustomIds
     /\ id \in DOMAIN timeZones
     /\ IsFixed(timeZones[id])

Resolve(id, timeZones) ==
  IF id = Floating THEN UTC
  ELSE IF id \in DOMAIN TzDatabase THEN TzDatabase[id]
  ELSE FixedZone(CHOOSE o \in timeZones[id] : TRUE)

=============================================================================
