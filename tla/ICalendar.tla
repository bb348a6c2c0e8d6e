----------------------------- MODULE ICalendar -----------------------------
(***************************************************************************)
(* The iCalendar bridge as a program uses it: ToICal builds a calendar     *)
(* from objects (ical/to_ical.go), FromICal builds objects from a calendar *)
(* (ical/from_ical.go), a peer's or one that ToICal returned, and so back  *)
(* and forth.  A call works through the list it was given: the arguments,  *)
(* with the entries of a group in its place; the sorted zones; the         *)
(* children of the calendar, once for the zones and once for the objects.  *)
(* The first failure ends a call without a result.                         *)
(***************************************************************************)
EXTENDS ICalTypes

CONSTANTS
  Items,        \* the values a list passed to ToICal, or a group, may hold
  Arguments,    \* the lists of objects a program passes to ToICal
  Calendars,    \* the calendars a peer sends
  ControlTexts, \* the texts that hold a control character
  Control,      \* a control character of an id
  MaxRounds     \* bound: the calls of ToICal

IsObject(v) == v.kind \in {"Event", "Task"}
IsConverted(comp) == comp.name \in {"VEVENT", "VTODO"}
IsZone(comp) == comp.name = "VTIMEZONE"

ASSUME ICalendarAssumption ==
  /\ \A v \in Items :
       /\ IsObject(v) => IsCalendarObject(v)
       /\ v.kind = "Group" => v.entries \in Seq(Items)
  /\ \A objs \in Arguments : objs \in Seq(Items)
  /\ \A cal \in Calendars :
       /\ IsList(cal)
       /\ \A i \in DOMAIN cal :
            /\ IsConverted(cal[i]) => IsComponent(cal[i])
            /\ IsZone(cal[i]) => IsZoneComponent(cal[i])

VARIABLES
  phase,    \* what is under way, or what the last call returned
  pending,  \* what the call has still to work through
  zones,    \* the map of zone definitions of the call
  calendar, \* cal.Children
  objects,  \* objs, the result of FromICal
  given,    \* the events and tasks `calendar` was built from, Absent if a peer's
  round     \* the calls of ToICal so far

vars == <<phase, pending, zones, calendar, objects, given, round>>

Init ==
  /\ phase = "none" /\ pending = <<>> /\ zones = Empty
  /\ calendar = <<>> /\ objects = <<>> /\ given = Absent /\ round = 0

Fail ==
  /\ phase' = "error" /\ pending' = <<>> /\ calendar' = <<>> /\ objects' = <<>>
  /\ UNCHANGED <<zones, given, round>>

-----------------------------------------------------------------------------
(***************************************************************************)
(* ToICal.                                                                 *)
(***************************************************************************)
ToICal(objs) ==
  /\ phase \in {"none", "objects"} /\ round < MaxRounds
  /\ phase' = "exporting" /\ pending' = objs /\ zones' = Empty
  /\ calendar' = <<>> /\ objects' = <<>> /\ given' = <<>> /\ round' = round + 1

(***************************************************************************)
(* appendObject: the component, then the zones of the object over those    *)
(* collected before it.                                                    *)
(***************************************************************************)
AppendObject ==
  /\ phase = "exporting" /\ pending # <<>>
  /\ LET object == Head(pending)
     IN  /\ IsObject(object) /\ Exports(object)
         /\ calendar' = Append(calendar, Exported(object))
         /\ zones' = Over(object.timeZones, zones)
         /\ given' = Append(given, object)
  /\ pending' = Tail(pending)
  /\ UNCHANGED <<phase, objects, round>>

AppendGroup ==
  /\ phase = "exporting" /\ pending # <<>>
  /\ Head(pending).kind = "Group"
  /\ pending' = Head(pending).entries \o Tail(pending)
  /\ UNCHANGED <<phase, zones, calendar, objects, given, round>>

(***************************************************************************)
(* A nil pointer, another type, an entry Parse rejects, or a rule without  *)
(* a frequency.                                                            *)
(***************************************************************************)
RejectObject ==
  /\ phase = "exporting" /\ pending # <<>>
  /\ Head(pending).kind # "Group"
  /\ ~(IsObject(Head(pending)) /\ Exports(Head(pending)))
  /\ Fail

(***************************************************************************)
(* The zones in the order of their ids, each put before all the rest.      *)
(***************************************************************************)
EmitZone ==
  /\ phase = "exporting" /\ pending = <<>>
  /\ \E id \in DOMAIN zones :
       /\ \A other \in DOMAIN zones : ~Precedes(other, id)
       /\ IF ZoneExports(zones[id])
          THEN /\ calendar' = <<ZoneComponent(zones[id])>> \o calendar
               /\ zones' = [other \in DOMAIN zones \ {id} |-> zones[other]]
               /\ UNCHANGED <<phase, pending, objects, given, round>>
          ELSE Fail

(***************************************************************************)
(* checkNoControlChars, over the values and the parameters.                *)
(***************************************************************************)
HasControlChar(comp) ==
  IF IsZone(comp) THEN Control \in ToSet(comp.tzid)
  ELSE LET people == ToSet(comp.attendees) \cup ({comp.organizer} \ {Absent})
           texts  == {comp.uid, comp.title, comp.location, comp.url, comp.status, comp.class}
                       \cup {alarm.action : alarm \in ToSet(comp.alarms)}
                       \cup comp.categories \cup {p.name : p \in people}
                       \cup UNION {ToSet(p.address) : p \in people}
       IN  \/ texts \cap ControlTexts # {}
           \/ \E prop \in {comp.start, comp.due} \ {Absent} : Control \in ToSet(prop.tzid)

Finish ==
  /\ phase = "exporting" /\ pending = <<>> /\ zones = Empty
  /\ IF \E i \in DOMAIN calendar : HasControlChar(calendar[i])
     THEN Fail
     ELSE phase' = "calendar" /\ UNCHANGED <<pending, zones, calendar, objects, given, round>>

-----------------------------------------------------------------------------
(***************************************************************************)
(* FromICal.                                                               *)
(***************************************************************************)
Receive(cal) ==
  /\ phase = "none"
  /\ phase' = "calendar" /\ calendar' = cal
  /\ UNCHANGED <<pending, zones, objects, given, round>>

FromICal ==
  /\ phase = "calendar"
  /\ phase' = "collecting" /\ pending' = calendar /\ zones' = Empty
  /\ UNCHANGED <<calendar, objects, given, round>>

(***************************************************************************)
(* collectTimeZones, the last definition of an id over the ones before it. *)
(***************************************************************************)
CollectZone ==
  /\ phase = "collecting" /\ pending # <<>>
  /\ LET comp == Head(pending)
     IN  IF IsZone(comp) /\ ~ZoneParses(comp) THEN Fail
         ELSE /\ zones' = IF IsZone(comp)
                          THEN Over(Entry(CustomTimeZoneID(comp.tzid), ZoneFrom(comp)), zones)
                          ELSE zones
              /\ pending' = Tail(pending)
              /\ UNCHANGED <<phase, calendar, objects, given, round>>

Collected ==
  /\ phase = "collecting" /\ pending = <<>>
  /\ phase' = "importing" /\ pending' = calendar
  /\ UNCHANGED <<zones, calendar, objects, given, round>>

ImportChild ==
  /\ phase = "importing" /\ pending # <<>>
  /\ LET comp == Head(pending)
     IN  IF IsConverted(comp) /\ ~Imports(comp) THEN Fail
         ELSE /\ objects' = IF IsConverted(comp)
                            THEN Append(objects, Imported(comp, zones)) ELSE objects
              /\ pending' = Tail(pending)
              /\ UNCHANGED <<phase, zones, calendar, given, round>>

Return ==
  /\ phase = "importing" /\ pending = <<>>
  /\ phase' = "objects"
  /\ UNCHANGED <<pending, zones, calendar, objects, given, round>>

-----------------------------------------------------------------------------
Next ==
  \/ phase = "none" /\ \E objs \in Arguments : ToICal(objs)
  \/ phase = "objects" /\ ToICal(objects)
  \/ \E cal \in Calendars : Receive(cal)
  \/ AppendObject \/ AppendGroup \/ RejectObject \/ EmitZone \/ Finish
  \/ FromICal \/ CollectZone \/ Collected \/ ImportChild \/ Return

Spec == Init /\ [][Next]_vars

=============================================================================
