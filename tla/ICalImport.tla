----------------------------- MODULE ICalImport -----------------------------
(***************************************************************************)
(* One iCalendar component as a JSCalendar object (ical/from_ical.go,      *)
(* ical/common.go, ical/alarm.go, ical/timezone.go).  A component is a     *)
(* record with a field for each property, Absent when it is not there and  *)
(* Malformed when its text does not parse; the empty texts, the nil        *)
(* pointers and the empty maps of an object are Absent, 0 and Empty.  The  *)
(* properties that are carried over as text are represented by SUMMARY.    *)
(***************************************************************************)
EXTENDS ICalTime, RecurrenceText

CONSTANTS
  Ordinals  \* strconv.Itoa: the ids the import generates, in the order of their numbers

Empty == <<>>
Entry(key, value) == [k \in {key} |-> value]
Over(new, old) == [k \in DOMAIN new \cup DOMAIN old |-> IF k \in DOMAIN new THEN new[k] ELSE old[k]]

IsMailto(address) == Head(address) = "mailto"
Mailto(email) == <<"mailto", email>>

-----------------------------------------------------------------------------
(***************************************************************************)
(* commonProps and its helpers.                                            *)
(***************************************************************************)
PrivacyFromClassSwapped(class) ==
  CASE Upper[class] = "PRIVATE" -> "secret"
    [] Upper[class] = "CONFIDENTIAL" -> "private"
    [] OTHER -> Lower[class]

PrivacyFromClass(class) ==
  CASE Upper[class] = "PUBLIC" -> "public"
    [] Upper[class] = "PRIVATE" -> "private"
    [] Upper[class] = "CONFIDENTIAL" -> "secret"
    [] OTHER -> Lower[class]

Updated(comp) == IF comp.modified # Absent THEN comp.modified ELSE comp.stamp

Single(value) == IF value = Absent THEN Empty ELSE Entry(Ordinals[1], value)

ParticipantFrom(prop, role) ==
  [imip  |-> prop.address,
   email |-> IF prop.address # Absent /\ IsMailto(prop.address) THEN prop.address[2] ELSE Absent,
   name  |-> prop.name,
   roles |-> {role}]

(***************************************************************************)
(* The organizer is "1", the attendees are "2" and up.                     *)
(***************************************************************************)
ParticipantsFrom(comp) ==
  LET organizer == IF comp.organizer = Absent THEN Empty
                   ELSE Entry(Ordinals[1], ParticipantFrom(comp.organizer, "owner"))
      ids == {Ordinals[i + 1] : i \in DOMAIN comp.attendees}
      at(id) == CHOOSE i \in DOMAIN comp.attendees : Ordinals[i + 1] = id
  IN  Over(organizer, [id \in ids |-> ParticipantFrom(comp.attendees[at(id)], "attendee")])

(***************************************************************************)
(* triggerFromProp: a DATE-TIME is taken as the UTC instant.               *)
(***************************************************************************)
TriggerParses(prop) == prop = Absent \/ prop.value # Malformed

TriggerFrom(prop) ==
  IF prop = Absent \/ prop.absolute THEN prop
  ELSE [prop EXCEPT !.related = IF prop.related = "END" THEN "end" ELSE Absent]

AlertFrom(alarm) ==
  [action  |-> IF alarm.action = Absent THEN Absent ELSE Lower[alarm.action],
   trigger |-> TriggerFrom(alarm.trigger)]

AlertsFrom(comp) ==
  LET n == Len(comp.alarms)
  IN  [id \in {Ordinals[i] : i \in 1..n} |->
         AlertFrom(comp.alarms[CHOOSE i \in 1..n : Ordinals[i] = id])]

CommonProps(comp) ==
  [uid          |-> comp.uid,
   title        |-> comp.title,
   sequence     |-> IF comp.sequence = Absent THEN 0 ELSE comp.sequence,
   created      |-> comp.created,
   updated      |-> Updated(comp),
   privacy      |-> IF comp.class = Absent THEN Absent ELSE PrivacyFromClass(comp.class),
   keywords     |-> [k \in comp.categories |-> TRUE],
   locations    |-> Single(comp.location),
   participants |-> ParticipantsFrom(comp),
   links        |-> Single(comp.url),
   alerts       |-> AlertsFrom(comp)]

-----------------------------------------------------------------------------
(***************************************************************************)
(* timeZoneFromVTimezone.  Every sub-component is read, also one that is   *)
(* neither STANDARD nor DAYLIGHT; of its RRULEs only the first.            *)
(***************************************************************************)
OffsetValue(offset) ==
  IF offset # Absent /\ offset.form = "basic" THEN [offset EXCEPT !.form = "extended"] ELSE offset

ZoneRuleParses(sub) ==
  /\ sub.start # Malformed
  /\ sub.rrules # <<>> => RuleParses(Head(sub.rrules))

ZoneRuleFrom(sub) ==
  [start  |-> sub.start,
   offset |-> OffsetValue(sub.offset),
   rules  |-> IF sub.rrules = <<>> THEN <<>> ELSE <<RuleFrom(Head(sub.rrules))>>]

ZoneParses(comp) == \A i \in DOMAIN comp.subs : ZoneRuleParses(comp.subs[i])

ZoneFrom(comp) ==
  LET rules(name) == LET subs == Subsequence(comp.subs, {i \in DOMAIN comp.subs : comp.subs[i].name = name})
                     IN  [i \in DOMAIN subs |-> ZoneRuleFrom(subs[i])]
  IN  [tzId |-> comp.tzid, standard |-> rules("STANDARD"), daylight |-> rules("DAYLIGHT")]

(***************************************************************************)
(* attachTimeZones: the zone of the object and the definitions it embeds.  *)
(***************************************************************************)
AttachedZoneAlways(zone, available) ==
  IF zone # Floating /\ CustomTimeZoneID(zone) \in DOMAIN available
  THEN CustomTimeZoneID(zone) ELSE zone

AttachedZone(zone, available) ==
  IF /\ zone # Floating /\ ~IsCustom(zone)
     /\ CustomTimeZoneID(zone) \in DOMAIN available
     /\ ~LoadsLocation(zone)
  THEN CustomTimeZoneID(zone) ELSE zone

Attached(zone, available) ==
  IF IsCustom(zone) /\ zone \in DOMAIN available THEN Entry(zone, available[zone]) ELSE Empty

ZoneProps(zone, available) ==
  LET attached == AttachedZone(zone, available)
  IN  [timeZone |-> attached, timeZones |-> Attached(attached, available)]

RecurrenceProps(comp) ==
  [rules    |-> [i \in DOMAIN comp.rrules |-> RuleFrom(comp.rrules[i])],
   excluded |-> [i \in DOMAIN comp.exrules |-> RuleFrom(comp.exrules[i])]]

-----------------------------------------------------------------------------
(***************************************************************************)
(* applyZone: the zone a split gives, and whether it makes the object one  *)
(* without time.                                                           *)
(***************************************************************************)
NoSplit == [local |-> Absent, zone |-> Floating, kind |-> "none", instant |-> {}]

SplitOf(prop) == IF prop = Absent THEN NoSplit ELSE Split(prop)

PropParses(prop) == prop = Absent \/ Parses(prop)

(***************************************************************************)
(* A task has one zone: that of its start, else that of its due.           *)
(***************************************************************************)
ZoneOfDue(start, due) == IF due.zone # Floating THEN due.zone ELSE start.zone

ZoneOf(start, due) == IF start.zone # Floating THEN start.zone ELSE due.zone

AllDay(start, due) ==
  start.kind = "date" \/ (start.zone = Floating /\ due.kind = "date")

(***************************************************************************)
(* eventFromVEvent and taskFromVTodo: when they fail, and what they        *)
(* return.  DTEND and DURATION are not looked at in a VEVENT without       *)
(* DTSTART; a VTODO has no DTEND and a VEVENT no DUE and no                *)
(* PERCENT-COMPLETE.                                                       *)
(***************************************************************************)
Imports(comp) ==
  /\ Malformed \notin {comp.sequence, comp.created, Updated(comp)}
  /\ \A i \in DOMAIN comp.alarms : TriggerParses(comp.alarms[i].trigger)
  /\ PropParses(comp.start)
  /\ \A i \in DOMAIN comp.rrules : RuleParses(comp.rrules[i])
  /\ \A i \in DOMAIN comp.exrules : RuleParses(comp.exrules[i])
  /\ IF comp.name = "VTODO"
     THEN PropParses(comp.due) /\ comp.duration # Malformed /\ comp.percent # Malformed
     ELSE comp.start # Absent => PropParses(comp.end) /\ comp.duration # Malformed

EventDuration(comp) ==
  IF comp.start = Absent THEN Absent
  ELSE DeriveDuration(Split(comp.start), comp.end, comp.duration)

Status(comp) == IF comp.status = Absent THEN Absent ELSE Lower[comp.status]

EventFromVEvent(comp, available) ==
  LET start == SplitOf(comp.start)
  IN  Over(CommonProps(comp), Over(RecurrenceProps(comp), Over(ZoneProps(start.zone, available),
        [kind |-> "Event", start |-> start.local, due |-> Absent, allDay |-> start.kind = "date",
         duration |-> EventDuration(comp), percent |-> Absent, status |-> Status(comp)])))

TaskFromVTodo(comp, available) ==
  LET start == SplitOf(comp.start)
      due   == SplitOf(comp.due)
  IN  Over(CommonProps(comp), Over(RecurrenceProps(comp), Over(ZoneProps(ZoneOf(start, due), available),
        [kind |-> "Task", start |-> start.local, due |-> due.local, allDay |-> AllDay(start, due),
         duration |-> comp.duration, percent |-> comp.percent, status |-> Status(comp)])))

Imported(comp, available) ==
  IF comp.name = "VTODO" THEN TaskFromVTodo(comp, available) ELSE EventFromVEvent(comp, available)

=============================================================================
