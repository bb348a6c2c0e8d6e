----------------------------- MODULE ICalExport -----------------------------
(***************************************************************************)
(* One JSCalendar object as an iCalendar component (ical/to_ical.go,       *)
(* ical/to_ical_components.go, ical/to_ical_values.go), in the records of  *)
(* ICalImport.  What the package documents as lost (other roles, raw       *)
(* triggers' members, properties without a counterpart) is no field.       *)
(***************************************************************************)
EXTENDS ICalImport

CONSTANTS
  IdOrder,   \* slices.Sort: every id, in the order of its bytes
  ZoneOrder, \* the same for the ids of zones: those outside it come in any order
  Special,   \* the characters SetText escapes in an id
  Escape,    \* the character it escapes them with
  Quoted,    \* what SetText writes of a token: a function
  EpochTime, \* 1970-01-01T00:00:00Z
  Raw        \* the trigger of a kind the library does not know

ASSUME ICalExportAssumption ==
  /\ IdOrder \in Seq(ToSet(IdOrder)) /\ IsInjective(IdOrder)
  /\ Ordinals \in Seq(ToSet(IdOrder)) \ {<<>>} /\ IsInjective(Ordinals)
  /\ Escape \in Special \cap Chars /\ Slash \notin Special
  /\ EpochTime # Absent

(***************************************************************************)
(* go-ical's escaping of a TEXT value: what stays of the text with Escape  *)
(* before every character when it is kept only where one needs it.         *)
(***************************************************************************)
Escaped(text) ==
  LET n      == Len(text)
      all    == [k \in 1 .. 2 * n |-> IF k % 2 = 1 THEN Escape ELSE text[k \div 2]]
      needed == {2 * i - 1 : i \in {i \in 1 .. n : text[i] \in Special}}
  IN  Subsequence(all, needed \cup {2 * i : i \in 1 .. n})

SortedIDs(ids) == Subsequence(IdOrder, {i \in DOMAIN IdOrder : IdOrder[i] \in ids})

Precedes(id, other) ==
  \E i, j \in DOMAIN ZoneOrder : i < j /\ ZoneOrder[i] = id /\ ZoneOrder[j] = other

(***************************************************************************)
(* writeLocation and writeURL: the first one in id order that has a value. *)
(***************************************************************************)
FirstValue(map) ==
  LET ids == SortedIDs({id \in DOMAIN map : map[id] # Absent})
  IN  IF ids = <<>> THEN Absent ELSE map[Head(ids)]

ClassFromPrivacy(privacy) ==
  CASE Lower[privacy] = "public" -> "PUBLIC"
    [] Lower[privacy] = "private" -> "PRIVATE"
    [] Lower[privacy] = "secret" -> "CONFIDENTIAL"
    [] OTHER -> Upper[privacy]

(***************************************************************************)
(* writeParticipants: who has an address, in id order; the first owner is  *)
(* the ORGANIZER and everyone else an ATTENDEE.                            *)
(***************************************************************************)
Address(p) ==
  IF p.imip # Absent THEN p.imip
  ELSE IF p.email # Absent THEN Mailto(p.email) ELSE Absent

CalAddress(p) == [address |-> Address(p), name |-> p.name]

Addressed(participants) == {id \in DOMAIN participants : Address(participants[id]) # Absent}

Owners(participants) ==
  SortedIDs({id \in Addressed(participants) : "owner" \in participants[id].roles})

Organizer(participants) ==
  LET owners == Owners(participants)
  IN  IF owners = <<>> THEN Absent ELSE CalAddress(participants[Head(owners)])

Attendees(participants) ==
  LET owners == Owners(participants)
      ids    == SortedIDs({id \in Addressed(participants) : owners = <<>> \/ id # Head(owners)})
  IN  [i \in DOMAIN ids |-> CalAddress(participants[ids[i]])]

(***************************************************************************)
(* valarmFromAlert and triggerProp: the ACTION is a TEXT value, as CLASS   *)
(* and STATUS are.                                                         *)
(***************************************************************************)
TriggerProp(trigger) ==
  IF trigger \in {Absent, Raw} THEN Absent
  ELSE IF trigger.absolute THEN trigger
  ELSE [trigger EXCEPT !.related = IF trigger.related = "end" THEN "END" ELSE Absent]

AlarmFrom(alert) ==
  [action  |-> IF alert.action = Absent THEN "DISPLAY" ELSE Quoted[Upper[alert.action]],
   trigger |-> TriggerProp(alert.trigger)]

Alarms(alerts) ==
  LET ids == SortedIDs(DOMAIN alerts) IN [i \in DOMAIN ids |-> AlarmFrom(alerts[ids[i]])]

-----------------------------------------------------------------------------
(***************************************************************************)
(* vtimezoneFromTimeZone: the TZID is a TEXT value, and the zone's own     *)
(* tzId.                                                                   *)
(***************************************************************************)
ICalOffset(offset) == IF offset = Absent THEN Absent ELSE [offset EXCEPT !.form = "basic"]

Strings(rules) == [i \in DOMAIN rules |-> RuleString(rules[i])]

AllFormat(rules) == \A i \in DOMAIN rules : RuleFormats(rules[i])

ZoneRuleComponent(name, rule) ==
  [name |-> name, start |-> rule.start, offset |-> ICalOffset(rule.offset),
   rrules |-> Strings(rule.rules)]

ZoneExports(tz) ==
  /\ \A i \in DOMAIN tz.standard : AllFormat(tz.standard[i].rules)
  /\ \A i \in DOMAIN tz.daylight : AllFormat(tz.daylight[i].rules)

ZoneComponent(tz) ==
  [name |-> "VTIMEZONE",
   tzid |-> Escaped(tz.tzId),
   subs |-> [i \in DOMAIN tz.standard |-> ZoneRuleComponent("STANDARD", tz.standard[i])]
              \o [i \in DOMAIN tz.daylight |-> ZoneRuleComponent("DAYLIGHT", tz.daylight[i])]]

(***************************************************************************)
(* veventFromEvent and vtodoFromTask.  DTSTAMP is always written, and      *)
(* LAST-MODIFIED when the object says when it was updated.                 *)
(***************************************************************************)
Exports(object) == AllFormat(object.rules) /\ AllFormat(object.excluded)

Stamp(object) == IF object.updated = Absent THEN EpochTime ELSE object.updated

Class(object) ==
  IF object.privacy = Absent THEN Absent ELSE Quoted[ClassFromPrivacy(object.privacy)]

DateTimeOf(object, local) ==
  IF local = Absent THEN Absent ELSE DateTimeProp(local, object.timeZone, object.allDay)

CommonPropsToComp(object) ==
  [uid        |-> object.uid,
   title      |-> object.title,
   sequence   |-> IF object.sequence = 0 THEN Absent ELSE object.sequence,
   created    |-> object.created,
   modified   |-> object.updated,
   stamp      |-> Stamp(object),
   class      |-> Class(object),
   categories |-> {k \in DOMAIN object.keywords : object.keywords[k]},
   location   |-> FirstValue(object.locations),
   url        |-> FirstValue(object.links),
   organizer  |-> Organizer(object.participants),
   attendees  |-> Attendees(object.participants),
   alarms     |-> Alarms(object.alerts)]

RecurrenceToProps(object) ==
  [rrules |-> Strings(object.rules), exrules |-> Strings(object.excluded)]

DurationOf(object) ==
  IF object.duration = Absent \/ IsZero(object.duration) THEN Absent ELSE object.duration

StatusOf(object) == IF object.status = Absent THEN Absent ELSE Quoted[Upper[object.status]]

VEventFromEvent(object) ==
  Over(CommonPropsToComp(object), Over(RecurrenceToProps(object),
    [name |-> "VEVENT", start |-> DateTimeOf(object, object.start), end |-> Absent, due |-> Absent,
     duration |-> DurationOf(object), percent |-> Absent, status |-> StatusOf(object)]))

VTodoFromTask(object) ==
  Over(CommonPropsToComp(object), Over(RecurrenceToProps(object),
    [name |-> "VTODO", start |-> DateTimeOf(object, object.start), end |-> Absent,
     due |-> DateTimeOf(object, object.due),
     duration |-> DurationOf(object), percent |-> object.percent, status |-> StatusOf(object)]))

Exported(object) ==
  IF object.kind = "Task" THEN VTodoFromTask(object) ELSE VEventFromEvent(object)

=============================================================================
