------------------------ MODULE ICalendarProperties ------------------------
(***************************************************************************)
(* What the iCalendar bridge owes its callers, over ICalendar.             *)
(***************************************************************************)
EXTENDS ICalendar

Converted == Subsequence(calendar, {i \in DOMAIN calendar : IsConverted(calendar[i])})

ZoneComponents == {comp \in ToSet(calendar) : IsZone(comp)}

InstantOf(zone, local) == IF LoadsLocation(zone) THEN {Place(TzDatabase[zone], local)} ELSE {}

Latest(s, t) == IF s < t THEN t ELSE s

(***************************************************************************)
(* A wall clock and its zone stand for the instant the property did: the   *)
(* start always, the due of a task that has no start or a start in the     *)
(* same zone (taskFromVTodo gives a task one zone).                        *)
(***************************************************************************)
SameInstants ==
  phase = "objects" =>
    \A i \in DOMAIN Converted :
      LET object == objects[i]
          start  == SplitOf(Converted[i].start)
          due    == IF Converted[i].name = "VTODO" THEN SplitOf(Converted[i].due) ELSE NoSplit
      IN  /\ start.instant # {} => InstantOf(object.timeZone, object.start) = start.instant
          /\ due.instant # {} /\ start.zone \in {due.zone} \cup (IF start = NoSplit THEN {Floating} ELSE {})
               => InstantOf(object.timeZone, object.due) = due.instant

(***************************************************************************)
(* An event that is given by its start and its end ends there: its start   *)
(* and its duration give the end, also when a transition of the zone lies  *)
(* between them, or when the two are in different zones; an end before the *)
(* start gives no duration (deriveDuration).                               *)
(***************************************************************************)
EndsAtEnd ==
  phase = "objects" =>
    \A i \in DOMAIN Converted :
      LET object == objects[i]
          start  == SplitOf(Converted[i].start)
          end    == SplitOf(Converted[i].end)
      IN  /\ Converted[i].name = "VEVENT" /\ Converted[i].duration = Absent
          /\ start # NoSplit /\ end # NoSplit
          => /\ start.kind = "date" /\ end.kind = "date" =>
                  object.start + object.duration.days * Day = Latest(start.local, end.local)
             /\ \A s \in start.instant, t \in end.instant :
                  s + object.duration.seconds = Latest(s, t)

Unescaped(id) == ToSet(id) \cap Special = {}

(***************************************************************************)
(* The zone of an imported object is the one that its TZID named, that of  *)
(* its start or of the due of a task whose start has none: an IANA zone    *)
(* stays what it is even if the calendar defines that name, a defined one  *)
(* becomes a custom id with the definition of that TZID embedded, and any  *)
(* other name is kept (attachTimeZones).  Nothing is asked of a name with  *)
(* a character that a TEXT value escapes: see EscapedTextReturns.          *)
(***************************************************************************)
ZoneResolved ==
  phase = "objects" =>
    \A i \in DOMAIN Converted :
      LET object      == objects[i]
          start       == SplitOf(Converted[i].start)
          onlyDue     == Converted[i].name = "VTODO" /\ start.zone = Floating
          named       == IF onlyDue THEN SplitOf(Converted[i].due) ELSE start
          tzid        == named.zone
          definitions == {z \in ZoneComponents : z.tzid = tzid}
          alike       == {z \in ZoneComponents : CustomTimeZoneID(z.tzid) = CustomTimeZoneID(tzid)}
      IN  named.kind = "zoned" /\ Unescaped(tzid) =>
            /\ LoadsLocation(tzid) => object.timeZone = tzid /\ object.timeZones = Empty
            /\ definitions # {} /\ ~LoadsLocation(tzid) =>
                 /\ object.timeZone = CustomTimeZoneID(tzid)
                 /\ object.timeZone \in DOMAIN object.timeZones
                 /\ object.timeZones[object.timeZone] \in {ZoneFrom(z) : z \in alike}
            /\ alike = {} => object.timeZone = tzid /\ object.timeZones = Empty

-----------------------------------------------------------------------------
(***************************************************************************)
(* What a round trip leaves alone.  Tokens are in lower case, without a    *)
(* character that a TEXT value escapes where one writes them, and a rule   *)
(* has no zero interval; a zone is an IANA one or a custom one, defined    *)
(* under its own tzId by rules of at most one recurrence; participants and *)
(* alerts have the ids the import would generate, whose order by bytes is  *)
(* that of their numbers; and what iCalendar has no place for is absent.   *)
(***************************************************************************)
Lowered(token) == token = Absent \/ Lower[token] = token

Verbatim(token) == token = Absent \/ Quoted[Upper[token]] = Upper[token]

VerbatimTokens(object) ==
  /\ Verbatim(object.privacy) /\ Verbatim(object.status)
  /\ \A id \in DOMAIN object.alerts : Verbatim(object.alerts[id].action)

PlainRule(rule) ==
  /\ rule["INTERVAL"] # "0"
  /\ \A key \in TokenKeys : rule[key] # Unset => Lower[rule[key]] = rule[key]

PlainRules(rules) == \A i \in DOMAIN rules : PlainRule(rules[i])

PlainName(tzid) == tzid # <<>> /\ ~IsCustom(tzid) /\ ~LoadsLocation(tzid)

PlainId(id) ==
  /\ Unescaped(id) /\ PlainName(Tail(id))

PlainZone(id, tz) ==
  /\ PlainId(id) /\ tz.tzId = Tail(id)
  /\ \A rule \in ToSet(tz.standard) \cup ToSet(tz.daylight) :
       /\ Len(rule.rules) <= 1 /\ PlainRules(rule.rules)
       /\ rule.offset # Absent => rule.offset.form = "extended"

ZonePlain(object) ==
  IF IsCustom(object.timeZone)
  THEN DOMAIN object.timeZones = {object.timeZone}
       /\ PlainZone(object.timeZone, object.timeZones[object.timeZone])
  ELSE object.timeZones = Empty /\ (object.timeZone = Floating \/ LoadsLocation(object.timeZone))

TimesPlain(object) ==
  /\ object.timeZone # Floating \/ object.allDay => {object.start, object.due} # {Absent}
  /\ object.allDay => object.timeZone = Floating
       /\ \A t \in {object.start, object.due} \ {Absent} : t = Midnight(t)
  /\ object.duration # Absent => ~IsZero(object.duration)
  /\ object.kind = "Event" /\ object.duration # Absent => object.start # Absent

HasIds(map, first) ==
  \E last \in first - 1 .. Len(Ordinals) :
    /\ DOMAIN map = {Ordinals[i] : i \in first .. last}
    /\ SortedIDs(DOMAIN map) = SubSeq(Ordinals, first, last)

ParticipantPlain(p, role) ==
  /\ p.roles = {role} /\ p.imip # Absent
  /\ p.email = IF IsMailto(p.imip) THEN p.imip[2] ELSE Absent

ParticipantsPlain(people) ==
  /\ HasIds(people, IF Ordinals[1] \in DOMAIN people THEN 1 ELSE 2)
  /\ \A id \in DOMAIN people :
       ParticipantPlain(people[id], IF id = Ordinals[1] THEN "owner" ELSE "attendee")

AlertPlain(alert) ==
  /\ alert.action # Absent /\ Lowered(alert.action)
  /\ alert.trigger # Raw
  /\ alert.trigger # Absent /\ ~alert.trigger.absolute => alert.trigger.related \in {Absent, "end"}

SinglePlain(map) == map = Empty \/ (DOMAIN map = {Ordinals[1]} /\ map[Ordinals[1]] # Absent)

FieldsPlain(object) ==
  /\ object.updated # Absent
  /\ \A k \in DOMAIN object.keywords : object.keywords[k]
  /\ Lowered(object.privacy) /\ object.privacy # "confidential" /\ Lowered(object.status)
  /\ VerbatimTokens(object)
  /\ PlainRules(object.rules) /\ PlainRules(object.excluded)
  /\ TimesPlain(object)
  /\ ParticipantsPlain(object.participants)
  /\ HasIds(object.alerts, 1) /\ \A id \in DOMAIN object.alerts : AlertPlain(object.alerts[id])
  /\ SinglePlain(object.locations) /\ SinglePlain(object.links)

Portable(object) == FieldsPlain(object) /\ ZonePlain(object)

AgreeOnZones(objs) ==
  \A i, j \in DOMAIN objs : \A id \in DOMAIN objs[i].timeZones \cap DOMAIN objs[j].timeZones :
    objs[i].timeZones[id] = objs[j].timeZones[id]

(***************************************************************************)
(* Objects without any of the lossy constructs come back from iCalendar as *)
(* they were, in their order: no field of theirs is left out, or written   *)
(* in a form the import reads as something else.                           *)
(***************************************************************************)
Lossless ==
  phase = "objects" /\ given # Absent /\ AgreeOnZones(given)
    /\ (\A i \in DOMAIN given : Portable(given[i]))
  => objects = given

(***************************************************************************)
(* Whatever is lost is lost at once: what came back from iCalendar does    *)
(* not change in any later round trip.  Left out are ten ordinal ids,      *)
(* whose order by bytes is not that of their numbers, and a custom zone    *)
(* that lost its definition, has characters a TEXT value escapes, or would *)
(* lose another slash or become an IANA zone (bareTZID), and a privacy,    *)
(* status or action with such characters: see EscapedTextReturns.          *)
(***************************************************************************)
FewOrdinals(object) ==
  \E n \in 0 .. Len(Ordinals) - 1 :
    /\ SortedIDs({Ordinals[i] : i \in 1 .. n}) = SubSeq(Ordinals, 1, n)
    /\ DOMAIN object.alerts \cup DOMAIN object.participants \subseteq {Ordinals[i] : i \in 1 .. n}

ZoneSettled(object) ==
  IsCustom(object.timeZone) =>
    object.timeZone \in DOMAIN object.timeZones /\ PlainId(object.timeZone)

Settles ==
  phase = "objects" /\ round >= 2
    /\ (\A i \in DOMAIN given : FewOrdinals(given[i]) /\ ZoneSettled(given[i]) /\ VerbatimTokens(given[i]))
  => objects = given

(***************************************************************************)
(* A calendar that ToICal returns defines the zone that the start or the   *)
(* due of a component refers to, if the object embedded it under its own   *)
(* tzId: "the VTIMEZONE it resolves to is keyed by the bare TZID"          *)
(* (bareTZID), though the one is a parameter made from the id and the      *)
(* other a TEXT made from the tzId, of any object that embeds the zone.    *)
(***************************************************************************)
ReferencesDefined ==
  phase = "calendar" /\ given # Absent /\ AgreeOnZones(given) =>
    \A i \in DOMAIN Converted :
      LET zone == given[i].timeZone
      IN  /\ zone \in DOMAIN given[i].timeZones /\ zone = <<Slash>> \o given[i].timeZones[zone].tzId
          => \A prop \in {Converted[i].start, Converted[i].due} \ {Absent} :
               \E j \in DOMAIN calendar :
                 IsZone(calendar[j]) /\ calendar[j].tzid = Escaped(prop.tzid)

(***************************************************************************)
(* What ToICal writes as a TEXT comes back without the escapes: a custom   *)
(* zone embedded under its own tzId is found again, and a privacy, a       *)
(* status and the action of an alert in lower case are what they were.     *)
(* FromICal and ToICal "are inverses over the property correspondence"     *)
(* (ical/doc.go) and "an unrecognized action round-trips as-is, since the  *)
(* action member is open" (ical/alarm.go), but the four are read with      *)
(* rawValue, "for values that are not RFC 5545 TEXT" (ical/convert.go).    *)
(***************************************************************************)
ZoneComesBack(sent, back) ==
  LET zone == sent.timeZone
  IN  /\ zone \in DOMAIN sent.timeZones /\ sent.start # Absent
      /\ zone = <<Slash>> \o sent.timeZones[zone].tzId /\ PlainName(Tail(zone))
      => back.timeZone = zone /\ zone \in DOMAIN back.timeZones

TokensComeBack(sent, back) ==
  /\ Lowered(sent.privacy) /\ sent.privacy # "confidential" => back.privacy = sent.privacy
  /\ Lowered(sent.status) => back.status = sent.status
  /\ HasIds(sent.alerts, 1) =>
       \A id \in DOMAIN sent.alerts :
         AlertPlain(sent.alerts[id]) => back.alerts[id].action = sent.alerts[id].action

EscapedTextReturns ==
  phase = "objects" /\ given # Absent =>
    \A i \in DOMAIN given :
      ZoneComesBack(given[i], objects[i]) /\ TokensComeBack(given[i], objects[i])

=============================================================================
