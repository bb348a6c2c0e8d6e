----------------------------- MODULE ICalTypes -----------------------------
(***************************************************************************)
(* The components and objects of ICalImport and ICalExport, by the types   *)
(* of the fields that the conversions look into: what goical.Component and *)
(* jscalendar.Event and Task can hold.                                     *)
(***************************************************************************)
EXTENDS ICalExport

Tokens == DOMAIN Upper

ASSUME TokensAssumption ==
  /\ {Upper, Lower, Quoted} \subseteq [Tokens -> Tokens]
  /\ \A t \in Tokens : Lower[Upper[t]] = Lower[t] /\ Upper[Lower[t]] = Upper[t]
  /\ {"PUBLIC", "PRIVATE", "CONFIDENTIAL", "DISPLAY"} \subseteq Tokens
  /\ Lower["PUBLIC"] = "public" /\ Lower["PRIVATE"] = "private"
  /\ Lower["CONFIDENTIAL"] = "confidential" /\ "secret" \in Tokens /\ Lower["secret"] = "secret"
  /\ \A t \in {"PUBLIC", "PRIVATE", "CONFIDENTIAL", "DISPLAY"} : Upper[t] = t /\ Quoted[t] = t
  /\ Absent \notin Tokens /\ Unset \notin Tokens \cup {"0"}

Maybe(set) == set \cup {Absent}

IsList(s) == s \in Seq(ToSet(s))

IsMap(m) == m = [k \in DOMAIN m |-> m[k]]

-----------------------------------------------------------------------------
(***************************************************************************)
(* The texts of recurrence rules, and the rules.                           *)
(***************************************************************************)
IsText(parts) ==
  /\ IsList(parts)
  /\ \A i \in DOMAIN parts : parts[i].key \in TokenKeys => parts[i].value \in Tokens \cup {Unset}

IsRule(rule) ==
  /\ rule = [key \in RuleKeys |-> rule[key]]
  /\ \A key \in TokenKeys : rule[key] \in Tokens \cup {Unset}

AreTexts(texts) == IsList(texts) /\ \A i \in DOMAIN texts : IsText(texts[i])

AreRules(rules) == IsList(rules) /\ \A i \in DOMAIN rules : IsRule(rules[i])

-----------------------------------------------------------------------------
(***************************************************************************)
(* The parts of a component, and of an object, that are there or Absent.   *)
(***************************************************************************)
Text(named) == named \cup STRING \* a string, perhaps one of those the code names

Offsets == [hours : Int, form : Text({"basic", "extended"})]

Triggers ==
  [absolute : BOOLEAN, value : Int \cup {Malformed},
   related : Maybe(Text({"START", "END", "start", "end"}))]

Addresses == Text({"mailto"}) \X STRING

CalAddresses == [address : Maybe(Addresses), name : Maybe(STRING)]

ASSUME PartsAssumption ==
  /\ Absent \notin DateProps \cup Offsets \cup Triggers \cup Addresses \cup CalAddresses \cup {"END"}
  /\ Raw \notin Triggers \cup {Absent}

People ==
  [imip : Maybe(Addresses), email : Maybe(STRING), name : Maybe(STRING),
   roles : SUBSET Text({"owner", "attendee"})]

AlarmComponents == [action : Maybe(Tokens), trigger : Maybe(Triggers)]

Alerts == [action : Maybe(Tokens), trigger : Maybe(Triggers) \cup {Raw}]

-----------------------------------------------------------------------------
(***************************************************************************)
(* A VEVENT or VTODO, and a VTIMEZONE.                                     *)
(***************************************************************************)
IsComponent(comp) ==
  /\ comp.sequence \in Maybe(Int) \cup {Malformed}
  /\ comp.class \in Maybe(Tokens) /\ comp.status \in Maybe(Tokens)
  /\ {comp.start, comp.end, comp.due} \subseteq Maybe(DateProps)
  /\ comp.organizer \in Maybe(CalAddresses) /\ comp.attendees \in Seq(CalAddresses)
  /\ comp.alarms \in Seq(AlarmComponents)
  /\ AreTexts(comp.rrules) /\ AreTexts(comp.exrules)

IsZoneComponent(comp) ==
  /\ comp.tzid \in Seq(Chars) /\ IsList(comp.subs)
  /\ \A i \in DOMAIN comp.subs :
       comp.subs[i].offset \in Maybe(Offsets) /\ AreTexts(comp.subs[i].rrules)

(***************************************************************************)
(* A TimeZone, and an Event or Task.                                       *)
(***************************************************************************)
IsZoneRule(rule) ==
  /\ rule = [start |-> rule.start, offset |-> rule.offset, rules |-> rule.rules]
  /\ rule.offset \in Maybe(Offsets) /\ AreRules(rule.rules)

AreZoneRules(rules) == IsList(rules) /\ \A i \in DOMAIN rules : IsZoneRule(rules[i])

IsTimeZone(tz) ==
  /\ tz = [tzId |-> tz.tzId, standard |-> tz.standard, daylight |-> tz.daylight]
  /\ tz.tzId \in Seq(Chars) /\ AreZoneRules(tz.standard) /\ AreZoneRules(tz.daylight)

FieldNames ==
  {"kind", "uid", "title", "sequence", "created", "updated", "privacy", "keywords", "locations",
   "participants", "links", "alerts", "start", "due", "timeZone", "allDay", "duration",
   "percent", "status", "rules", "excluded", "timeZones"}

HasFields(object) == object = [f \in FieldNames |-> object[f]]

IsCalendarObject(object) ==
  /\ HasFields(object)
  /\ object.kind = "Event" => object.due = Absent /\ object.percent = Absent
  /\ object.sequence \in Int
  /\ object.privacy \in Maybe(Tokens) /\ object.status \in Maybe(Tokens)
  /\ object.keywords \in [DOMAIN object.keywords -> BOOLEAN]
  /\ IsMap(object.locations) /\ IsMap(object.links)
  /\ object.participants \in [DOMAIN object.participants -> People]
  /\ object.alerts \in [DOMAIN object.alerts -> Alerts]
  /\ {object.start, object.due} \subseteq Maybe(Int)
  /\ object.timeZone \in Seq(Chars) /\ object.allDay \in BOOLEAN
  /\ AreRules(object.rules) /\ AreRules(object.excluded)
  /\ IsMap(object.timeZones)
  /\ \A id \in DOMAIN object.timeZones : IsTimeZone(object.timeZones[id])

=============================================================================
