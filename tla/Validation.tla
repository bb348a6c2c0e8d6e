----------------------------- MODULE Validation -----------------------------
(***************************************************************************)
(* Event.Validate, Task.Validate and Group.Validate: one pass over the     *)
(* object, group of checks by group of checks, which collects every        *)
(* violation it meets.  A group of checks visits a list by index, or a Go  *)
(* map through its sorted keys.                                            *)
(*                                                                         *)
(* An object is a record.  kind is the method's receiver; type is "right", *)
(* "wrong" or "empty"; uid and due tell whether the member is there; rules *)
(* and excluded are sequences of [frequency, count, until]; overrides and  *)
(* localizations map a text to the set of its patch's keys; zone, recurId- *)
(* Zone and the values of locations are zone names, empty when absent;     *)
(* zones maps a name to its [standard, daylight], sequences of sequences   *)
(* of rules.  A Group has entries, raw values as Routing has them.         *)
(***************************************************************************)
EXTENDS Pointer, Routing

CONSTANTS
  Objects,      \* the objects a caller may validate
  UidText,      \* the text "uid"
  DateTimes     \* the texts ParseLocalDateTime accepts

(***************************************************************************)
(* Event and Task have no entries, Group has nothing that recurs, is       *)
(* localized or has a zone.                                                *)
(***************************************************************************)
ASSUME ObjectsAssumption ==
  \A o \in Objects :
    /\ o.kind \in {"Event", "Task", "Group"}
    /\ o.kind # "Group" => DOMAIN o.entries = {}
    /\ o.kind = "Group" =>
         /\ DOMAIN o.rules = {} /\ DOMAIN o.excluded = {}
         /\ DOMAIN o.overrides = {} /\ DOMAIN o.localizations = {}
         /\ o.zone = <<>> /\ DOMAIN o.locations = {} /\ DOMAIN o.zones = {}

VARIABLES
  object,  \* the receiver
  phase,   \* the group of checks the pass is in, a position of Groups
  left,    \* the places of that group still to visit
  errs     \* the violations collected so far

vars == <<object, phase, left, errs>>

Frequencies == {"yearly", "monthly", "weekly", "daily", "hourly", "minutely", "secondly"}

Groups ==
  <<"@type", "uid", "due", "recurrenceRules", "excludedRecurrenceRules",
    "recurrenceOverrides", "localizations", "timeZone", "timeZones", "entries">>

Violation(group, at, what) == [group |-> group, at |-> at, what |-> what]

-----------------------------------------------------------------------------
(***************************************************************************)
(* The places a group visits.  A place is a path of texts, an index being  *)
(* a text of one code point; Standard and Daylight name the two lists of a *)
(* zone.  Visiting in the order of the paths is what the nested loops over *)
(* lists and sorted keys do.                                               *)
(***************************************************************************)
Standard == <<1>>
Daylight == <<2>>

ListPlaces(list) == {<< <<i>> >> : i \in DOMAIN list}

PointerPlaces(patches) == UNION {{<<k, p>> : p \in patches[k]} : k \in DOMAIN patches}

Transitions(zone, list) == IF list = Standard THEN zone.standard ELSE zone.daylight

TransitionPlaces(zones) ==
  UNION {UNION {{<<z, list, <<i>>, <<j>> >> : j \in DOMAIN Transitions(zones[z], list)[i]} :
                i \in DOMAIN Transitions(zones[z], list)} :
         z \in DOMAIN zones, list \in {Standard, Daylight}}

GroupsOf(kind) ==
  CASE kind = "Event" -> Range(Groups) \ {"entries"}
    [] kind = "Task"  -> Range(Groups) \ {"entries", "due"}
    [] kind = "Group" -> {"@type", "uid", "entries"}

PlacesIn(o, group) ==
  CASE group \in {"@type", "uid", "due"} -> {<<>>}
    [] group = "recurrenceRules"         -> ListPlaces(o.rules)
    [] group = "excludedRecurrenceRules" -> ListPlaces(o.excluded)
    [] group = "recurrenceOverrides"     -> {<<k>> : k \in DOMAIN o.overrides}
                                              \cup PointerPlaces(o.overrides)
    [] group = "localizations"           -> PointerPlaces(o.localizations)
    [] group = "timeZone"                -> {<<>>} \cup {<<id>> : id \in DOMAIN o.locations}
    [] group = "timeZones"               -> TransitionPlaces(o.zones)
    [] group = "entries"                 -> ListPlaces(o.entries)

Places(o, group) == IF group \in GroupsOf(o.kind) THEN PlacesIn(o, group) ELSE {}

PathBefore(p, q) ==
  \/ IsStrictPrefix(p, q)
  \/ \E i \in DOMAIN p \cap DOMAIN q :
       Before(p[i], q[i]) /\ \A j \in 1 .. i - 1 : p[j] = q[j]

-----------------------------------------------------------------------------
(***************************************************************************)
(* The checks at one place: the violations found there, in order.          *)
(***************************************************************************)
If(test, violation) == IF test THEN <<violation>> ELSE <<>>

RuleChecksElse(group, at, rule) ==
  IF rule.frequency \notin Frequencies
  THEN <<Violation(group, at, "frequency")>>
  ELSE If(rule.count /\ rule.until, Violation(group, at, "bounds"))

RuleChecks(group, at, rule) ==
  If(rule.frequency \notin Frequencies, Violation(group, at, "frequency"))
    \o If(rule.count /\ rule.until, Violation(group, at, "bounds"))

OverrideKeyCheck(at) ==
  If(at[1] \notin DateTimes, Violation("recurrenceOverrides", at, "key"))

PointerCheck(group, at) ==
  IF at[2] = UidText
  THEN <<Violation(group, at, "root uid")>>
  ELSE If(~ValidKey(at[2]), Violation(group, at, "pointer"))

IsCustom(zone) == zone # <<>> /\ zone[1] = Slash

ResolvesIn(zone, zones) == IsCustom(zone) => zone \in DOMAIN zones

ZoneCheck(o, at) ==
  LET ref == IF at = <<>> THEN o.zone ELSE o.locations[at[1]]
  IN  If(ref # <<>> /\ ~ResolvesIn(ref, o.zones), Violation("timeZone", at, "undefined"))

RoutedAsParse(raw) == Peeks(raw) /\ raw.type \in {"Event", "Task", "Group"}

Routed(raw) == Peeks(raw) /\ raw.type \in {"Event", "Task"}

EntryCheck(raw, at) == If(~Routed(raw), Violation("entries", at, "type"))

Checks(o, group, at) ==
  CASE group = "@type" -> If(o.type = "wrong", Violation("@type", at, "mismatch"))
    [] group = "uid"   -> If(~o.uid, Violation("uid", at, "missing"))
    [] group = "due"   -> If(o.due, Violation("due", at, "not permitted"))
    [] group = "recurrenceRules" -> RuleChecks(group, at, o.rules[at[1][1]])
    [] group = "excludedRecurrenceRules" -> RuleChecks(group, at, o.excluded[at[1][1]])
    [] group = "recurrenceOverrides" ->
         IF Len(at) = 1 THEN OverrideKeyCheck(at) ELSE PointerCheck(group, at)
    [] group = "localizations" -> PointerCheck(group, at)
    [] group = "timeZone"      -> ZoneCheck(o, at)
    [] group = "timeZones" ->
         RuleChecks(group, at, Transitions(o.zones[at[1]], at[2])[at[3][1]][at[4][1]])
    [] group = "entries" -> EntryCheck(o.entries[at[1][1]], at)

-----------------------------------------------------------------------------
Init ==
  /\ object \in Objects
  /\ phase = 1
  /\ left = Places(object, Groups[1])
  /\ errs = <<>>

(***************************************************************************)
(* A loop body, and what a loop over an unsorted map would do.             *)
(***************************************************************************)
VisitAt(at) ==
  /\ left' = left \ {at}
  /\ errs' = errs \o Checks(object, Groups[phase], at)
  /\ UNCHANGED <<object, phase>>

VisitAny == \E at \in left : VisitAt(at)

Visit ==
  \E at \in left :
    /\ \A other \in left \ {at} : PathBefore(at, other)
    /\ VisitAt(at)

NextGroup ==
  /\ left = {}
  /\ phase < Len(Groups)
  /\ phase' = phase + 1
  /\ left' = Places(object, Groups[phase + 1])
  /\ UNCHANGED <<object, errs>>

(***************************************************************************)
(* joinValidation: the errors are returned as they were collected.         *)
(***************************************************************************)
Return ==
  /\ left = {}
  /\ phase = Len(Groups)
  /\ phase' = Len(Groups) + 1
  /\ UNCHANGED <<object, left, errs>>

Next == Visit \/ NextGroup \/ Return

Spec == Init /\ [][Next]_vars

-----------------------------------------------------------------------------
Returned == phase = Len(Groups) + 1

Accepted == Returned /\ errs = <<>>

PhaseOf(group) == CHOOSE n \in DOMAIN Groups : Groups[n] = group

(***************************************************************************)
(* The order of reports is fixed by the object alone, whatever order Go    *)
(* walks its maps in: group by group, path by path, and of one rule the    *)
(* frequency before the bounds.  Nothing is reported twice.                *)
(***************************************************************************)
ReportedBefore(v, w) ==
  \/ PhaseOf(v.group) < PhaseOf(w.group)
  \/ v.group = w.group /\ PathBefore(v.at, w.at)
  \/ v.group = w.group /\ v.at = w.at /\ v.what = "frequency" /\ w.what = "bounds"

Ordered == \A m, n \in DOMAIN errs : m < n => ReportedBefore(errs[m], errs[n])

(***************************************************************************)
(* What breaks one of the rules the checks are about is named, however     *)
(* deep in the object's lists and maps it lies, and nothing else is: the   *)
(* discriminator, the uid, a due on an Event, the keys and pointers of the *)
(* patches, the zones of the object and of its locations, the rules and    *)
(* the type of an entry.  Two rules the documentation has are not among    *)
(* them, as the code does not check them: that recurrenceIdTimeZone        *)
(* resolves ("referenced anywhere in the event", types.go), and that an    *)
(* entry decodes ("or that fails to decode", validate.go).                 *)
(***************************************************************************)
Named(test, violation) == Range(If(test, violation))

BadRules(group, prefix, rules) ==
  {Violation(group, Append(prefix, <<i>>), "frequency") :
     i \in {n \in DOMAIN rules : rules[n].frequency \notin Frequencies}}
  \cup
  {Violation(group, Append(prefix, <<i>>), "bounds") :
     i \in {n \in DOMAIN rules : rules[n].count /\ rules[n].until}}

BadTransitions(zone, list, transitions) ==
  UNION {BadRules("timeZones", <<zone, list, <<i>> >>, transitions[i]) : i \in DOMAIN transitions}

BadPointers(group, patches) ==
  UNION {{Violation(group, <<k, p>>, IF p = UidText THEN "root uid" ELSE "pointer") :
            p \in {q \in patches[k] : q = UidText \/ ~ValidKey(q)}} :
         k \in DOMAIN patches}

Undefined(o, ref) == IsCustom(ref) /\ ref \notin DOMAIN o.zones

Violations(o) ==
  UNION {
    Named(o.type = "wrong", Violation("@type", <<>>, "mismatch")),
    Named(~o.uid, Violation("uid", <<>>, "missing")),
    Named(o.kind = "Event" /\ o.due, Violation("due", <<>>, "not permitted")),
    BadRules("recurrenceRules", <<>>, o.rules),
    BadRules("excludedRecurrenceRules", <<>>, o.excluded),
    {Violation("recurrenceOverrides", <<k>>, "key") : k \in DOMAIN o.overrides \ DateTimes},
    BadPointers("recurrenceOverrides", o.overrides),
    BadPointers("localizations", o.localizations),
    Named(Undefined(o, o.zone), Violation("timeZone", <<>>, "undefined")),
    {Violation("timeZone", <<id>>, "undefined") :
       id \in {l \in DOMAIN o.locations : Undefined(o, o.locations[l])}},
    UNION {BadTransitions(z, Standard, o.zones[z].standard)
             \cup BadTransitions(z, Daylight, o.zones[z].daylight) : z \in DOMAIN o.zones},
    {Violation("entries", << <<i>> >>, "type") :
       i \in {n \in DOMAIN o.entries : Entry(o.entries[n]) \in {"structural", "unknown type"}}}}

Reported == Returned => Range(errs) = Violations(object)

(***************************************************************************)
(* An entry a valid group holds is routed by Group.Entry and by Parse      *)
(* alike, so a caller may use either on it: the two differ only over       *)
(* nested groups, which are reported.                                      *)
(***************************************************************************)
SameRouting ==
  (Accepted /\ object.kind = "Group") =>
    \A i \in DOMAIN object.entries : Entry(object.entries[i]) = Parse(object.entries[i])

=============================================================================
