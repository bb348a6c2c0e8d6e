--------------------------- MODULE RecurrenceText ---------------------------
(***************************************************************************)
(* The RRULE text of a recurrence rule, in both directions                 *)
(* (ical/recurrence.go, rruleString of ical/to_ical_values.go).  A text is *)
(* the sequence of its parts; a rule gives each key a value or Unset, the  *)
(* zero value, nil or empty list of the field.                             *)
(***************************************************************************)
EXTENDS Selection, SequencesExt

CONSTANTS
  Upper, Lower, \* the case foldings of the tokens: functions
  Unset,        \* a field without a value
  NoEquals,     \* the key of a part that has no "="
  BadValue      \* the value of a part that does not parse

RuleOrder ==
  <<"FREQ", "INTERVAL", "RSCALE", "SKIP", "WKST", "BYDAY", "BYMONTHDAY", "BYMONTH",
    "BYYEARDAY", "BYWEEKNO", "BYHOUR", "BYMINUTE", "BYSECOND", "BYSETPOS", "COUNT", "UNTIL">>

RuleKeys == ToSet(RuleOrder)

TokenKeys == {"FREQ", "RSCALE", "SKIP", "WKST"}

Part(key, value) == [key |-> key, value |-> value]

NoRule == [key \in RuleKeys |-> Unset]

(***************************************************************************)
(* recurrenceRuleFromRRule: the parts in turn, a later one over an earlier *)
(* one of its key; an unknown key is skipped.                              *)
(***************************************************************************)
PartParses(part) ==
  /\ part.key # NoEquals
  /\ part.key \in RuleKeys \ TokenKeys => part.value # BadValue

RuleParses(parts) == \A i \in DOMAIN parts : PartParses(parts[i])

FieldValue(part) ==
  IF part.key \in TokenKeys /\ part.value # Unset THEN Lower[part.value]
  ELSE IF part.key = "INTERVAL" /\ part.value = "0" THEN Unset
  ELSE part.value

RuleFrom(parts) ==
  [key \in RuleKeys |->
     LET at == {i \in DOMAIN parts : parts[i].key = key}
     IN  IF at = {} THEN NoRule[key] ELSE FieldValue(parts[Max(at)])]

(***************************************************************************)
(* rruleString: what is set, in the order of RuleOrder.  A rule without a  *)
(* frequency fails.                                                        *)
(***************************************************************************)
RuleFormats(rule) == rule["FREQ"] # Unset

Field(rule, key) == Part(key, IF key \in TokenKeys THEN Upper[rule[key]] ELSE rule[key])

Fields(rule, keys) ==
  LET set == Subsequence(RuleOrder, {i \in DOMAIN RuleOrder : RuleOrder[i] \in keys})
  IN  [i \in DOMAIN set |-> Field(rule, set[i])]

RuleStringNoZero(rule) == Fields(rule, {key \in RuleKeys : rule[key] \notin {Unset, "0"}})

RuleString(rule) == Fields(rule, {key \in RuleKeys : rule[key] # Unset})

=============================================================================
