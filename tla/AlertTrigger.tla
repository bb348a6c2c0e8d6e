---------------------------- MODULE AlertTrigger ----------------------------
(***************************************************************************)
(* The trigger of an alert (alert.go) over the value types it carries: a   *)
(* program decodes the "trigger" member of an alert, replaces the trigger  *)
(* with one of its own, and encodes it.                                    *)
(***************************************************************************)
EXTENDS Duration, DateTime

CONSTANTS
  Members,    \* the "trigger" members a peer may send
  Offsets,    \* the signed durations a program may set
  Anchors,    \* the relativeTo values a program may set
  Whens,      \* the UTCDateTime values a program may set
  Instants,   \* the instants a program converts to one
  Absent,     \* no member
  Null,       \* JSON null
  NotObject,  \* a JSON value that is not an object
  NotText,    \* a JSON value that is not a string
  MaxTurns    \* bound on the members received and the triggers set

ASSUME TriggerAssumption ==
  /\ {Absent, Null, NotObject} \subseteq Members
  /\ Offsets \subseteq [negative : BOOLEAN, span : Durations]
  /\ Whens \subseteq DateTimes
  /\ \A t \in Instants : IsInstant(t)
  /\ {Absent, Null} \cap (Anchors \cup {""}) = {}
  /\ NotText \notin Anchors \cup {Absent, "", "OffsetTrigger", "AbsoluteTrigger"}
  /\ MaxTurns \in Nat

VARIABLES
  member,   \* the "trigger" member last received or produced
  trigger,  \* the program's Trigger
  sent,     \* the trigger the member encodes, Null when it is a peer's
  source,   \* the member the trigger was decoded from, Null when it was set
  turns     \* members received and triggers set

vars == <<member, trigger, sent, source, turns>>

None == [kind |-> "none"]
OffsetTrigger(offset, relativeTo) ==
  [kind |-> "OffsetTrigger", offset |-> offset, relativeTo |-> relativeTo]
AbsoluteTrigger(when) == [kind |-> "AbsoluteTrigger", when |-> when]
Raw(bytes) == [kind |-> "raw", bytes |-> bytes]

(***************************************************************************)
(* A trigger object: the members the two wire structs have, and the names  *)
(* of any others.                                                          *)
(***************************************************************************)
Object(type, offset, relativeTo, when, others) ==
  [type |-> type, offset |-> offset, relativeTo |-> relativeTo,
   when |-> when, others |-> others]

IsObject(m) == m \notin {Absent, Null, NotObject}

(***************************************************************************)
(* An offset has its sign or none, decimal digits behind the point of a    *)
(* number, and components of the time only behind a "T".                   *)
(***************************************************************************)
ASSUME MembersAssumption ==
  \A m \in Members :
    (IsObject(m) /\ m.offset \notin {Absent, Null, NotText}) =>
      /\ m.offset.minus \in BOOLEAN
      /\ \A i \in DOMAIN m.offset.time :
           m.offset.time[i].frac \in Seq(0 .. 9) \cup {NoPoint}
      /\ \A part \in {m.offset.date, m.offset.time} :
           Len(part) \in Nat /\ part = [i \in 1 .. Len(part) |-> part[i]]
      /\ ~m.offset.t => m.offset.time = <<>>

-----------------------------------------------------------------------------
(***************************************************************************)
(* Trigger.UnmarshalJSON: null is the zero trigger, "@type" chooses the    *)
(* wire struct, any other kind is kept as it is.  A null offset or         *)
(* relativeTo leaves the field at its zero, a null or missing date-time is *)
(* an error and a zero value.                                              *)
(***************************************************************************)
KindByMembers(m) ==
  CASE m.offset # Absent -> "OffsetTrigger"
    [] m.when # Absent   -> "AbsoluteTrigger"
    [] OTHER             -> "raw"

KindOf(m) ==
  IF m.type \in {"OffsetTrigger", "AbsoluteTrigger"} THEN m.type ELSE "raw"

Decodes(m) ==
  \/ m \in {Absent, Null}
  \/ /\ IsObject(m) /\ m.type # NotText
     /\ CASE KindOf(m) = "OffsetTrigger" ->
               /\ m.relativeTo # NotText
               /\ m.offset # NotText
               /\ m.offset \notin {Absent, Null} => Parses(m.offset)
          [] KindOf(m) = "AbsoluteTrigger" ->
               /\ m.when \notin {Null, NotText}
               /\ m.when # Absent => ScansDT(m.when, TRUE)
          [] KindOf(m) = "raw" -> TRUE

ZeroOffset == [negative |-> FALSE, span |-> ZeroDuration]
ZeroWhen == DT(0, 0, 0, 0, 0, 0)

Decoded(m) ==
  CASE ~IsObject(m) -> None
    [] IsObject(m) /\ KindOf(m) = "OffsetTrigger" ->
         OffsetTrigger(
           IF m.offset \in {Absent, Null} THEN ZeroOffset ELSE ParseSigned(m.offset),
           IF m.relativeTo \in {Absent, Null} THEN "" ELSE m.relativeTo)
    [] IsObject(m) /\ KindOf(m) = "AbsoluteTrigger" ->
         AbsoluteTrigger(IF m.when = Absent THEN ZeroWhen ELSE Scanned(m.when.fields))
    [] IsObject(m) /\ KindOf(m) = "raw" -> Raw(m)

(***************************************************************************)
(* The MarshalJSON of the alert, which leaves a zero trigger out, and of   *)
(* the trigger: a date-time that is not valid fails it.                    *)
(***************************************************************************)
Encodes(t) == t.kind = "AbsoluteTrigger" => Valid(t.when)

Encoded(t) ==
  CASE t.kind = "none"            -> Absent
    [] t.kind = "raw"             -> t.bytes
    [] t.kind = "OffsetTrigger"   ->
         Object(t.kind, FormatSigned(t.offset),
                IF t.relativeTo = "" THEN Absent ELSE t.relativeTo, Absent, {})
    [] t.kind = "AbsoluteTrigger" ->
         Object(t.kind, Absent, Absent, AppendText(t.when, TRUE), {})

-----------------------------------------------------------------------------
Init ==
  /\ member = Absent
  /\ trigger = None
  /\ sent = Null
  /\ source = Null
  /\ turns = 0

Receive ==
  /\ turns < MaxTurns
  /\ member' \in Members
  /\ sent' = Null
  /\ turns' = turns + 1
  /\ UNCHANGED <<trigger, source>>

(***************************************************************************)
(* The decode of an alert that has the member; one without it gives an     *)
(* alert with the zero trigger.  A decode or an encode that fails changes  *)
(* nothing.                                                                *)
(***************************************************************************)
Unmarshal ==
  /\ IF Decodes(member)
     THEN trigger' = Decoded(member) /\ source' = member
     ELSE UNCHANGED <<trigger, source>>
  /\ UNCHANGED <<member, sent, turns>>

(***************************************************************************)
(* NewTrigger, or the zero Trigger, assigned to Alert.Trigger.             *)
(***************************************************************************)
Set ==
  /\ turns < MaxTurns
  /\ \/ trigger' = None
     \/ \E offset \in Offsets, anchor \in Anchors :
          trigger' = OffsetTrigger(offset, anchor)
     \/ \E when \in Whens : trigger' = AbsoluteTrigger(when)
     \/ \E t \in Instants : trigger' = AbsoluteTrigger(FromTime(t))
  /\ source' = Null
  /\ turns' = turns + 1
  /\ UNCHANGED <<member, sent>>

Marshal ==
  /\ IF Encodes(trigger)
     THEN member' = Encoded(trigger) /\ sent' = trigger
     ELSE UNCHANGED <<member, sent>>
  /\ UNCHANGED <<trigger, source, turns>>

Next == Receive \/ Unmarshal \/ Set \/ Marshal

Spec == Init /\ [][Next]_vars

-----------------------------------------------------------------------------
(***************************************************************************)
(* The span a text stands for and the one a value stands for, without      *)
(* parsing or formatting: months, days, seconds and nanoseconds.           *)
(***************************************************************************)
Span(d) ==
  [months |-> 12 * d.years + d.months, days |-> 7 * d.weeks + d.days,
   seconds |-> 3600 * d.hours + 60 * d.minutes + d.seconds, nanos |-> d.nanos]

Total(terms) ==
  LET upTo[i \in 0 .. Len(terms)] == IF i = 0 THEN 0 ELSE upTo[i - 1] + terms[i]
  IN  upTo[Len(terms)]

Amount(part, unit) ==
  Total([i \in 1 .. Len(part) |-> IF part[i].unit = unit THEN part[i].whole ELSE 0])

TextNanos(c) ==
  IF c.frac = NoPoint THEN 0
  ELSE Total([i \in 1 .. NanoDigits |->
                IF i \in DOMAIN c.frac THEN c.frac[i] * 10 ^ (NanoDigits - i) ELSE 0])

TextSpan(text) ==
  [months  |-> 12 * Amount(text.date, "Y") + Amount(text.date, "M"),
   days    |-> 7 * Amount(text.date, "W") + Amount(text.date, "D"),
   seconds |-> 3600 * Amount(text.time, "H") + 60 * Amount(text.time, "M")
                 + Amount(text.time, "S"),
   nanos   |-> Total([i \in 1 .. Len(text.time) |-> TextNanos(text.time[i])])]

IsEmpty(span) == span.months = 0 /\ span.days = 0 /\ span.seconds = 0 /\ span.nanos = 0

(***************************************************************************)
(* The values the documentation of Duration allows.                        *)
(***************************************************************************)
Legal(d) ==
  /\ d.weeks # 0 => d = [ZeroDuration EXCEPT !.weeks = d.weeks]
  /\ d.nanos < 10 ^ NanoDigits

SameSpanAs(text, offset) ==
  /\ TextSpan(text) = Span(offset.span)
  /\ ~IsEmpty(Span(offset.span)) => text.minus = offset.negative

(***************************************************************************)
(* "The formatter must never silently misreport magnitude", nor the        *)
(* parser: the text that was decoded and the text that was produced stand  *)
(* for the same span as the trigger, also when the time part is too large  *)
(* to be normalized.                                                       *)
(***************************************************************************)
SameSpan ==
  /\ (source # Null /\ IsObject(source) /\ trigger.kind = "OffsetTrigger"
        /\ source.offset \notin {Absent, Null}) =>
       SameSpanAs(source.offset, trigger.offset)
  /\ (sent # Null /\ sent.kind = "OffsetTrigger" /\ Legal(sent.offset.span)) =>
       SameSpanAs(member.offset, sent.offset)

(***************************************************************************)
(* A number that does not fit never reaches a field, whatever the digits   *)
(* of the text, and what ParseDuration accepts it can also normalize: no   *)
(* decoded offset has a time part of more seconds than the integers hold,  *)
(* and weeks stand alone.                                                  *)
(***************************************************************************)
DecodedFits ==
  (source # Null /\ trigger.kind = "OffsetTrigger") =>
    /\ trigger.offset.span \in Durations
    /\ Span(trigger.offset.span).seconds \in Uint
    /\ Legal(trigger.offset.span)

(***************************************************************************)
(* A trigger that was encoded can be decoded again, to a value that stands *)
(* for the same and is encoded to the same bytes.  A time part too large   *)
(* to be normalized is the exception the parser makes.                     *)
(***************************************************************************)
RoundTrips ==
  (sent # Null /\ (sent.kind = "OffsetTrigger" =>
                     Legal(sent.offset.span) /\ Span(sent.offset.span).seconds \in Uint)) =>
    /\ Decodes(member)
    /\ Encodes(Decoded(member)) /\ Encoded(Decoded(member)) = member
    /\ IF sent.kind = "OffsetTrigger"
       THEN /\ Decoded(member).relativeTo = sent.relativeTo
            /\ Span(Decoded(member).offset.span) = Span(sent.offset.span)
       ELSE Decoded(member) = sent

Shown(dt) == dt.year \in 1 .. 9999 /\ FromTime(Time(dt)) = dt

(***************************************************************************)
(* The date-times that are emitted are the ones the calendar has: those    *)
(* that an instant shows.  Every other value is one that Time would shift. *)
(***************************************************************************)
RealInstant ==
  trigger.kind = "AbsoluteTrigger" => (Encodes(trigger) <=> Shown(trigger.when))

(***************************************************************************)
(* A trigger that was decoded and encoded again is of the kind it was, and *)
(* one of a kind the library does not know is what it was to the byte.     *)
(***************************************************************************)
KeepsKind ==
  (source # Null /\ sent = trigger) =>
    \/ source \in {Absent, Null} /\ member = Absent
    \/ /\ IsObject(source) /\ IsObject(member)
       /\ member.type = source.type
       /\ source.type \notin {"OffsetTrigger", "AbsoluteTrigger"} => member = source

=============================================================================
