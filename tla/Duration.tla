------------------------------ MODULE Duration ------------------------------
(***************************************************************************)
(* Duration and SignedDuration (duration.go): the parser, the formatter    *)
(* and the overflow checks between them.  A text is what the scanner sees: *)
(* an optional "-", the "P", and the components before and after the "T".  *)
(***************************************************************************)
EXTENDS Integers, SequencesExt

CONSTANTS
  MaxUint,     \* the largest value of a field
  NanoDigits,  \* the digits of a fraction a Duration keeps
  NoDigits,    \* a component that starts with no digit
  NoPoint      \* a component without a fraction

ASSUME DurationAssumption ==
  /\ MaxUint \in Nat /\ NanoDigits \in Nat \ {0}
  /\ NoDigits \notin Nat
  /\ NoPoint \notin Seq(0 .. 9)

(***************************************************************************)
(* True of every number of digits, and stated because the provers have no  *)
(* arithmetic of exponents.                                                *)
(***************************************************************************)
ASSUME PowersOfTen ==
  /\ 10 ^ 0 = 1
  /\ \A i \in 0 .. NanoDigits : 10 ^ i \in Nat \ {0} /\ 10 ^ (i + 1) = 10 * 10 ^ i

DateUnits == <<"Y", "M", "D">>
TimeUnits == <<"H", "M", "S">>

(***************************************************************************)
(* "1*DIGIT [. 1*DIGIT] UNIT", as far as it is there: the unit is "" when  *)
(* the text ends after the number.                                         *)
(***************************************************************************)
Component(whole, frac, unit) == [whole |-> whole, frac |-> frac, unit |-> unit]

Text(minus, p, date, t, time) ==
  [minus |-> minus, p |-> p, date |-> date, t |-> t, time |-> time]

ZeroDuration ==
  [years |-> 0, months |-> 0, weeks |-> 0, days |-> 0,
   hours |-> 0, minutes |-> 0, seconds |-> 0, nanos |-> 0]

Uint == 0 .. MaxUint

(***************************************************************************)
(* The nanoseconds are a uint32, which has at most one digit more than     *)
(* those of a second.                                                      *)
(***************************************************************************)
Durations ==
  [years : Uint, months : Uint, weeks : Uint, days : Uint,
   hours : Uint, minutes : Uint, seconds : Uint, nanos : 0 .. 10 ^ (NanoDigits + 1) - 1]

IsZero(d) == d = ZeroDuration

(***************************************************************************)
(* totalSeconds, and the overflow of any of its steps.                     *)
(***************************************************************************)
TotalSeconds(d) == 3600 * d.hours + 60 * d.minutes + d.seconds

TotalWraps(d) == TotalSeconds(d) % (MaxUint + 1) <= MaxUint

TotalFits(d) == TotalSeconds(d) <= MaxUint

-----------------------------------------------------------------------------
(***************************************************************************)
(* fractionToNanos: the digits past the resolution are cut off.            *)
(***************************************************************************)
Nanos(frac) ==
  LET upTo[i \in 0 .. NanoDigits] ==
        IF i = 0 THEN 0
        ELSE 10 * upTo[i - 1] + (IF i \in DOMAIN frac THEN frac[i] ELSE 0)
  IN  upTo[NanoDigits]

NanosOf(c) == IF c.frac = NoPoint THEN 0 ELSE Nanos(c.frac)

(***************************************************************************)
(* scanComponent and the loops over dateUnits and timeUnits: every         *)
(* component is a number that fits with a unit, each unit follows the one  *)
(* before it in the list though not at once, and a fraction is allowed     *)
(* behind the "T" only, where it has to be zero but for the seconds.       *)
(***************************************************************************)
Scans(c) == c.whole \in Uint /\ c.frac # <<>> /\ c.unit # ""

Position(units, unit) == CHOOSE k \in DOMAIN units : units[k] = unit

Ordered(part, units) ==
  /\ \A i \in DOMAIN part : Contains(units, part[i].unit)
  /\ \A i \in DOMAIN part \ {1} :
       Position(units, part[i - 1].unit) < Position(units, part[i].unit)

Field(part, unit) ==
  IF \E i \in DOMAIN part : part[i].unit = unit
  THEN part[CHOOSE i \in DOMAIN part : part[i].unit = unit]
  ELSE Component(0, NoPoint, unit)

DateParses(date) ==
  /\ \A i \in DOMAIN date : Scans(date[i]) /\ date[i].frac = NoPoint
  /\ Ordered(date, DateUnits)

TimeOf(time) ==
  [ZeroDuration EXCEPT !.hours   = Field(time, "H").whole,
                       !.minutes = Field(time, "M").whole,
                       !.seconds = Field(time, "S").whole,
                       !.nanos   = NanosOf(Field(time, "S"))]

TimeParses(time) ==
  /\ time # <<>>
  /\ \A i \in DOMAIN time : /\ Scans(time[i])
                            /\ time[i].unit # "S" => NanosOf(time[i]) = 0
  /\ Ordered(time, TimeUnits)
  /\ TotalFits(TimeOf(time))

(***************************************************************************)
(* parseDuration: a date part that ends in "W" is a number of weeks and    *)
(* nothing else.                                                           *)
(***************************************************************************)
IsWeekForm(date) == date # <<>> /\ Last(date).unit = "W"

Parses(text) ==
  /\ text.p
  /\ text.date # <<>> \/ text.t
  /\ IF IsWeekForm(text.date)
     THEN ~text.t /\ Len(text.date) = 1 /\ Scans(text.date[1]) /\ text.date[1].frac = NoPoint
     ELSE DateParses(text.date) /\ (text.t => TimeParses(text.time))

Parse(text) ==
  IF IsWeekForm(text.date)
  THEN [ZeroDuration EXCEPT !.weeks = text.date[1].whole]
  ELSE [TimeOf(IF text.t THEN text.time ELSE <<>>) EXCEPT
          !.years  = Field(text.date, "Y").whole,
          !.months = Field(text.date, "M").whole,
          !.days   = Field(text.date, "D").whole]

ParseSigned(text) == [negative |-> text.minus, span |-> Parse(text)]

-----------------------------------------------------------------------------
(***************************************************************************)
(* normalizedTime, which leaves a time part alone that overflows.          *)
(***************************************************************************)
NormalizedWrapping(d) ==
  LET total == TotalSeconds(d) % (MaxUint + 1)
  IN  [d EXCEPT !.hours   = total \div 3600,
                !.minutes = (total % 3600) \div 60,
                !.seconds = total % 60]

Normalized(d) ==
  IF TotalFits(d)
  THEN LET total == TotalSeconds(d)
       IN  [d EXCEPT !.hours   = total \div 3600,
                     !.minutes = (total % 3600) \div 60,
                     !.seconds = total % 60]
  ELSE d

(***************************************************************************)
(* writeSeconds: the nanoseconds in NanoDigits digits or more, less the    *)
(* zeros at the end.                                                       *)
(***************************************************************************)
Digit(nanos, width, i) == (nanos \div 10 ^ (width - i)) % 10

Fraction(nanos) ==
  IF nanos = 0 THEN NoPoint
  ELSE LET width == IF nanos < 10 ^ NanoDigits THEN NanoDigits ELSE NanoDigits + 1
           kept  == Max({i \in 1 .. width : Digit(nanos, width, i) # 0})
       IN  [i \in 1 .. kept |-> Digit(nanos, width, i)]

NonZero(c) == IF c.whole = 0 /\ c.frac = NoPoint THEN <<>> ELSE <<c>>

(***************************************************************************)
(* The two String methods.  Weeks hide every other field; a negative zero  *)
(* loses its sign.                                                         *)
(***************************************************************************)
Format(d) ==
  LET n    == Normalized(d)
      time == NonZero(Component(n.hours, NoPoint, "H"))
                \o NonZero(Component(n.minutes, NoPoint, "M"))
                \o NonZero(Component(n.seconds, Fraction(n.nanos), "S"))
      date == NonZero(Component(d.years, NoPoint, "Y"))
                \o NonZero(Component(d.months, NoPoint, "M"))
                \o NonZero(Component(d.days, NoPoint, "D"))
  IN  IF IsZero(d)
      THEN Text(FALSE, TRUE, <<>>, TRUE, <<Component(0, NoPoint, "S")>>)
      ELSE IF d.weeks # 0
      THEN Text(FALSE, TRUE, <<Component(d.weeks, NoPoint, "W")>>, FALSE, <<>>)
      ELSE Text(FALSE, TRUE, date, time # <<>>, time)

FormatSigned(s) ==
  [Format(s.span) EXCEPT !.minus = s.negative /\ ~IsZero(s.span)]

=============================================================================
