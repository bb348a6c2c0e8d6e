-------------------------- MODULE MCAlertTrigger --------------------------
(***************************************************************************)
(* Integers of 13 bits, so that two hours fit and three do not, and two    *)
(* digits of a fraction.  The offsets are those of every selection of the  *)
(* time units with small, normalizing and too large numbers, of the date   *)
(* units, and the malformed ones; the date-times have one field at a time  *)
(* at its boundaries.                                                      *)
(***************************************************************************)
EXTENDS AlertTrigger

C(whole, unit) == Component(whole, NoPoint, unit)
Maybe(whole, unit) == IF whole = 0 THEN <<>> ELSE <<C(whole, unit)>>

Times ==
  {Maybe(h, "H") \o Maybe(m, "M") \o s :
     h \in {0, 1, 2, 3}, m \in {0, 1, 61, 137},
     s \in {<<>>, <<C(1, "S")>>, <<C(3599, "S")>>, <<C(3601, "S")>>, <<C(8191, "S")>>}}

Fractions ==
  {<<Component(0, f, "S")>> : f \in {<<0>>, <<5>>, <<0, 5>>, <<1, 2, 3>>, <<0, 0, 1>>, <<>>}}
    \cup {<<Component(1, f, u)>> : f \in {<<0>>, <<5>>}, u \in {"H", "M"}}

MalformedTimes ==
  {<<c, d>> : c, d \in {C(1, "H"), C(1, "M"), C(0, "S")}}
    \cup {<<C(8192, "S")>>, <<C(NoDigits, "S")>>, <<C(1, "")>>, <<C(1, "W")>>, <<>>}

Dates ==
  {<<>>, <<C(1, "Y")>>, <<C(1, "Y"), C(1, "D")>>, <<C(1, "Y"), C(2, "M"), C(3, "D")>>,
   <<C(1, "D"), C(1, "Y")>>, <<C(1, "D"), C(1, "D")>>, <<Component(1, <<5>>, "D")>>,
   <<C(0, "D")>>, <<C(8192, "M")>>, <<C(2, "W")>>, <<C(0, "W")>>, <<C(NoDigits, "W")>>,
   <<C(1, "W"), C(1, "D")>>, <<C(1, "D"), C(1, "W")>>, <<Component(1, <<5>>, "W")>>}

Texts ==
  {Text(minus, TRUE, <<>>, TRUE, time) :
     minus \in BOOLEAN, time \in Fractions \cup MalformedTimes \cup {<<C(0, "S")>>}}
    \cup {Text(FALSE, TRUE, <<>>, TRUE, time) : time \in Times}
    \cup {Text(minus, TRUE, date, FALSE, <<>>) : minus \in BOOLEAN, date \in Dates}
    \cup {Text(FALSE, TRUE, date, TRUE, <<C(61, "M")>>) : date \in Dates}
    \cup {Text(FALSE, FALSE, <<>>, TRUE, <<C(1, "H")>>)}

MCOffsets ==
  {[negative |-> n, span |-> [ZeroDuration EXCEPT !.days = d, !.hours = h, !.minutes = m,
                                                  !.seconds = s, !.nanos = f]] :
     n \in BOOLEAN, d \in {0, 1}, h \in {0, 3}, m \in {0, 61}, s \in {0, 3601}, f \in {0, 5, 50}}
    \cup {[negative |-> TRUE, span |-> [ZeroDuration EXCEPT !.weeks = 1, !.days = d]] :
            d \in {0, 1}}

-----------------------------------------------------------------------------
Noon(year, month, day) == DT(year, month, day, 12, 0, 0)

MCWhens ==
  {Noon(y, m, d) : y \in {1900, 2000, 2023, 2024, 2025}, m \in {2}, d \in {28, 29, 30}}
    \cup {Noon(2024, m, d) : m \in {0, 1, 4, 12, 13}, d \in {0, 1, 30, 31, 32}}
    \cup {Noon(y, 1, 1) : y \in {0, 1, 9999, 10000}}
    \cup {DT(2024, 12, 31, h, m, s) : h \in {0, 23, 24}, m \in {0, 59, 60}, s \in {0, 59, 60}}

MCInstants ==
  {[day |-> DaysBeforeYear(y) + d, second |-> s] :
     y \in {2000, 2024}, d \in {0, 1, 59, 60, 366}, s \in {0, 86399}}

WhenTexts ==
  {DTText(<<dt.year, dt.month, dt.day, dt.hour, dt.minute, dt.second>>, TRUE, TRUE) :
     dt \in {w \in MCWhens : w.year < 10000}}
    \cup {DTText(<<2024, 1, 1, 0, 0, 0>>, shaped, z) : shaped, z \in BOOLEAN}
    \cup {DTText(<<2024, 1, NotDigits, 0, 0, 0>>, TRUE, TRUE)}

MCMembers ==
  {Absent, Null, NotObject}
    \cup {Object("OffsetTrigger", o, Absent, Absent, {}) : o \in Texts \cup {Absent, Null, NotText}}
    \cup {Object("AbsoluteTrigger", Absent, Absent, w, {}) : w \in WhenTexts \cup {Absent, Null, NotText}}
    \cup {Object(t, Text(FALSE, TRUE, <<>>, TRUE, <<C(1, "H")>>), r, w, o) :
            t \in {"OffsetTrigger", "AbsoluteTrigger", "x", Absent, Null, NotText},
            r \in {"end", Null, NotText}, w \in {Absent, NotText}, o \in {{}, {"x"}}}

MCAnchors == {"", "end"}

=============================================================================
