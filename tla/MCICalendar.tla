---------------------------- MODULE MCICalendar ----------------------------
(***************************************************************************)
(* Objects and components that differ from a plain one in one group of     *)
(* fields at a time, the time fields in every combination; alone, in pairs *)
(* that share zones, and in nested groups.  A day has ten units; Paris     *)
(* skips a wall clock at 52, Lima repeats one at 55.                       *)
(***************************************************************************)
EXTENDS ICalendarProperties

\* A text with a comma, and what it becomes when it is escaped once and
\* twice: two rounds escape nothing more often.
CommaLower == <<"x,y", "x\\,y", "x\\\\\\,y">>
CommaUpper == <<"X,Y", "X\\,Y", "X\\\\\\,Y">>
CommaTokens == ToSet(CommaLower) \cup ToSet(CommaUpper)
Escapes(t) == CHOOSE i \in 1 .. 3 : t \in {CommaLower[i], CommaUpper[i]}

MCUpper ==
  [t \in {"weekly", "WEEKLY"} |-> "WEEKLY"] @@ [t \in {"mo", "MO"} |-> "MO"]
    @@ [t \in {"public", "PUBLIC"} |-> "PUBLIC"] @@ [t \in {"private", "Private", "PRIVATE"} |-> "PRIVATE"]
    @@ ("secret" :> "SECRET") @@ [t \in {"confidential", "CONFIDENTIAL"} |-> "CONFIDENTIAL"]
    @@ [t \in {"x", "X"} |-> "X"] @@ [t \in {"display", "DISPLAY"} |-> "DISPLAY"]
    @@ ("SECRET" :> "SECRET") @@ [t \in CommaTokens |-> CommaUpper[Escapes(t)]]

MCLower ==
  [t \in {"weekly", "WEEKLY"} |-> "weekly"] @@ [t \in {"mo", "MO"} |-> "mo"]
    @@ [t \in {"public", "PUBLIC"} |-> "public"] @@ [t \in {"private", "Private", "PRIVATE"} |-> "private"]
    @@ [t \in {"secret", "SECRET"} |-> "secret"] @@ [t \in {"confidential", "CONFIDENTIAL"} |-> "confidential"]
    @@ [t \in {"x", "X"} |-> "x"] @@ [t \in {"display", "DISPLAY"} |-> "display"]
    @@ [t \in CommaTokens |-> CommaLower[Escapes(t)]]

MCQuoted ==
  LET next(t) == IF Escapes(t) = 3 THEN 3 ELSE Escapes(t) + 1
  IN  [t \in CommaTokens |->
         IF t \in ToSet(CommaLower) THEN CommaLower[next(t)] ELSE CommaUpper[next(t)]]
        @@ [t \in DOMAIN MCUpper |-> t]

Paris == <<"Paris">>
Lima == <<"Lima">>
Zulu == <<"Etc/UTC">>
A == <<"A">>
B == <<"B">>
CommaA == <<"A", "comma">>
SlashA == <<"slash", "A">>

MCTzDatabase ==
  (Zulu :> FixedZone(0)) @@ (Paris :> [at |-> 51, before |-> 1, after |-> 2])
    @@ (Lima :> [at |-> 58, before |-> -2, after |-> -3])

MCOrdinals == <<"1", "2", "3", "4", "5", "6", "7", "8", "9", "10">>
Custom(id) == <<"slash">> \o id
MCIdOrder ==
  <<"1", "10", "2", "3", "4", "5", "6", "7", "8", "9", "a">>
MCZoneOrder == <<SlashA, Custom(CommaA), Custom(B), Custom(Paris), <<"slash", "A", "escape", "comma">>>>
MCSpecial == {"comma", "escape"}
MCFloating == <<>>

-----------------------------------------------------------------------------
Rule(fields) == fields @@ NoRule
Weekly == Rule("FREQ" :> "weekly")
Rules ==
  {Weekly, Rule(("FREQ" :> "weekly") @@ ("COUNT" :> "0")), Rule(("FREQ" :> "weekly") @@ ("INTERVAL" :> "1")),
   Rule(("FREQ" :> "WEEKLY") @@ ("WKST" :> "MO")), Rule(("FREQ" :> "x") @@ ("BYDAY" :> "tu") @@ ("UNTIL" :> "70")),
   NoRule}
Offset1 == [hours |-> 1, form |-> "extended"]
ZoneRule(rules) == [start |-> 0, offset |-> Offset1, rules |-> rules]
TZ(id, rules) == [tzId |-> id, standard |-> <<ZoneRule(rules)>>, daylight |-> <<ZoneRule(<<Weekly>>)>>]

Plain ==
  [kind |-> "Event", uid |-> "u", title |-> Absent, sequence |-> 0, created |-> Absent,
   updated |-> "t1", privacy |-> Absent, keywords |-> Empty, locations |-> Empty,
   participants |-> Empty, links |-> Empty, alerts |-> Empty, start |-> 45, due |-> Absent,
   timeZone |-> Paris, allDay |-> FALSE, duration |-> Absent, percent |-> Absent,
   status |-> Absent, rules |-> <<>>, excluded |-> <<>>, timeZones |-> Empty]

Person(address, email, roles) == [imip |-> address, email |-> email, name |-> "x", roles |-> roles]
Owner == Person(Mailto("e"), "e", {"owner"})
Guest == Person(<<"web", "x">>, Absent, {"attendee"})
Crowd == [id \in ToSet(SubSeq(MCOrdinals, 2, 10)) |-> [Guest EXCEPT !.name = id]]
Peoples ==
  {Empty, ("1" :> Owner) @@ ("2" :> Guest) @@ ("3" :> [Guest EXCEPT !.name = Absent]), ("2" :> Guest),
   ("2" :> Owner) @@ ("a" :> Owner), ("1" :> Guest), ("1" :> Person(Absent, "e", {"owner", "chair"})),
   ("1" :> Person(Absent, Absent, {"owner"})) @@ ("2" :> Guest), Crowd}

OffsetTrigger(related) == [absolute |-> FALSE, value |-> 5, related |-> related]
AbsoluteTrigger == [absolute |-> TRUE, value |-> 40, related |-> Absent]
Alert(action, trigger) == [action |-> action, trigger |-> trigger]
MCAlerts ==
  {Empty, ("1" :> Alert("display", OffsetTrigger("end"))) @@ ("2" :> Alert("x", AbsoluteTrigger)),
   ("1" :> Alert(Absent, OffsetTrigger("start"))), ("1" :> Alert("X", Raw)),
   ("1" :> Alert("x,y", AbsoluteTrigger)), ("a" :> Alert("x", Absent))}

Hour(n) == Duration(0, n)

Details ==
  {[Plain EXCEPT !.title = t, !.sequence = n, !.created = c, !.updated = u] :
     t \in {Absent, "x", "ctl"}, n \in {0, 2}, c \in {Absent, "t1"}, u \in {Absent, "t1"}}
    \cup {[Plain EXCEPT !.privacy = p, !.status = s] :
            p \in {Absent, "public", "private", "Private", "secret", "confidential", "x", "x,y"},
            s \in {Absent, "x", "X", "x,y"}}
    \cup {[Plain EXCEPT !.participants = p, !.alerts = a] : p \in Peoples, a \in MCAlerts}
    \cup {[Plain EXCEPT !.locations = l, !.links = k] :
            l \in {Empty, ("1" :> "x"), ("1" :> Absent) @@ ("a" :> "x"), ("1" :> "x") @@ ("2" :> "y")},
            k \in {Empty, ("1" :> "x"), ("2" :> "x")}}
    \cup {[Plain EXCEPT !.keywords = k] : k \in {("x" :> TRUE), ("x" :> TRUE) @@ ("y" :> FALSE), ("ctl" :> TRUE)}}
    \cup {[Plain EXCEPT !.rules = <<r>>, !.excluded = e] : r \in Rules, e \in {<<>>, <<Weekly>>, <<NoRule>>}}

Times ==
  {[Plain EXCEPT !.kind = "Event", !.start = s, !.timeZone = z, !.allDay = d, !.duration = n] :
     s \in {Absent, 40, 45}, z \in {<<>>, Zulu, Paris, B, Custom(A)}, d \in BOOLEAN,
     n \in {Absent, Hour(0), Hour(3)}}
    \cup {[Plain EXCEPT !.kind = "Task", !.start = s, !.due = e, !.timeZone = z, !.allDay = d, !.percent = n] :
     s \in {Absent, 40, 45}, e \in {Absent, 50, 55}, z \in {<<>>, Zulu, Lima, B, Custom(A)},
     d \in BOOLEAN, n \in {Absent, 0}}

Zoned(id, key, rules) ==
  [Plain EXCEPT !.timeZone = key, !.timeZones = (key :> TZ(id, rules))]

ZonedObjects ==
  {Zoned(A, Custom(A), <<Weekly>>), Zoned(A, Custom(A), <<Weekly, Weekly>>), Zoned(A, Custom(A), <<>>),
   Zoned(B, Custom(A), <<>>), Zoned(B, Custom(B), <<>>), Zoned(B, Custom(B), <<NoRule>>),
   [Zoned(B, Custom(B), <<>>) EXCEPT !.kind = "Task", !.start = Absent, !.due = 50],
   Zoned(Paris, Custom(Paris), <<>>), Zoned(CommaA, Custom(CommaA), <<>>),
   [Zoned(A, Custom(A), <<>>) EXCEPT !.timeZone = A], [Zoned(B, Custom(B), <<>>) EXCEPT !.timeZone = Lima],
   [Zoned(A, Custom(A), <<>>) EXCEPT !.timeZones = (Custom(A) :> TZ(A, <<>>)) @@ (Custom(B) :> TZ(B, <<>>))],
   Zoned(CommaA, Escaped(Custom(CommaA)), <<>>), Zoned(Custom(Paris), Custom(Custom(Paris)), <<>>),
   [Plain EXCEPT !.timeZone = <<"A", "ctl">>], [Plain EXCEPT !.timeZone = Custom(SlashA)]}

\* An object with a comma in everything that is written as a TEXT and read raw.
CommaObject ==
  [Zoned(CommaA, Custom(CommaA), <<>>) EXCEPT
     !.privacy = "x,y", !.status = "x,y", !.alerts = ("1" :> Alert("x,y", AbsoluteTrigger))]

MCEscapedArguments == {<<CommaObject>>}

MCChars == {"slash", "A", "B", "comma", "escape", "ctl", "Paris", "Lima", "Etc/UTC"}

Other == [kind |-> "other"]
Group(entries) == [kind |-> "Group", entries |-> entries]

SomeObjects ==
  ZonedObjects \cup {[Plain EXCEPT !.kind = "Task", !.due = 50], [Plain EXCEPT !.timeZone = A], Other}

Singles == Details \cup Times \cup ZonedObjects \cup {Plain, CommaObject, Other}
Inner == {Group(<<p>>) : p \in {Plain, Zoned(B, Custom(B), <<>>)}}
Outer == {Group(<<o, p>>) : o \in {Plain, Zoned(A, Custom(A), <<>>), Other}, p \in Inner}
MCItems == Singles \cup SomeObjects \cup Inner \cup Outer \cup {Group(<<>>)}

MCArguments ==
  {<<o>> : o \in Singles} \cup {<<o, p>> : o, p \in SomeObjects}
    \cup {<<o, q>> : o \in Outer, q \in {Plain, Zoned(A, Custom(A), <<>>), Other}}
    \cup {<<>>, <<Group(<<>>)>>}

-----------------------------------------------------------------------------
Prop(wall, tzid) == DateProp(wall, FALSE, FALSE, tzid)
Starts ==
  {Absent, Prop(45, Paris), Prop(45, Lima), Prop(45, A), Prop(45, B), Prop(45, <<>>), Prop(Malformed, Paris),
   DateProp(45, FALSE, TRUE, <<>>), DateProp(45, FALSE, TRUE, A), DateProp(40, TRUE, FALSE, <<>>)}
Ends ==
  {Absent, Prop(56, Paris), Prop(52, Paris), Prop(30, Paris), Prop(56, Lima), Prop(56, A), Prop(50, <<>>),
   DateProp(48, FALSE, TRUE, <<>>), DateProp(60, TRUE, FALSE, <<>>), Prop(Malformed, Paris)}

PlainComp ==
  [Exported(Plain) EXCEPT !.stamp = "t1", !.modified = Absent]

Part1(key, value) == <<Part("FREQ", "WEEKLY"), Part(key, value)>>

PartSeqs ==
  {Part1("X-OTHER", "1"), Part1("INTERVAL", "0"), Part1("COUNT", BadValue), Part1(NoEquals, Unset),
   <<Part("COUNT", "1")>>, Part1("FREQ", "X"), Part1("WKST", Unset)}

Comps ==
  {[PlainComp EXCEPT !.name = n, !.start = s, !.end = IF n = "VEVENT" THEN e ELSE Absent,
                     !.due = IF n = "VTODO" THEN e ELSE Absent, !.duration = d] :
     n \in {"VEVENT", "VTODO"}, s \in Starts, e \in Ends, d \in {Absent, Hour(2), Malformed}}
    \cup {[PlainComp EXCEPT !.sequence = n, !.created = c, !.modified = m, !.stamp = s] :
            n \in {0, 3, Malformed}, c \in {Absent, Malformed}, m, s \in {Absent, "t2", Malformed}}
    \cup {[PlainComp EXCEPT !.rrules = <<r>>, !.exrules = e] :
            r \in PartSeqs, e \in {<<>>, <<<<Part("FREQ", "X")>>>>, <<Part1("COUNT", BadValue)>>}}
    \cup {[PlainComp EXCEPT !.class = c, !.percent = p, !.name = n] :
            c \in {"Private", "SECRET", "CONFIDENTIAL"}, p \in {Absent, 0, Malformed}, n \in {"VEVENT", "VTODO"}}
    \cup {[PlainComp EXCEPT !.alarms = <<[action |-> a, trigger |-> t]>>, !.organizer = o] :
            a \in {Absent, "DISPLAY", "x"}, o \in {Absent, [address |-> Absent, name |-> "x"]},
            t \in {Absent, OffsetTrigger("END"), OffsetTrigger("START"), [OffsetTrigger(Absent) EXCEPT !.value = Malformed]}}

ZoneComp(id, sub, start, rrules) ==
  [name |-> "VTIMEZONE", tzid |-> id,
   subs |-> <<[name |-> "DAYLIGHT", start |-> 0, offset |-> [hours |-> 1, form |-> "basic"], rrules |-> <<>>],
              [name |-> sub, start |-> start, offset |-> Absent, rrules |-> rrules]>>]

ZoneComps ==
  {ZoneComp(id, "STANDARD", 0, <<<<Part("FREQ", "WEEKLY")>>>>) : id \in {A, SlashA, CommaA, Paris}}
    \cup {ZoneComp(A, sub, s, r) : sub \in {"STANDARD", "X-SUB"}, s \in {1, Malformed},
                                   r \in {<<>>, <<<<Part("FREQ", "X")>>, Part1("COUNT", BadValue)>>,
                                          <<Part1("COUNT", BadValue)>>}}

MCCalendars ==
  {<<c>> : c \in Comps}
    \cup {<<z, c, [name |-> "VJOURNAL"]>> :
            z \in ZoneComps, c \in {[PlainComp EXCEPT !.start = Prop(45, id)] : id \in {A, B, SlashA, CommaA, Paris}}}
    \cup {<<y, [PlainComp EXCEPT !.name = "VTODO", !.start = Absent, !.due = Prop(45, A)], z>> : y, z \in ZoneComps}

=============================================================================
