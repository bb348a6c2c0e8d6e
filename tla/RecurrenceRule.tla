--------------------------- MODULE RecurrenceRule ---------------------------
(***************************************************************************)
(* One recurrence rule, from its JSCalendar form to the instants it        *)
(* produces: the translation of recur/rrule.go and, as an external part,   *)
(* what the rrule-go engine does with the translated options.              *)
(*                                                                         *)
(* A rule is a record: its frequency, interval, count and until, the hours *)
(* byHour keeps ({} when absent), and `unsupported`, the names of its      *)
(* parts that buildROption refuses (a foreign rscale, an unknown weekday,  *)
(* a leap month).  byDay, byMonth and the other filters narrow the         *)
(* candidates as byHour does and are not told apart from it.               *)
(***************************************************************************)
EXTENDS WallClock, FiniteSets

CONSTANTS
  Horizon,    \* the wall-clock values a rule is unrolled over
  DayLength,  \* time units in a day
  None        \* an absent optional member

ASSUME HorizonAssumption ==
  /\ Horizon \subseteq Int
  /\ IsFiniteSet(Horizon)
  /\ DayLength \in Nat \ {0}
  /\ None \notin Int

Frequencies == {"daily", "hourly"}

Rule ==
  [frequency : STRING, interval : Nat, count : Nat \cup {None},
   until : Int \cup {None}, byHour : SUBSET Nat, unsupported : SUBSET STRING]

Day(lt)  == lt \div DayLength
Hour(lt) == lt % DayLength

-----------------------------------------------------------------------------
(***************************************************************************)
(* buildROption: the errors, then the options.  A zero interval stands for *)
(* the default, an absent count for rrule-go's 0, and until is resolved in *)
(* the location dtstart carries.                                           *)
(***************************************************************************)
Buildable(rule) ==
  /\ rule.unsupported = {}
  /\ rule.frequency \in Frequencies

ROptionUncounted(rule, loc) ==
  [freq     |-> rule.frequency,
   interval |-> IF rule.interval > 0 THEN rule.interval ELSE 1,
   count    |-> 0,
   until    |-> IF rule.until = None THEN None ELSE Place(loc, rule.until),
   byHour   |-> rule.byHour]

ROption(rule, loc) ==
  [freq     |-> rule.frequency,
   interval |-> IF rule.interval > 0 THEN rule.interval ELSE 1,
   count    |-> IF rule.count = None THEN 0 ELSE rule.count,
   until    |-> IF rule.until = None THEN None ELSE Place(loc, rule.until),
   byHour   |-> rule.byHour]

(***************************************************************************)
(* The engine (external).  Candidates are wall-clock values counted from   *)
(* dtstart's own wall clock; each is placed with time.Date, those before   *)
(* dtstart or after until are dropped, and a non-zero count keeps the      *)
(* first ones.                                                             *)
(***************************************************************************)
OnInterval(opt, first, lt) ==
  CASE opt.freq = "daily"  -> (Day(lt) - Day(first)) % opt.interval = 0
    [] opt.freq = "hourly" -> (lt - first) % opt.interval = 0

AtHour(opt, first, lt) ==
  IF opt.byHour # {} THEN Hour(lt) \in opt.byHour
  ELSE opt.freq = "daily" => Hour(lt) = Hour(first)

Candidates(opt, loc, dtstart) ==
  LET first == Wall(loc, dtstart)
  IN  {lt \in Horizon :
         /\ OnInterval(opt, first, lt)
         /\ AtHour(opt, first, lt)
         /\ dtstart <= Place(loc, lt)
         /\ opt.until # None => Place(loc, lt) <= opt.until}

Counted(candidates, count) ==
  {lt \in candidates :
     count = 0 \/ Cardinality({m \in candidates : m <= lt}) <= count}

Nominal(rule, loc, dtstart) ==
  LET opt == ROption(rule, loc)
  IN  Counted(Candidates(opt, loc, dtstart), opt.count)

InstantsByElapsed(rule, loc, dtstart) ==
  {dtstart + lt - Wall(loc, dtstart) : lt \in Nominal(rule, loc, dtstart)}

Instants(rule, loc, dtstart) ==
  {Place(loc, lt) : lt \in Nominal(rule, loc, dtstart)}

(***************************************************************************)
(* RRule.Between(from, until, inc = true): both ends belong.               *)
(***************************************************************************)
Between(instants, from, until) == {t \in instants : from <= t /\ t <= until}

=============================================================================
