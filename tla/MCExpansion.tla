---------------------------- MODULE MCExpansion ----------------------------
(***************************************************************************)
(* The instances TLC expands: three days of four time units, a zone that   *)
(* skips wall clock 5, one that repeats it, one east of UTC that skips it, *)
(* one that skips the last unit of a day, a fixed custom zone and floating *)
(* time; a daily, a two-instance, an every-other-day and an hourly rule;   *)
(* overrides that exclude, move, add, retitle, remove and break; and a     *)
(* master for each way a call is refused.                                  *)
(***************************************************************************)
EXTENDS Expansion

CONSTANTS West, Fold, East, Late, Unknown, CustomFixed, CustomDst, CustomBad, BadKey

MCTzDatabase ==
  [z \in {West, Fold, East, Late} |->
     CASE z = West -> [at |-> 7, before |-> -2, after |-> -1]
       [] z = Fold -> [at |-> 7, before |-> -1, after |-> -2]
       [] z = East -> [at |-> 4, before |-> 1, after |-> 2]
       [] z = Late -> [at |-> 6, before |-> 1, after |-> 2]]

MCCustomIds == {CustomFixed, CustomDst, CustomBad}
MCHorizon   == 0 .. 11
MCBadKeys   == {BadKey}

TimeZones ==
  [z \in MCCustomIds |->
     CASE z = CustomFixed -> {1}
       [] z = CustomDst   -> {1, 2}
       [] z = CustomBad   -> {1, Malformed}]

Daily ==
  [frequency |-> "daily", interval |-> 0, count |-> None, until |-> None,
   byHour |-> {}, unsupported |-> {}]
EveryOther  == [Daily EXCEPT !.interval = 2]
Twice       == [Daily EXCEPT !.count = 2]
ZeroTimes   == [Daily EXCEPT !.count = 0]
Hourly      == [Daily EXCEPT !.frequency = "hourly", !.byHour = {1, 2}, !.until = 9]
Unsupported == [Daily EXCEPT !.unsupported = {"rscale"}]
UnknownFreq == [Daily EXCEPT !.frequency = "fortnightly"]

NoOverrides == [k \in {} |-> <<>>]
NoPatch     == [p \in {} |-> <<>>]
Set(p, v)   == [q \in {p} |-> v]
Over(k, patch) == [l \in {k} |-> patch]
Both(f, g) == [k \in DOMAIN f \cup DOMAIN g |-> IF k \in DOMAIN f THEN f[k] ELSE g[k]]

Master ==
  [start |-> 1, recurrenceId |-> Absent, recurrenceIdTimeZone |-> Absent,
   title |-> "series", timeZone |-> Floating, timeZones |-> TimeZones,
   rules |-> <<Daily>>, excluded |-> <<>>, overrides |-> NoOverrides]

Exclude == Set("excluded", "true")
Keep    == Both(Set("excluded", "false"), Set("title", Null))
Move    == Both(Set("start", 11), Set("title", "moved"))
Nest    == Both(Set("recurrenceRules", "weekly"), Set("excludedRecurrenceRules", Null))
Dangle  == Both(Set("dangling", "x"), Set("title", "lost"))

OverrideMaps ==
  {NoOverrides, Over(1, Exclude), Over(5, Move), Over(3, NoPatch),
   Both(Over(4, Keep), Over(5, Exclude)),
   Both(Over(5, Exclude), Both(Over(9, Move), Over(6, Keep))),
   Over(5, Dangle), Over(2, Set("start", Junk)),
   Both(Over(5, Nest), Over(9, Both(Set("recurrenceOverrides", "inner"), Nest)))}

Recurring ==
  {[Master EXCEPT !.timeZone = z, !.start = st, !.rules = rs, !.excluded = xs,
                  !.overrides = ov] :
     z \in {Floating, West, Fold, East, CustomFixed}, st \in {1, 5},
     rs \in {<<>>, <<Daily>>, <<Twice>>, <<ZeroTimes>>, <<EveryOther, Hourly>>},
     xs \in {<<>>, <<EveryOther>>, <<Twice, Hourly>>}, ov \in OverrideMaps}

Refused ==
  {[Master EXCEPT !.start = Absent], [Master EXCEPT !.start = Junk],
   [Master EXCEPT !.timeZone = Unknown], [Master EXCEPT !.timeZone = CustomDst],
   [Master EXCEPT !.timeZone = CustomBad],
   [Master EXCEPT !.timeZone = CustomFixed, !.timeZones = [z \in {} |-> {}]],
   [Master EXCEPT !.rules = <<Daily, Unsupported>>],
   [Master EXCEPT !.rules = <<UnknownFreq>>],
   [Master EXCEPT !.excluded = <<Twice, Unsupported>>],
   [Master EXCEPT !.overrides = Both(Over(BadKey, Exclude), Over(5, Keep))],
   [Master EXCEPT !.rules = <<>>, !.recurrenceId = 3]}

(***************************************************************************)
(* Masters whose hour is skipped into the next day.                        *)
(***************************************************************************)
SkippedIntoNextDay ==
  {[Master EXCEPT !.timeZone = Late, !.start = 3, !.rules = rs, !.overrides = ov] :
     rs \in {<<Daily>>, <<Twice>>}, ov \in {NoOverrides, Over(7, Exclude), Over(8, Exclude)}}

MCSeries  == Recurring \cup Refused \cup SkippedIntoNextDay
MCWindows == {[from |-> 0, until |-> 20], [from |-> 2, until |-> 6],
              [from |-> 4, until |-> 4]}

(***************************************************************************)
(* Masters for the statement the code does not keep.                       *)
(***************************************************************************)
GapSeries ==
  {[Master EXCEPT !.timeZone = z, !.start = st] :
     z \in {West, Fold, East}, st \in {1, 5}}

=============================================================================
