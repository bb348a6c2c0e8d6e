-------------------------- MODULE ExpansionProofs --------------------------
(***************************************************************************)
(* Proofs about Expansion: its type invariant, the closed form of the set  *)
(* under construction, the verdict, and the refinement of RecurrenceSet.   *)
(***************************************************************************)
EXTENDS Expansion, FiniteSetTheorems, TLAPS

-----------------------------------------------------------------------------
(***************************************************************************)
(* Placing a wall clock and reading one give integers.                     *)
(***************************************************************************)
LEMMA ClockTypes ==
  ASSUME NEW l \in Location, NEW x \in Int
  PROVE  Offset(l, x) \in Int /\ Place(l, x) \in Int /\ Wall(l, x) \in Int
<1>1. \A y \in Int : Offset(l, y) \in Int
  BY DEF Offset, Location
<1>2. x - Offset(l, x) \in Int
  BY <1>1
<1>3. QED
  BY <1>1, <1>2 DEF Place, Wall

(***************************************************************************)
(* timeToLocal(localToTime(lt)) may be another wall clock than lt, when lt *)
(* is skipped, but it is placed on the same instant: a recurrence id read  *)
(* back from an instant denotes that instant.                              *)
(***************************************************************************)
LEMMA PlaceStable ==
  ASSUME NEW l \in Location, NEW lt \in Int
  PROVE  Place(l, Wall(l, Place(l, lt))) = Place(l, lt)
BY DEF Place, Wall, Offset, Location

(***************************************************************************)
(* resolveLocation yields a location.                                      *)
(***************************************************************************)
LEMMA ResolvedLocation ==
  ASSUME NEW s \in Series, Resolvable(s.timeZone, s.timeZones)
  PROVE  Loc(s) \in Location
<1>1. \A o \in Int : FixedZone(o) \in Location
  BY DEF FixedZone, Location
<1>2. CASE s.timeZone = Floating
  BY <1>1, <1>2 DEF Loc, Resolve, UTC
<1>3. CASE s.timeZone # Floating /\ s.timeZone \in DOMAIN TzDatabase
  BY <1>3, ZoneAssumption DEF Loc, Resolve
<1>4. CASE s.timeZone # Floating /\ s.timeZone \notin DOMAIN TzDatabase
  <2>1. PICK o \in s.timeZones[s.timeZone] :
          o # Malformed /\ s.timeZones[s.timeZone] = {o}
    BY <1>4 DEF Resolvable, IsFixed
  <2>2. o \in Int
    BY <1>4, <2>1, SeriesAssumption DEF Resolvable
  <2>3. (CHOOSE p \in s.timeZones[s.timeZone] : TRUE) = o
    BY <2>1
  <2>4. Loc(s) = FixedZone(o)
    BY <1>4, <2>3 DEF Loc, Resolve
  <2>5. QED
    BY <1>1, <2>2, <2>4
<1>5. QED
  BY <1>2, <1>3, <1>4

(***************************************************************************)
(* The instants of a rule are placed wall clocks.                          *)
(***************************************************************************)
LEMMA InstantsPlaced ==
  ASSUME NEW rule, NEW l, NEW start
  PROVE  Instants(rule, l, start) \subseteq {Place(l, lt) : lt \in Horizon}
<1>1. Nominal(rule, l, start) \subseteq Horizon
  BY DEF Nominal, Counted, Candidates
<1>2. QED
  BY <1>1 DEF Instants

LEMMA InstantsStable ==
  ASSUME NEW rule, NEW l \in Location, NEW start,
         NEW t \in Instants(rule, l, start)
  PROVE  t \in Int /\ Wall(l, t) \in Int /\ Place(l, Wall(l, t)) = t
<1>1. PICK lt \in Horizon : t = Place(l, lt)
  BY InstantsPlaced
<1>2. lt \in Int
  BY HorizonAssumption
<1>3. QED
  BY <1>1, <1>2, ClockTypes, PlaceStable

(***************************************************************************)
(* Inside the window, the keys the code computes for a rule, with its      *)
(* inclusive Between, are the ids the rule gives over the whole series:    *)
(* neither end of Between matters to what survives the clip.               *)
(***************************************************************************)
LEMMA KeysAreIds ==
  ASSUME loc \in Location, window \in Windows, NEW rule, NEW lt,
         InWindow(Place(loc, lt), window.from, window.until)
  PROVE  /\ lt \in KeysOfRule(rule) <=> lt \in Ids(series, rule)
         /\ lt \in KeysOfExcluded(rule) <=> lt \in Ids(series, rule)
<1> DEFINE all == Instants(rule, loc, dtstart)
<1>1. window.from \in Int /\ window.until \in Int
  BY SeriesAssumption
<1>2. Ids(series, rule) = {Wall(loc, t) : t \in all}
  BY DEF Ids, loc, dtstart
<1>3. \A t \in all : lt = Wall(loc, t) => InWindow(t, window.from, window.until)
  BY InstantsStable
<1>4. \A t \in all : InWindow(t, window.from, window.until) => t \in BetweenOf(rule)
  BY <1>1, InstantsStable DEF BetweenOf, Between, InWindow
<1>5. BetweenOf(rule) \subseteq all
  BY DEF BetweenOf, Between
<1>6. KeysOfRule(rule) \subseteq Ids(series, rule)
  BY <1>2, <1>5 DEF KeysOfRule
<1>7. KeysOfExcluded(rule) \subseteq Ids(series, rule)
  BY <1>2, <1>5 DEF KeysOfExcluded
<1>8. ASSUME lt \in Ids(series, rule)
      PROVE  lt \in KeysOfRule(rule) /\ lt \in KeysOfExcluded(rule)
  <2>1. PICK t \in all : lt = Wall(loc, t)
    BY <1>2, <1>8
  <2>2. InWindow(t, window.from, window.until) /\ t \in BetweenOf(rule)
    BY <1>3, <1>4, <2>1
  <2>3. QED
    BY <2>1, <2>2 DEF KeysOfRule, KeysOfExcluded
<1>9. QED
  BY <1>6, <1>7, <1>8

(***************************************************************************)
(* The keys of a rule are finitely many integers.                          *)
(***************************************************************************)
LEMMA KeysAreInts ==
  ASSUME loc \in Location, NEW rule
  PROVE  KeysOfRule(rule) \subseteq Int /\ IsFiniteSet(KeysOfRule(rule))
<1> DEFINE read == [lt \in Horizon |-> Wall(loc, Place(loc, lt))]
           all  == {read[lt] : lt \in Horizon}
<1>1. KeysOfRule(rule) \subseteq Int
  BY InstantsStable DEF KeysOfRule, BetweenOf, Between
<1>2. KeysOfRule(rule) \subseteq all
  <2>1. \A t \in Instants(rule, loc, dtstart) : \E lt \in Horizon : Wall(loc, t) = read[lt]
    BY InstantsPlaced
  <2>2. QED
    BY <2>1 DEF KeysOfRule, BetweenOf, Between
<1>3. read \in Surjection(Horizon, all)
  BY DEF Surjection
<1>4. IsFiniteSet(all)
  BY <1>3, HorizonAssumption, FS_Surjection
<1>5. QED
  BY <1>1, <1>2, <1>4, FS_Subset

-----------------------------------------------------------------------------
(***************************************************************************)
(* The zone of a call that got past resolveLocation.                       *)
(***************************************************************************)
Anchored ==
  /\ series \in Series
  /\ window \in Windows
  /\ series.start \in Int
  /\ loc \in Location

LEMMA PastZone ==
  ASSUME TypeOK, Verdict, phase \notin {"master", "zone", "failed"}
  PROVE  Anchored
<1>1. series.start \in Int
  BY SeriesAssumption DEF TypeOK, Verdict, HasStart, Marshals
<1>2. loc \in Location
  BY ResolvedLocation DEF TypeOK, Verdict, loc
<1>3. QED
  BY <1>1, <1>2 DEF Anchored, TypeOK

(***************************************************************************)
(* The lengths the loops run to.                                           *)
(***************************************************************************)
LEMMA Lengths ==
  ASSUME series \in Series
  PROVE  Len(series.rules) \in Nat /\ Len(series.excluded) \in Nat
BY SeriesAssumption

(***************************************************************************)
(* The set at the end of the override loop, clipped to the window, is the  *)
(* recurrence set of the request.                                          *)
(***************************************************************************)
LEMMA ClippedSet ==
  ASSUME Anchored, pending = {}
  PROVE  Visible(series, window, AfterOverrides) = RecurrenceIds(series, window)
<1> DEFINE in(lt) == InWindow(Place(loc, lt), window.from, window.until)
<1> DEFINE R == AfterRules(Len(series.rules) + 1)
<1> DEFINE X == UNION {KeysOfExcluded(series.excluded[i]) :
                         i \in 1 .. Len(series.excluded) + 1 - 1}
<1>1. /\ Len(series.rules) + 1 - 1 = Len(series.rules)
      /\ Len(series.excluded) + 1 - 1 = Len(series.excluded)
  BY Lengths DEF Anchored
<1>2. \A lt : in(lt) => (lt \in R <=> lt \in Regular(series))
  <2> SUFFICES ASSUME NEW lt, in(lt)
               PROVE  lt \in R <=> lt \in Regular(series)
    OBVIOUS
  <2>1. \A i \in 1 .. Len(series.rules) :
          lt \in KeysOfRule(series.rules[i]) <=> lt \in Ids(series, series.rules[i])
    BY KeysAreIds DEF Anchored
  <2>2. CASE series.rules = <<>>
    BY <2>2 DEF AfterRules, Regular
  <2>3. CASE series.rules # <<>>
    BY <1>1, <2>1, <2>3 DEF AfterRules, Regular
  <2>4. QED
    BY <2>2, <2>3
<1>3. \A lt : in(lt) => (lt \in X <=> lt \in Excluded(series))
  <2> SUFFICES ASSUME NEW lt, in(lt)
               PROVE  lt \in X <=> lt \in Excluded(series)
    OBVIOUS
  <2>1. \A i \in 1 .. Len(series.excluded) :
          lt \in KeysOfExcluded(series.excluded[i])
            <=> lt \in Ids(series, series.excluded[i])
    BY KeysAreIds DEF Anchored
  <2>2. QED
    BY <1>1, <2>1 DEF Excluded
<1>4. /\ Dropped(series) \cap Visited = Dropped(series)
      /\ Added(series) \cap Visited = Added(series)
  BY DEF Dropped, Added, Visited
<1>5. AfterOverrides = ((R \ X) \ Dropped(series)) \cup Added(series)
  BY <1>4 DEF AfterOverrides, AfterExcluded
<1> HIDE DEF R, X
<1>6. \A lt : in(lt) =>
        (lt \in AfterOverrides
           <=> lt \in ((Regular(series) \ Excluded(series)) \ Dropped(series))
                        \cup Added(series))
  BY <1>2, <1>3, <1>5
<1> DEFINE S == ((Regular(series) \ Excluded(series)) \ Dropped(series))
                  \cup Added(series)
<1>7. RecurrenceIds(series, window) = {lt \in S : in(lt)}
  BY DEF RecurrenceIds, Visible, loc
<1>8. Visible(series, window, AfterOverrides) = {lt \in AfterOverrides : in(lt)}
  BY DEF Visible, loc
<1> HIDE DEF S, in
<1>9. \A lt : in(lt) => (lt \in AfterOverrides <=> lt \in S)
  BY <1>6 DEF S
<1>10. QED
  BY <1>7, <1>8, <1>9

-----------------------------------------------------------------------------
(***************************************************************************)
(* The inductive invariant: the three invariants of the runs together.     *)
(* Typing needs the verdict (only a resolved zone places instants on       *)
(* integers), the verdict needs the closed forms (an error in the build    *)
(* loop is about an id of the recurrence set).                             *)
(***************************************************************************)
IInv == TypeOK /\ Construction /\ Verdict

LEMMA Initially == Init => IInv
<1> SUFFICES ASSUME Init PROVE IInv
  OBVIOUS
<1> USE DEF Init
<1>1. TypeOK
  BY FS_EmptySet DEF TypeOK, Phases
<1>2. Construction
  BY DEF Construction
<1>3. Verdict
  BY DEF Verdict
<1>4. QED
  BY <1>1, <1>2, <1>3 DEF IInv

(***************************************************************************)
(* An error keeps the invariant when the request has no answer.            *)
(***************************************************************************)
LEMMA FailKeeps ==
  ASSUME IInv, Fail, ~Answerable(series, window)
  PROVE  IInv'
<1> USE DEF Fail
<1>1. TypeOK'
  BY DEF IInv, TypeOK, Phases
<1>2. Construction'
  BY DEF Construction
<1>3. Answerable(series, window)' = Answerable(series, window)
  BY DEF Answerable, Usable, RecurrenceIds, Visible
<1>4. Verdict'
  BY <1>3 DEF Verdict
<1>5. QED
  BY <1>1, <1>2, <1>4 DEF IInv

(***************************************************************************)
(* One lemma per action.  Each action either fails for the cause it has    *)
(* just met, or extends the closed form of its phase by one index or key.  *)
(***************************************************************************)
LEMMA CheckMasterKeeps == IInv /\ CheckMaster => IInv'
<1> SUFFICES ASSUME IInv, CheckMaster PROVE IInv'
  OBVIOUS
<1>1. CASE HasStart(series) /\ Marshals(series)
  <2> USE <1>1 DEF CheckMaster
  <2>1. TypeOK'
    BY DEF IInv, TypeOK, Phases
  <2>2. Construction'
    BY DEF IInv, Construction
  <2>3. Verdict'
    BY DEF Verdict
  <2>4. QED
    BY <2>1, <2>2, <2>3 DEF IInv
<1>2. CASE ~(HasStart(series) /\ Marshals(series))
  BY <1>2, FailKeeps DEF CheckMaster, Answerable, Usable
<1>3. QED
  BY <1>1, <1>2

LEMMA ResolveZoneKeeps == IInv /\ ResolveZone => IInv'
<1> SUFFICES ASSUME IInv, ResolveZone PROVE IInv'
  OBVIOUS
<1>1. CASE Resolvable(series.timeZone, series.timeZones)
  <2> USE <1>1 DEF ResolveZone
  <2>1. series.start \in Int
    BY SeriesAssumption DEF IInv, TypeOK, Verdict, HasStart, Marshals
  <2>a. produced' \subseteq Int /\ IsFiniteSet(produced')
    BY <2>1, FS_EmptySet, FS_Singleton
  <2>2. TypeOK'
    BY <2>a DEF IInv, TypeOK, Phases
  <2>3. next = 1 /\ next - 1 = 0 /\ produced' = AfterRules(1)
    BY DEF IInv, Construction, AfterRules
  <2>4. AfterRules(1)' = AfterRules(1)
    BY DEF AfterRules, KeysOfRule, BetweenOf, loc, dtstart
  <2>5. Construction'
    BY <2>3, <2>4 DEF IInv, Construction
  <2>6. BuildableUpTo(series.rules, 0)
    BY DEF BuildableUpTo
  <2>7. Verdict'
    BY <2>3, <2>6 DEF IInv, Verdict
  <2>8. QED
    BY <2>2, <2>5, <2>7 DEF IInv
<1>2. CASE ~Resolvable(series.timeZone, series.timeZones)
  BY <1>2, FailKeeps DEF ResolveZone, Answerable, Usable
<1>3. QED
  BY <1>1, <1>2

LEMMA ExpandRuleKeeps == IInv /\ ExpandRule => IInv'
<1> SUFFICES ASSUME IInv, ExpandRule PROVE IInv'
  OBVIOUS
<1> DEFINE rule == series.rules[next]
<1>1. next \in 1 .. Len(series.rules) /\ next \in Nat /\ series.rules # <<>>
  BY Lengths DEF IInv, TypeOK, ExpandRule
<1>2. CASE Buildable(rule)
  <2>1. /\ phase = "rules"
        /\ produced' = produced \cup KeysOfRule(rule)
        /\ next' = next + 1
        /\ UNCHANGED <<series, window, phase, pending, patches, ids, out>>
    BY <1>2 DEF ExpandRule
  <2>2. produced' \subseteq Int /\ IsFiniteSet(produced')
    BY <2>1, PastZone, KeysAreInts, FS_Union DEF IInv, TypeOK, Anchored
  <2>3. next' \in Nat \ {0} /\ next' \in 1 .. Len(series.rules) + 1
    BY <1>1, <2>1
  <2>4. TypeOK'
    BY <2>1, <2>2, <2>3 DEF IInv, TypeOK
  <2>5. AfterRules(next + 1) = AfterRules(next) \cup KeysOfRule(rule)
    <3>1. 1 .. next + 1 - 1 = (1 .. next - 1) \cup {next}
      BY <1>1
    <3>2. QED
      BY <1>1, <3>1 DEF AfterRules
  <2>6. \A n : AfterRules(n)' = AfterRules(n)
    BY <2>1 DEF AfterRules, KeysOfRule, BetweenOf, loc, dtstart
  <2>7. produced' = AfterRules(next)'
    BY <2>1, <2>5, <2>6 DEF IInv, Construction
  <2>8. Construction'
    BY <2>1, <2>3, <2>7 DEF IInv, Construction
  <2>9. BuildableUpTo(series.rules, next - 1)'
    BY <1>1, <1>2, <2>1 DEF IInv, Verdict, BuildableUpTo
  <2>10. Verdict'
    BY <2>1, <2>9 DEF IInv, Verdict
  <2>11. QED
    BY <2>4, <2>8, <2>10 DEF IInv
<1>3. CASE ~Buildable(rule)
  BY <1>1, <1>3, FailKeeps DEF ExpandRule, Answerable, Usable
<1>4. QED
  BY <1>2, <1>3

LEMMA EndRulesKeeps == IInv /\ EndRules => IInv'
<1> SUFFICES ASSUME IInv, EndRules PROVE IInv'
  OBVIOUS
<1>1. /\ phase = "rules" /\ phase' = "excluded" /\ next' = 1
      /\ UNCHANGED <<series, window, produced, pending, patches, ids, out>>
  BY DEF EndRules
<1>2. next = Len(series.rules) + 1 /\ next - 1 = Len(series.rules)
  BY <1>1, Lengths DEF IInv, TypeOK, Construction, EndRules
<1>3. TypeOK'
  BY <1>1 DEF IInv, TypeOK, Phases
<1>4. BuildableUpTo(series.rules, Len(series.rules))
  BY <1>1, <1>2 DEF IInv, Verdict
<1>5. AfterExcluded(1) = AfterRules(Len(series.rules) + 1)
  BY DEF AfterExcluded
<1>6. AfterExcluded(1)' = AfterExcluded(1)
  BY <1>1 DEF AfterExcluded, AfterRules, KeysOfExcluded, KeysOfRule, BetweenOf, loc, dtstart
<1>7. produced' = AfterExcluded(next)' /\ pending' = DOMAIN series'.overrides
  BY <1>1, <1>2, <1>5, <1>6 DEF IInv, Construction
<1>8. next' \in 1 .. Len(series'.excluded) + 1
  BY <1>1, Lengths DEF IInv, TypeOK
<1>0. out' = <<>>
  BY <1>1 DEF IInv, Construction
<1>9. Construction'
  BY <1>0, <1>1, <1>7, <1>8 DEF Construction
<1>10. BuildableUpTo(series.excluded, next - 1)'
  BY <1>1 DEF BuildableUpTo
<1>11. Verdict'
  BY <1>1, <1>4, <1>10 DEF IInv, Verdict
<1>12. QED
  BY <1>3, <1>9, <1>11 DEF IInv

LEMMA SubtractRuleKeeps == IInv /\ SubtractRule => IInv'
<1> SUFFICES ASSUME IInv, SubtractRule PROVE IInv'
  OBVIOUS
<1> DEFINE rule == series.excluded[next]
<1>1. next \in 1 .. Len(series.excluded) /\ next \in Nat
  BY Lengths DEF IInv, TypeOK, SubtractRule
<1>2. CASE Buildable(rule)
  <2>1. /\ phase = "excluded"
        /\ produced' = produced \ KeysOfExcluded(rule)
        /\ next' = next + 1
        /\ UNCHANGED <<series, window, phase, pending, patches, ids, out>>
    BY <1>2 DEF SubtractRule
  <2>2. produced' \subseteq Int /\ IsFiniteSet(produced')
    BY <2>1, FS_Difference DEF IInv, TypeOK
  <2>3. next' \in Nat \ {0} /\ next' \in 1 .. Len(series.excluded) + 1
    BY <1>1, <2>1
  <2>4. TypeOK'
    BY <2>1, <2>2, <2>3 DEF IInv, TypeOK
  <2>5. AfterExcluded(next + 1) = AfterExcluded(next) \ KeysOfExcluded(rule)
    <3>1. 1 .. next + 1 - 1 = (1 .. next - 1) \cup {next}
      BY <1>1
    <3>2. QED
      BY <1>1, <3>1 DEF AfterExcluded
  <2>6. \A n : AfterExcluded(n)' = AfterExcluded(n)
    BY <2>1 DEF AfterRules, KeysOfRule, BetweenOf, loc, dtstart,
              AfterExcluded, KeysOfExcluded
  <2>7. produced' = AfterExcluded(next)'
    BY <2>1, <2>5, <2>6 DEF IInv, Construction
  <2>8. Construction'
    BY <2>1, <2>3, <2>7 DEF IInv, Construction
  <2>9. BuildableUpTo(series.excluded, next - 1)'
    BY <1>1, <1>2, <2>1 DEF IInv, Verdict, BuildableUpTo
  <2>10. Verdict'
    BY <2>1, <2>9 DEF IInv, Verdict
  <2>11. QED
    BY <2>4, <2>8, <2>10 DEF IInv
<1>3. CASE ~Buildable(rule)
  BY <1>1, <1>3, FailKeeps DEF SubtractRule, Answerable, Usable
<1>4. QED
  BY <1>2, <1>3

LEMMA EndExcludedKeeps == IInv /\ EndExcluded => IInv'
<1> SUFFICES ASSUME IInv, EndExcluded PROVE IInv'
  OBVIOUS
<1>1. /\ phase = "excluded" /\ phase' = "overrides" /\ next' = 1
      /\ UNCHANGED <<series, window, produced, pending, patches, ids, out>>
  BY DEF EndExcluded
<1>2. next = Len(series.excluded) + 1 /\ next - 1 = Len(series.excluded)
  BY <1>1, Lengths DEF IInv, TypeOK, Construction, EndExcluded
<1>3. TypeOK'
  BY <1>1 DEF IInv, TypeOK, Phases
<1>4. BuildableUpTo(series.excluded, Len(series.excluded))
  BY <1>1, <1>2 DEF IInv, Verdict
<1>5. Visited = {} /\ pending = DOMAIN series.overrides
  BY <1>1 DEF IInv, Construction, Visited
<1>6. patches = {}
  BY <1>5 DEF IInv, TypeOK
<1>7. AfterOverrides = AfterExcluded(Len(series.excluded) + 1)
  BY <1>5 DEF AfterOverrides
<1>8. AfterOverrides' = AfterOverrides /\ Visited' = Visited /\ Added(series)' = Added(series)
  BY <1>1 DEF AfterOverrides, AfterExcluded, AfterRules, KeysOfExcluded, KeysOfRule,
              BetweenOf, loc, dtstart, Visited, Dropped, Added
<1>9. produced' = AfterOverrides'
  BY <1>1, <1>2, <1>7, <1>8 DEF IInv, Construction
<1>10. patches' = (Added(series) \cap Visited)'
  BY <1>1, <1>5, <1>6, <1>8
<1>0. out' = <<>>
  BY <1>1 DEF IInv, Construction
<1>11. Construction'
  BY <1>0, <1>1, <1>9, <1>10 DEF Construction
<1>12. Visited' \cap BadKeys = {}
  BY <1>5, <1>8
<1>13. Verdict'
  BY <1>1, <1>4, <1>12 DEF IInv, Verdict
<1>14. QED
  BY <1>3, <1>11, <1>13 DEF IInv

LEMMA ApplyOverrideKeyKeeps ==
  ASSUME IInv, NEW key \in pending, ApplyOverrideKey(key)
  PROVE  IInv'
<1>1. phase = "overrides" /\ key \in DOMAIN series.overrides /\ series \in Series
  BY DEF ApplyOverrideKey, IInv, TypeOK
<1>2. CASE key \in BadKeys
  BY <1>1, <1>2, FailKeeps DEF ApplyOverrideKey, Answerable, Usable
<1>3. CASE key \notin BadKeys
  <2>1. /\ pending' = pending \ {key}
        /\ UNCHANGED <<series, window, phase, next, ids, out>>
    BY <1>3 DEF ApplyOverrideKey
  <2>2. /\ Excludes(series.overrides[key]) =>
              produced' = produced \ {key} /\ patches' = patches
        /\ ~Excludes(series.overrides[key]) =>
              produced' = produced \cup {key} /\ patches' = patches \cup {key}
    BY <1>3 DEF ApplyOverrideKey
  <2>3. key \in Int
    BY <1>1, <1>3, SeriesAssumption
  <2>4. produced' \subseteq Int /\ IsFiniteSet(produced')
    <3>1. produced \subseteq Int /\ IsFiniteSet(produced)
      BY DEF IInv, TypeOK
    <3>2. produced' = produced \ {key} \/ produced' = produced \cup {key}
      BY <2>2
    <3>3. IsFiniteSet(produced \ {key}) /\ IsFiniteSet(produced \cup {key})
      BY <3>1, FS_AddElement, FS_RemoveElement
    <3>4. QED
      BY <2>3, <3>1, <3>2, <3>3
  <2>5. patches' \subseteq DOMAIN series.overrides \ pending'
    BY <1>1, <2>1, <2>2 DEF IInv, TypeOK
  <2>6. TypeOK'
    BY <2>1, <2>4, <2>5 DEF IInv, TypeOK
  <2>7. Visited' = Visited \cup {key}
    BY <1>1, <2>1 DEF Visited
  <2>8. /\ key \in Dropped(series) <=> Excludes(series.overrides[key])
        /\ key \in Added(series) <=> ~Excludes(series.overrides[key])
    BY <1>1 DEF Dropped, Added
  <2>9. key \notin Visited
    BY DEF Visited
  <2> DEFINE base == AfterExcluded(Len(series.excluded) + 1)
  <2>10. /\ base' = base
         /\ Dropped(series)' = Dropped(series)
         /\ Added(series)' = Added(series)
    BY <2>1 DEF AfterExcluded, AfterRules, KeysOfExcluded, KeysOfRule, BetweenOf,
                loc, dtstart, Dropped, Added
  <2>11. /\ produced = (base \ (Dropped(series) \cap Visited))
                          \cup (Added(series) \cap Visited)
         /\ patches = Added(series) \cap Visited
    BY <1>1 DEF IInv, Construction, AfterOverrides
  <2>12. AfterOverrides' = (base \ (Dropped(series) \cap (Visited \cup {key})))
                             \cup (Added(series) \cap (Visited \cup {key}))
    BY <2>7, <2>10 DEF AfterOverrides
  <2>13. Dropped(series) \cap Added(series) = {}
    BY DEF Added
  <2> HIDE DEF base
  <2>14. produced' = AfterOverrides'
    BY <2>2, <2>8, <2>9, <2>11, <2>12, <2>13
  <2>15. patches' = (Added(series) \cap Visited)'
    BY <2>2, <2>7, <2>8, <2>10, <2>11
  <2>a. next' = 1 /\ out' = <<>> /\ phase' = "overrides"
    BY <1>1, <2>1 DEF IInv, Construction
  <2>16. Construction'
    BY <2>a, <2>14, <2>15 DEF Construction
  <2>17. Visited' \cap BadKeys = {}
    BY <1>1, <1>3, <2>7 DEF IInv, Verdict
  <2>18. Verdict'
    BY <1>1, <2>1, <2>17 DEF IInv, Verdict
  <2>19. QED
    BY <2>6, <2>16, <2>18 DEF IInv
<1>4. QED
  BY <1>2, <1>3

(***************************************************************************)
(* A listing of a finite set of integers is a sequence of integers.        *)
(***************************************************************************)
LEMMA ListingIsSeq ==
  ASSUME NEW l, NEW S, S \subseteq Int, IsFiniteSet(S), NEW q \in Listings(l, S)
  PROVE  q \in Seq(Int) /\ \A i \in 1 .. Len(q) : q[i] \in S
<1>1. Cardinality(S) \in Nat
  BY FS_CardinalityType
<1>2. q \in [1 .. Cardinality(S) -> S]
  BY DEF Listings
<1>3. q \in Seq(Int)
  <2> DEFINE n == Cardinality(S)
  <2>1. q \in [1 .. n -> Int]
    BY <1>2
  <2> HIDE DEF n
  <2>2. ASSUME NEW m \in Nat, q \in [1 .. m -> Int]
        PROVE  q \in Seq(Int)
    BY <2>2
  <2>3. QED
    BY <1>1, <2>1, <2>2 DEF n
<1>4. Len(q) = Cardinality(S)
  BY <1>1, <1>2, <1>3
<1>5. QED
  BY <1>2, <1>3, <1>4

LEMMA ClipAndSortKeeps == IInv /\ ClipAndSort => IInv'
<1> SUFFICES ASSUME IInv, ClipAndSort PROVE IInv'
  OBVIOUS
<1> DEFINE shown == Visible(series, window, produced)
<1>1. /\ phase = "overrides" /\ phase' = "build" /\ pending = {}
      /\ ids' \in Listings(loc, shown)
      /\ UNCHANGED <<series, window, next, produced, pending, patches, out>>
  BY DEF ClipAndSort
<1>2. next = 1 /\ out = <<>>
  BY <1>1 DEF IInv, Construction
<1>3. shown \subseteq Int /\ IsFiniteSet(shown)
  <2>1. shown \in SUBSET produced
    BY DEF Visible
  <2>2. QED
    BY <2>1, FS_Subset DEF IInv, TypeOK
<1> HIDE DEF shown
<1>4. ids' \in Seq(Int) /\ Len(ids') \in Nat
  <2>1. \A l, S, q : S \subseteq Int /\ IsFiniteSet(S) /\ q \in Listings(l, S)
                       => q \in Seq(Int)
    BY ListingIsSeq
  <2>2. ids' \in Seq(Int)
    BY <1>1, <1>3, <2>1, Zenon
  <2>3. QED
    BY <2>2
<1>5. Len(out') <= Len(ids')
  BY <1>1, <1>2, <1>4
<1>6. TypeOK'
  BY <1>1, <1>4, <1>5 DEF IInv, TypeOK, Phases
<1>7. shown = RecurrenceIds(series, window)
  BY <1>1, PastZone, ClippedSet DEF IInv, Construction, shown
<1>8. (Listings(loc, RecurrenceIds(series, window)))' = Listings(loc, RecurrenceIds(series, window))
  BY <1>1 DEF loc
<1>9. /\ Visited' = Visited
      /\ Added(series)' = Added(series)
  BY <1>1 DEF Visited, Added, Dropped
<1>10. out' = [i \in 1 .. next' - 1 |-> Body(series', ids'[i])]
  BY <1>1, <1>2
<1>11. next' \in 1 .. Len(ids') + 1
  BY <1>1, <1>2, <1>4
<1>12. patches' = (Added(series) \cap Visited)'
  BY <1>1, <1>9 DEF IInv, Construction
<1>13. Construction'
  BY <1>1, <1>7, <1>8, <1>10, <1>11, <1>12 DEF Construction
<1>14. (\A i \in 1 .. next - 1 : Builds(series, ids[i]))'
  BY <1>1, <1>2
<1>15. Verdict'
  BY <1>1, <1>9, <1>14 DEF IInv, Verdict
<1>16. QED
  BY <1>6, <1>13, <1>15 DEF IInv

(***************************************************************************)
(* Of an id of the recurrence set, patches holds the override when there   *)
(* is one: buildOccurrence computes the body the contract names.           *)
(***************************************************************************)
LEMMA PatchIsOverride ==
  ASSUME IInv, phase = "build", next <= Len(ids)
  PROVE  LET rid == ids[next]
         IN  /\ rid \in RecurrenceIds(series, window)
             /\ Patched(Stamped(series, rid), PatchOf(rid)) = Body(series, rid)
             /\ "dangling" \notin DOMAIN PatchOf(rid) <=> Applies(series, rid)
<1> DEFINE rid == ids[next]
<1>1. next \in 1 .. Len(ids)
  BY DEF IInv, TypeOK, Construction
<1>2. ids \in [1 .. Cardinality(RecurrenceIds(series, window))
                 -> RecurrenceIds(series, window)]
  BY DEF IInv, Construction, Listings
<1>3. rid \in RecurrenceIds(series, window)
  <2>1. DOMAIN ids = 1 .. Len(ids)
    BY DEF IInv, TypeOK
  <2>2. QED
    BY <1>1, <1>2, <2>1
<1>4. patches = Added(series)
  BY DEF IInv, Construction, Visited, Added
<1>5. rid \in patches <=> rid \in DOMAIN series.overrides
  BY <1>3, <1>4 DEF RecurrenceIds, Visible, Added
<1>6. CASE rid \in DOMAIN series.overrides
  BY <1>3, <1>5, <1>6 DEF PatchOf, Body, Applies
<1>7. CASE rid \notin DOMAIN series.overrides
  <2>1. PatchOf(rid) = <<>> /\ DOMAIN PatchOf(rid) = {}
    BY <1>5, <1>7 DEF PatchOf
  <2>2. Patched(Stamped(series, rid), PatchOf(rid)) = Stamped(series, rid)
    BY <2>1 DEF Patched, Stamped
  <2>3. QED
    BY <1>3, <1>7, <2>1, <2>2 DEF Body, Applies
<1>8. QED
  BY <1>6, <1>7

LEMMA BuildOccurrenceKeeps == IInv /\ BuildOccurrence => IInv'
<1> SUFFICES ASSUME IInv, BuildOccurrence PROVE IInv'
  OBVIOUS
<1> DEFINE rid == ids[next]
           occ == Patched(Stamped(series, rid), PatchOf(rid))
<1>1. phase = "build" /\ next <= Len(ids)
  BY DEF BuildOccurrence
<1>2. /\ rid \in RecurrenceIds(series, window)
      /\ occ = Body(series, rid)
      /\ "dangling" \notin DOMAIN PatchOf(rid) <=> Applies(series, rid)
  BY <1>1, PatchIsOverride
<1>3. next \in 1 .. Len(ids) /\ next \in Nat /\ Len(ids) \in Nat
  BY <1>1 DEF IInv, TypeOK, Construction
<1>4. CASE "dangling" \notin DOMAIN PatchOf(rid) /\ Decodes(occ)
  <2>1. /\ out' = Append(out, occ)
        /\ next' = next + 1
        /\ UNCHANGED <<series, window, phase, produced, pending, patches, ids>>
    BY <1>4 DEF BuildOccurrence
  <2> DEFINE body(i) == Body(series, ids[i])
             bodies  == {body(i) : i \in 1 .. Len(ids)}
  <2>2. out = [i \in 1 .. next - 1 |-> body(i)]
    BY <1>1 DEF IInv, Construction
  <2> HIDE DEF body, occ
  <2>3. occ = body(next)
    BY <1>2 DEF body
  <2>4. out \in Seq(bodies) /\ Len(out) = next - 1
    BY <1>3, <2>2
  <2>5. out' = [i \in 1 .. next |-> body(i)]
    BY <1>3, <2>1, <2>2, <2>3, <2>4
  <2>6. Len(out') = next
    BY <1>3, <2>1, <2>4
  <2>7. next' \in Nat \ {0} /\ next' \in 1 .. Len(ids) + 1 /\ next' - 1 = next
    BY <1>3, <2>1
  <2>8. TypeOK'
    BY <1>1, <2>1, <2>6, <2>7 DEF IInv, TypeOK
  <2>9. out' = [i \in 1 .. next' - 1 |-> Body(series', ids'[i])]
    BY <2>1, <2>5, <2>7 DEF body
  <2>10. (Listings(loc, RecurrenceIds(series, window)))'
           = Listings(loc, RecurrenceIds(series, window))
    BY <2>1 DEF loc
  <2>11. patches' = (Added(series) \cap Visited)'
    BY <1>1, <2>1 DEF IInv, Construction, Added, Visited, Dropped
  <2>12. phase' = "build" /\ pending' = {} /\ ids' \in Listings(loc, RecurrenceIds(series, window))'
    BY <1>1, <2>1, <2>10 DEF IInv, Construction
  <2>13. next' \in 1 .. Len(ids') + 1
    BY <2>1, <2>7
  <2>14. Construction'
    BY <2>9, <2>11, <2>12, <2>13 DEF Construction
  <2>15. Builds(series, rid)
    BY <1>2, <1>4 DEF Builds
  <2>16. (\A i \in 1 .. next - 1 : Builds(series, ids[i]))'
    BY <1>1, <1>3, <2>1, <2>7, <2>15 DEF IInv, Verdict
  <2>17. Visited' = Visited
    BY <2>1 DEF Visited
  <2>18. Verdict'
    BY <1>1, <2>1, <2>16, <2>17 DEF IInv, Verdict
  <2>19. QED
    BY <2>8, <2>14, <2>18 DEF IInv
<1>5. CASE ~("dangling" \notin DOMAIN PatchOf(rid) /\ Decodes(occ))
  <2>1. ~Builds(series, rid)
    BY <1>2, <1>5 DEF Builds
  <2>2. Fail
    BY <1>5 DEF BuildOccurrence
  <2>3. QED
    BY <1>2, <2>1, <2>2, FailKeeps DEF Answerable
<1>6. QED
  BY <1>4, <1>5

(***************************************************************************)
(* When the build loop is over, nothing the request needs was unusable.    *)
(***************************************************************************)
LEMMA AllBuilt ==
  ASSUME IInv, phase = "build", next > Len(ids)
  PROVE  Answerable(series, window) /\ next = Len(ids) + 1
<1>1. next = Len(ids) + 1 /\ next - 1 = Len(ids) /\ DOMAIN ids = 1 .. Len(ids)
  BY DEF IInv, TypeOK, Construction
<1>2. \A rid \in RecurrenceIds(series, window) : \E i \in 1 .. Len(ids) : ids[i] = rid
  BY <1>1 DEF IInv, Construction, Listings
<1>3. \A i \in 1 .. Len(ids) : Builds(series, ids[i])
  BY <1>1 DEF IInv, Verdict
<1>4. Visited = DOMAIN series.overrides
  BY DEF IInv, Construction, Visited
<1>5. Usable(series)
  BY <1>4 DEF IInv, Verdict, Usable, BuildableUpTo
<1>6. QED
  BY <1>1, <1>2, <1>3, <1>5 DEF Answerable

LEMMA ReturnKeeps == IInv /\ Return => IInv'
<1> SUFFICES ASSUME IInv, Return PROVE IInv'
  OBVIOUS
<1>1. /\ phase = "build" /\ next > Len(ids) /\ phase' = "done"
      /\ UNCHANGED <<series, window, next, produced, pending, patches, ids, out>>
  BY DEF Return
<1>2. Answerable(series, window) /\ next = Len(ids) + 1
  BY <1>1, AllBuilt
<1>3. TypeOK'
  BY <1>1 DEF IInv, TypeOK, Phases
<1>4. /\ Visited' = Visited
      /\ Added(series)' = Added(series)
      /\ (Listings(loc, RecurrenceIds(series, window)))'
           = Listings(loc, RecurrenceIds(series, window))
      /\ Answerable(series, window)' = Answerable(series, window)
  BY <1>1 DEF Visited, Added, Dropped, loc
<1>5. Construction'
  BY <1>1, <1>2, <1>4 DEF IInv, Construction
<1>6. Verdict'
  BY <1>1, <1>2, <1>4 DEF IInv, Verdict
<1>7. QED
  BY <1>3, <1>5, <1>6 DEF IInv

LEMMA Inductive == IInv /\ [Next]_vars => IInv'
<1> SUFFICES ASSUME IInv, [Next]_vars PROVE IInv'
  OBVIOUS
<1>1. CASE \E key \in pending : ApplyOverrideKey(key)
  BY <1>1, ApplyOverrideKeyKeeps
<1>2. CASE UNCHANGED vars
  BY <1>2 DEF vars, IInv, TypeOK, Construction, Verdict, Visited, AfterOverrides,
     AfterExcluded, AfterRules, KeysOfRule, KeysOfExcluded, BetweenOf, loc, dtstart
<1>3. QED
  BY <1>1, <1>2, CheckMasterKeeps, ResolveZoneKeeps, ExpandRuleKeeps, EndRulesKeeps,
     SubtractRuleKeeps, EndExcludedKeeps, ClipAndSortKeeps, BuildOccurrenceKeeps,
     ReturnKeeps DEF Next

LEMMA Invariance == Spec => []IInv
BY Initially, Inductive, PTL DEF Spec

-----------------------------------------------------------------------------
(***************************************************************************)
(* In every run of the call its variables keep their types: the keys are   *)
(* finitely many integers and no more is built than is listed.             *)
(***************************************************************************)
THEOREM TypeCorrect == Spec => []TypeOK
<1>1. IInv => TypeOK
  BY DEF IInv
<1>2. QED
  BY <1>1, Invariance, PTL

(***************************************************************************)
(* Whatever the override map's iteration order, the set under construction *)
(* is that of the keys visited, and what is built is the recurrence set.   *)
(***************************************************************************)
THEOREM ConstructionCorrect == Spec => []Construction
<1>1. IInv => Construction
  BY DEF IInv
<1>2. QED
  BY <1>1, Invariance, PTL

(***************************************************************************)
(* The call fails exactly on the requests that have no answer.             *)
(***************************************************************************)
THEOREM VerdictCorrect == Spec => []Verdict
<1>1. IInv => Verdict
  BY DEF IInv
<1>2. QED
  BY <1>1, Invariance, PTL

(***************************************************************************)
(* An instance does not recur: a rule in it is one that its own override   *)
(* patch puts there, for all that the master's rules are marshalled with   *)
(* it before they are stripped.                                            *)
(***************************************************************************)
THEOREM InstancesDoNotRecur == Spec => []InstanceDoesNotRecur
<1>1. IInv => InstanceDoesNotRecur
  <2> SUFFICES ASSUME IInv, NEW i \in DOMAIN out, NEW m \in SeriesMembers,
                      out[i][m] # Absent
               PROVE  /\ ids[i] \in DOMAIN series.overrides
                      /\ m \in DOMAIN series.overrides[ids[i]]
                      /\ out[i][m] = series.overrides[ids[i]][m]
    BY DEF InstanceDoesNotRecur
  <2>1. phase \in {"build", "done"}
    BY DEF IInv, Construction
  <2>2. out[i] = Body(series, ids[i])
    BY <2>1 DEF IInv, Construction
  <2> DEFINE rid == ids[i]
  <2>3. m \in Members /\ Stamped(series, rid)[m] = Absent
    BY DEF Stamped, Members, SeriesMembers
  <2>4. /\ rid \in DOMAIN series.overrides
        /\ Body(series, rid) = Patched(Stamped(series, rid), series.overrides[rid])
    BY <2>2, <2>3 DEF Body
  <2> HIDE DEF rid
  <2>5. m \in DOMAIN series.overrides[rid]
    BY <2>2, <2>3, <2>4 DEF Patched, rid
  <2>6. out[i][m] = series.overrides[rid][m]
    BY <2>2, <2>3, <2>4, <2>5 DEF Patched, rid
  <2>7. QED
    BY <2>4, <2>5, <2>6 DEF rid
<1>2. QED
  BY <1>1, Invariance, PTL

(***************************************************************************)
(* The candidates a count keeps: their positions in the order of the clock *)
(* are different and none is larger than the count.                        *)
(***************************************************************************)
LEMMA CountedBounded ==
  ASSUME NEW all \in SUBSET Int, IsFiniteSet(all), NEW count \in Nat \ {0}
  PROVE  /\ IsFiniteSet(Counted(all, count))
         /\ Cardinality(Counted(all, count)) <= count
<1> DEFINE upTo(lt) == {m \in all : m <= lt}
           kept == Counted(all, count)
           rank == [lt \in kept |-> Cardinality(upTo(lt))]
<1>1. \A lt : IsFiniteSet(upTo(lt)) /\ Cardinality(upTo(lt)) \in Nat
  BY FS_Subset, FS_CardinalityType
<1>2. ASSUME NEW lt \in kept PROVE Cardinality(upTo(lt)) \in 1 .. count
  <2>1. lt \in upTo(lt)
    BY DEF Counted
  <2>2. Cardinality(upTo(lt)) # 0
    BY <1>1, <2>1, FS_EmptySet
  <2>3. QED
    BY <1>1, <2>2 DEF Counted
<1>3. ASSUME NEW lt \in kept, NEW later \in kept, lt < later
      PROVE  Cardinality(upTo(lt)) # Cardinality(upTo(later))
  <2>1. lt \in Int /\ later \in all /\ later \in Int
    BY DEF Counted
  <2>2. later \in upTo(later) /\ later \notin upTo(lt)
    BY <1>3, <2>1
  <2>3. upTo(lt) \subseteq upTo(later)
    <3> SUFFICES ASSUME NEW m \in upTo(lt) PROVE m <= later
      OBVIOUS
    <3>1. QED
      BY <1>3, <2>1
  <2> HIDE DEF upTo
  <2>4. QED
    BY <1>1, <2>2, <2>3, FS_Subset
<1>4. rank \in Injection(kept, 1 .. count)
  <2>1. \A lt, later \in kept : lt < later \/ later < lt \/ lt = later
    BY DEF Counted
  <2> HIDE DEF upTo, kept
  <2>2. \A lt, later \in kept : rank[lt] = rank[later] => lt = later
    BY <1>3, <2>1
  <2>3. rank \in [kept -> 1 .. count]
    BY <1>2
  <2>4. QED
    BY <2>2, <2>3 DEF Injection, IsInjective
<1> HIDE DEF rank, kept
<1>5. IsFiniteSet(1 .. count) /\ Cardinality(1 .. count) = count
  BY FS_Interval
<1>6. IsFiniteSet(kept) /\ Cardinality(kept) <= count
  BY <1>4, <1>5, FS_Injection
<1>7. QED
  BY <1>6 DEF kept

LEMMA IdsBounded ==
  ASSUME NEW s, NEW rule \in Rule, rule.count \notin {None, 0}
  PROVE  /\ IsFiniteSet(Ids(s, rule))
         /\ Cardinality(Ids(s, rule)) <= rule.count
<1> DEFINE all     == Candidates(ROption(rule, Loc(s)), Loc(s), DtStart(s))
           nominal == Nominal(rule, Loc(s), DtStart(s))
           read    == [lt \in nominal |-> Wall(Loc(s), Place(Loc(s), lt))]
<1>1. rule.count \in Nat \ {0} /\ ROption(rule, Loc(s)).count = rule.count
  BY DEF Rule, ROption
<1>2. all \in SUBSET Int /\ IsFiniteSet(all)
  <2>1. all \in SUBSET Horizon
    BY DEF Candidates
  <2>2. QED
    BY <2>1, HorizonAssumption, FS_Subset
<1>3. nominal = Counted(all, rule.count)
  BY <1>1 DEF Nominal
<1> HIDE DEF all
<1>4. IsFiniteSet(nominal) /\ Cardinality(nominal) <= rule.count
  BY <1>1, <1>2, <1>3, CountedBounded
<1>5. Ids(s, rule) = {read[lt] : lt \in nominal}
  BY DEF Ids, Instants
<1> HIDE DEF nominal
<1>6. read \in Surjection(nominal, Ids(s, rule))
  BY <1>5 DEF Surjection
<1> HIDE DEF read
<1>7. IsFiniteSet(Ids(s, rule)) /\ Cardinality(Ids(s, rule)) <= Cardinality(nominal)
  BY <1>4, <1>6, FS_Surjection
<1>8. QED
  BY <1>1, <1>4, <1>7, FS_CardinalityType

(***************************************************************************)
(* A count bounds what all windows together show, and an instance that is  *)
(* excluded does not make room for another.                                *)
(***************************************************************************)
THEOREM CountsBound == Spec => []CountBounds
<1>1. IInv => CountBounds
  <2> DEFINE rule  == series.rules[1]
             shown == {ids[i] : i \in DOMAIN ids}
                        \cup UNION {RecurrenceIds(series, w) : w \in Windows}
             all   == (shown \ patches) \cup (Dropped(series) \cap Regular(series))
  <2> SUFFICES ASSUME IInv, phase = "done", Len(series.rules) = 1, rule.count \notin {None, 0}
               PROVE  Cardinality(all) <= rule.count
    BY DEF CountBounds
  <2>1. series \in Series /\ window \in Windows /\ rule \in Rule /\ series.rules # <<>>
    BY SeriesAssumption DEF IInv, TypeOK
  <2>2. Regular(series) = Ids(series, rule)
    BY <2>1 DEF Regular
  <2>3. patches = Added(series)
    BY DEF IInv, Construction, Visited, Added
  <2>4. {ids[i] : i \in DOMAIN ids} \subseteq RecurrenceIds(series, window)
    BY DEF IInv, Construction, Listings
  <2>5. \A w : RecurrenceIds(series, w) \ Added(series) \subseteq Regular(series)
    BY DEF RecurrenceIds, Visible
  <2>6. shown \ patches \subseteq Regular(series)
    BY <2>3, <2>4, <2>5
  <2> HIDE DEF shown, rule
  <2>7. all \in SUBSET Ids(series, rule)
    BY <2>2, <2>6
  <2> HIDE DEF all
  <2>8. IsFiniteSet(Ids(series, rule)) /\ Cardinality(Ids(series, rule)) <= rule.count
    BY <2>1, IdsBounded
  <2>9. /\ Cardinality(all) <= Cardinality(Ids(series, rule))
        /\ Cardinality(all) \in Nat /\ Cardinality(Ids(series, rule)) \in Nat
    BY <2>7, <2>8, FS_Subset, FS_CardinalityType
  <2>10. rule.count \in Nat
    BY <2>1 DEF Rule, rule
  <2>11. QED
    BY <2>8, <2>9, <2>10
<1>2. QED
  BY <1>1, Invariance, PTL

(***************************************************************************)
(* The ids of a daily rule without byHour are nominal wall clocks at the   *)
(* hour of a start outside a gap, read back from where the zone put them.  *)
(***************************************************************************)
LEMMA DailyIds ==
  ASSUME NEW s, s.start \in Int, ~InGap(Loc(s), s.start),
         NEW rule, rule.frequency = "daily", rule.byHour = {},
         NEW id \in Ids(s, rule)
  PROVE  \E lt \in Horizon : /\ Hour(lt) = Hour(s.start)
                             /\ id = Wall(Loc(s), Place(Loc(s), lt))
<1> DEFINE opt == ROption(rule, Loc(s))
<1>1. PICK lt \in Candidates(opt, Loc(s), DtStart(s)) : id = Wall(Loc(s), Place(Loc(s), lt))
  BY DEF Ids, Instants, Nominal, Counted
<1>2. Wall(Loc(s), DtStart(s)) = s.start
  BY DEF DtStart, InGap
<1>3. opt.freq = "daily" /\ opt.byHour = {}
  BY DEF ROption
<1> HIDE DEF opt
<1>4. lt \in Horizon /\ Hour(lt) = Hour(s.start)
  BY <1>2, <1>3 DEF Candidates, AtHour
<1>5. QED
  BY <1>1, <1>4

(***************************************************************************)
(* The wall-clock time is kept constant across a transition, for every     *)
(* zone, for a master whose own start its zone does not skip.              *)
(***************************************************************************)
THEOREM WallClockKept == Spec => []KeepsWallClockOutsideGap
<1>1. IInv => KeepsWallClockOutsideGap
  <2> SUFFICES ASSUME IInv, phase = "done", ~InGap(loc, series.start), series.rules # <<>>,
                      \A j \in DOMAIN series.rules : /\ series.rules[j].frequency = "daily"
                                                     /\ series.rules[j].byHour = {},
                      NEW i \in DOMAIN ids, ids[i] \notin patches
               PROVE  \E lt \in Horizon :
                        /\ Hour(lt) = Hour(series.start)
                        /\ ids[i] = lt \/ (InGap(loc, lt) /\ ids[i] = Wall(loc, Place(loc, lt)))
    BY DEF KeepsWallClockOutsideGap, KeepsWallClock
  <2>1. series \in Series /\ series.start \in Int
    BY PastZone DEF IInv, Anchored
  <2>2. patches = Added(series) /\ ids[i] \in RecurrenceIds(series, window)
    BY DEF IInv, Construction, Visited, Added, Listings
  <2>3. ids[i] \in Regular(series)
    BY <2>2 DEF RecurrenceIds, Visible
  <2>4. PICK j \in 1 .. Len(series.rules) : ids[i] \in Ids(series, series.rules[j])
    BY <2>3 DEF Regular
  <2>5. j \in DOMAIN series.rules
    BY <2>1, SeriesAssumption
  <2>6. PICK lt \in Horizon : /\ Hour(lt) = Hour(series.start)
                              /\ ids[i] = Wall(loc, Place(loc, lt))
    BY <2>1, <2>4, <2>5, DailyIds DEF loc
  <2>7. QED
    BY <2>6 DEF InGap
<1>2. QED
  BY <1>1, Invariance, PTL

-----------------------------------------------------------------------------
(***************************************************************************)
(* The whole recurrence set of a usable master, which a window cuts from:  *)
(* finitely many wall clocks, each on an instant.                          *)
(***************************************************************************)
AllIds(s) == ((Regular(s) \ Excluded(s)) \ Dropped(s)) \cup Added(s)

LEMMA AllIdsPlaced ==
  ASSUME NEW s \in Series, Usable(s)
  PROVE  /\ IsFiniteSet(AllIds(s))
         /\ \A lt \in AllIds(s) : Place(Loc(s), lt) \in Int
<1>1. Loc(s) \in Location /\ s.start \in Int
  BY ResolvedLocation, SeriesAssumption DEF Usable, HasStart, Marshals
<1>2. ASSUME NEW rule PROVE Ids(s, rule) \subseteq Int /\ IsFiniteSet(Ids(s, rule))
  <2> DEFINE read == [lt \in Horizon |-> Wall(Loc(s), Place(Loc(s), lt))]
             all  == {read[lt] : lt \in Horizon}
  <2>1. Ids(s, rule) \subseteq Int
    BY <1>1, InstantsStable DEF Ids
  <2>2. Ids(s, rule) \subseteq all
    <3>1. \A t \in Instants(rule, Loc(s), DtStart(s)) :
            \E lt \in Horizon : Wall(Loc(s), t) = read[lt]
      BY InstantsPlaced
    <3>2. QED
      BY <3>1 DEF Ids
  <2>3. read \in Surjection(Horizon, all)
    BY DEF Surjection
  <2>4. IsFiniteSet(all)
    BY <2>3, HorizonAssumption, FS_Surjection
  <2>5. QED
    BY <2>1, <2>2, <2>4, FS_Subset
<1>3. Regular(s) \subseteq Int /\ IsFiniteSet(Regular(s))
  <2>1. CASE s.rules = <<>>
    BY <1>1, <2>1, FS_Singleton DEF Regular
  <2>2. CASE s.rules # <<>>
    <3> DEFINE N == Len(s.rules)
               parts == {Ids(s, s.rules[i]) : i \in 1 .. N}
               part == [i \in 1 .. N |-> Ids(s, s.rules[i])]
    <3>1. N \in Nat
      BY SeriesAssumption
    <3>2. Regular(s) = UNION parts
      BY <2>2 DEF Regular
    <3>3. part \in Surjection(1 .. N, parts)
      BY DEF Surjection
    <3>4. IsFiniteSet(1 .. N)
      BY <3>1, FS_Interval
    <3>5. IsFiniteSet(parts)
      BY <3>3, <3>4, FS_Surjection
    <3>6. \A S \in parts : S \subseteq Int /\ IsFiniteSet(S)
      BY <1>2
    <3> HIDE DEF parts
    <3>7. IsFiniteSet(UNION parts) /\ UNION parts \subseteq Int
      BY <3>5, <3>6, FS_UNION
    <3>8. QED
      BY <3>2, <3>7
  <2>3. QED
    BY <2>1, <2>2
<1>4. Added(s) \subseteq Int /\ IsFiniteSet(Added(s))
  <2>1. /\ DOMAIN s.overrides \subseteq Int \cup BadKeys /\ IsFiniteSet(DOMAIN s.overrides)
        /\ DOMAIN s.overrides \cap BadKeys = {}
    BY SeriesAssumption DEF Usable
  <2>2. Added(s) \subseteq DOMAIN s.overrides
    BY DEF Added
  <2>3. QED
    BY <2>1, <2>2, FS_Subset
<1>5. AllIds(s) \subseteq Regular(s) \cup Added(s)
  BY DEF AllIds
<1>6. IsFiniteSet(Regular(s) \cup Added(s))
  BY <1>3, <1>4, FS_Union
<1>7. QED
  BY <1>1, <1>3, <1>4, <1>5, <1>6, ClockTypes, FS_Subset

(***************************************************************************)
(* A caller that pages through a series with adjacent windows, each        *)
(* half-open, gets every instance once: the ids of the pages are disjoint, *)
(* together they are those of the joined window, the listings of the pages *)
(* one after the other list it, and it is answered when both pages are.    *)
(***************************************************************************)
THEOREM WindowsPage ==
  ASSUME NEW s \in Series, Usable(s),
         NEW a \in Int, NEW b \in Int, NEW c \in Int, a <= b, b <= c,
         NEW first, first = [from |-> a, until |-> b],
         NEW second, second = [from |-> b, until |-> c],
         NEW joined, joined = [from |-> a, until |-> c]
  PROVE  /\ RecurrenceIds(s, first) \cap RecurrenceIds(s, second) = {}
         /\ RecurrenceIds(s, first) \cup RecurrenceIds(s, second) = RecurrenceIds(s, joined)
         /\ \A p \in Listings(Loc(s), RecurrenceIds(s, first)),
               q \in Listings(Loc(s), RecurrenceIds(s, second)) :
                 p \o q \in Listings(Loc(s), RecurrenceIds(s, joined))
         /\ Answerable(s, joined) <=> Answerable(s, first) /\ Answerable(s, second)
<1> DEFINE at(lt) == Place(Loc(s), lt)
           P == RecurrenceIds(s, first)
           Q == RecurrenceIds(s, second)
           J == RecurrenceIds(s, joined)
<1>1. \A lt \in AllIds(s) : at(lt) \in Int
  BY AllIdsPlaced
<1>2. /\ P = {lt \in AllIds(s) : a <= at(lt) /\ at(lt) < b}
      /\ Q = {lt \in AllIds(s) : b <= at(lt) /\ at(lt) < c}
      /\ J = {lt \in AllIds(s) : a <= at(lt) /\ at(lt) < c}
  BY DEF RecurrenceIds, Visible, InWindow, AllIds
<1>3. IsFiniteSet(P) /\ IsFiniteSet(Q)
  BY <1>2, AllIdsPlaced, FS_Subset
<1> HIDE DEF at, P, Q, J
<1>4. P \cap Q = {}
  BY <1>1, <1>2
<1>5. P \cup Q = J
  BY <1>1, <1>2
<1>6. \A x \in P, y \in Q : at(x) \in Int /\ at(y) \in Int /\ at(x) <= at(y)
  BY <1>1, <1>2
<1>7. /\ Cardinality(P) \in Nat /\ Cardinality(Q) \in Nat
      /\ Cardinality(J) = Cardinality(P) + Cardinality(Q)
  <2>1. Cardinality(P) \in Nat /\ Cardinality(Q) \in Nat
    BY <1>3, FS_CardinalityType
  <2>2. Cardinality(P \cup Q) = Cardinality(P) + Cardinality(Q) - Cardinality(P \cap Q)
    BY <1>3, FS_Union
  <2>3. Cardinality(P \cap Q) = 0
    BY <1>4, FS_EmptySet
  <2>4. Cardinality(J) = Cardinality(P) + Cardinality(Q) - 0
    BY <1>5, <2>2, <2>3, Zenon
  <2>5. \A m, n \in Nat : m + n - 0 = m + n
    OBVIOUS
  <2>6. QED
    BY <2>1, <2>4, <2>5
<1>8. ASSUME NEW p \in Listings(Loc(s), P), NEW q \in Listings(Loc(s), Q)
      PROVE  p \o q \in Listings(Loc(s), J)
  <2> DEFINE m == Cardinality(P)
             n == Cardinality(Q)
             r == p \o q
  <2>1. /\ p \in [1 .. m -> P] /\ q \in [1 .. n -> Q]
        /\ \A i, j \in 1 .. m : i < j => p[i] # p[j] /\ at(p[i]) <= at(p[j])
        /\ \A i, j \in 1 .. n : i < j => q[i] # q[j] /\ at(q[i]) <= at(q[j])
        /\ \A lt \in P : \E i \in 1 .. m : p[i] = lt
        /\ \A lt \in Q : \E i \in 1 .. n : q[i] = lt
    BY DEF Listings, InOrder, at
  <2>2. m \in Nat /\ n \in Nat /\ Cardinality(J) = m + n
    BY <1>7
  <2> HIDE DEF m, n
  <2>3. p \in Seq(P) /\ q \in Seq(Q) /\ Len(p) = m /\ Len(q) = n
    BY <2>1, <2>2
  <2>4. p \in Seq(J) /\ q \in Seq(J)
    BY <1>5, <2>3
  <2>5. /\ r \in Seq(J) /\ Len(r) = m + n
        /\ \A i \in 1 .. m + n : r[i] = IF i <= m THEN p[i] ELSE q[i - m]
    BY <2>3, <2>4
  <2> HIDE DEF r
  <2>6. r \in [1 .. m + n -> J]
    BY <2>2, <2>5
  <2>7. InOrder(Loc(s), r)
    <3> SUFFICES ASSUME NEW i \in 1 .. m + n, NEW j \in 1 .. m + n, i < j
                 PROVE  r[i] # r[j] /\ at(r[i]) <= at(r[j])
      BY <2>6 DEF InOrder, at
    <3>1. CASE j <= m
      <4>1. i \in 1 .. m /\ j \in 1 .. m /\ r[i] = p[i] /\ r[j] = p[j]
        BY <2>2, <2>5, <3>1
      <4>2. QED
        BY <2>1, <4>1
    <3>2. CASE i > m
      <4>1. i - m \in 1 .. n /\ j - m \in 1 .. n /\ i - m < j - m
            /\ r[i] = q[i - m] /\ r[j] = q[j - m]
        BY <2>2, <2>5, <3>2
      <4>2. QED
        BY <2>1, <4>1
    <3>3. CASE i <= m /\ j > m
      <4>1. i \in 1 .. m /\ j - m \in 1 .. n /\ r[i] = p[i] /\ r[j] = q[j - m]
        BY <2>2, <2>5, <3>3
      <4>2. r[i] \in P /\ r[j] \in Q
        BY <2>1, <4>1
      <4>3. QED
        BY <1>4, <1>6, <4>2
    <3>4. QED
      BY <2>2, <3>1, <3>2, <3>3
  <2>8. \A lt \in J : \E i \in DOMAIN r : r[i] = lt
    <3> SUFFICES ASSUME NEW lt \in J PROVE \E i \in 1 .. m + n : r[i] = lt
      BY <2>6
    <3>1. CASE lt \in P
      <4>1. PICK i \in 1 .. m : p[i] = lt
        BY <2>1, <3>1
      <4>2. i \in 1 .. m + n /\ r[i] = p[i]
        BY <2>2, <2>5
      <4>3. QED
        BY <4>1, <4>2
    <3>2. CASE lt \in Q
      <4>1. PICK i \in 1 .. n : q[i] = lt
        BY <2>1, <3>2
      <4>2. m + i \in 1 .. m + n /\ ~(m + i <= m) /\ (m + i) - m = i
        BY <2>2
      <4>3. QED
        BY <2>5, <4>1, <4>2
    <3>3. QED
      BY <1>5, <3>1, <3>2
  <2>9. QED
    BY <2>2, <2>6, <2>7, <2>8 DEF Listings, r
<1>9. Answerable(s, joined) <=> Answerable(s, first) /\ Answerable(s, second)
  BY <1>5 DEF Answerable, P, Q, J
<1>10. QED
  BY <1>4, <1>5, <1>8, <1>9 DEF P, Q, J

-----------------------------------------------------------------------------
(***************************************************************************)
(* The contract's operators on requests, read through the instance, are    *)
(* those of this module.                                                   *)
(***************************************************************************)
LEMMA SameSize == \A S : Contract!Cardinality(S) = Cardinality(S)
BY DEF Contract!Cardinality, Cardinality

LEMMA SameClock ==
  \A l, x : /\ Contract!Place(l, x) = Place(l, x)
            /\ Contract!Wall(l, x) = Wall(l, x)
            /\ \A f, u : Contract!InWindow(x, f, u) = InWindow(x, f, u)
BY DEF Contract!Place, Place, Contract!Wall, Wall, Contract!Offset, Offset, Contract!InWindow, InWindow

LEMMA SameZones ==
  \A s : /\ Contract!Resolvable(s.timeZone, s.timeZones)
              = Resolvable(s.timeZone, s.timeZones)
         /\ Contract!Loc(s) = Loc(s)
         /\ Contract!DtStart(s) = DtStart(s)
<1>1. \A id, zones : /\ Contract!Resolvable(id, zones) = Resolvable(id, zones)
                     /\ Contract!Resolve(id, zones) = Resolve(id, zones)
  BY DEF Contract!Resolvable, Resolvable, Contract!Resolve, Resolve, Contract!IsFixed, IsFixed, Contract!FixedZone, FixedZone, Contract!UTC, UTC
<1>2. QED
  BY <1>1, SameClock DEF Contract!Loc, Loc, Contract!DtStart, DtStart

LEMMA SameRules ==
  \A r, l, d : /\ Contract!Buildable(r) = Buildable(r)
               /\ Contract!Instants(r, l, d) = Instants(r, l, d)
<1>1. \A r, l : Contract!Buildable(r) = Buildable(r) /\ Contract!ROption(r, l) = ROption(r, l)
  BY SameClock DEF Contract!Buildable, Buildable, Contract!Frequencies, Frequencies, Contract!ROption, ROption
<1>2. \A o, f, x : /\ Contract!OnInterval(o, f, x) = OnInterval(o, f, x)
                   /\ Contract!AtHour(o, f, x) = AtHour(o, f, x)
  BY DEF Contract!OnInterval, OnInterval, Contract!AtHour, AtHour, Contract!Day, Day, Contract!Hour, Hour
<1>3. \A o, l, d : Contract!Candidates(o, l, d) = Candidates(o, l, d)
  BY <1>2, SameClock DEF Contract!Candidates, Candidates
<1>4. \A c, n : Contract!Counted(c, n) = Counted(c, n)
  BY SameSize DEF Contract!Counted, Counted
<1>5. \A r, l, d : Contract!Nominal(r, l, d) = Nominal(r, l, d)
  BY <1>1, <1>3, <1>4 DEF Contract!Nominal, Nominal
<1>6. QED
  BY <1>1, <1>5, SameClock DEF Contract!Instants, Instants

LEMMA SameBodies ==
  \A s, rid : /\ Contract!Body(s, rid) = Body(s, rid)
              /\ Contract!Builds(s, rid) = Builds(s, rid)
<1>1. \A s, rid : Contract!Stamped(s, rid) = Stamped(s, rid)
  BY DEF Contract!Stamped, Stamped, Contract!Recurs, Recurs, Contract!Members, Members
<1>2. \A o, q : Contract!Patched(o, q) = Patched(o, q)
  BY DEF Contract!Patched, Patched, Contract!Members, Members
<1>3. QED
  BY <1>1, <1>2 DEF Contract!Body, Body, Contract!Builds, Builds, Contract!Applies, Applies, Contract!Decodes, Decodes

LEMMA SameSets ==
  \A s, w : Contract!RecurrenceIds(s, w) = RecurrenceIds(s, w)
<1>1. \A s : /\ Contract!Regular(s) = Regular(s)
             /\ Contract!Excluded(s) = Excluded(s)
  <2>1. \A s, r : Contract!Ids(s, r) = Ids(s, r)
    BY SameClock, SameZones, SameRules DEF Contract!Ids, Ids
  <2>2. QED
    BY <2>1 DEF Contract!Regular, Regular, Contract!Excluded, Excluded
<1>2. \A s : /\ Contract!Dropped(s) = Dropped(s)
             /\ Contract!Added(s) = Added(s)
  BY DEF Contract!Dropped, Dropped, Contract!Added, Added, Contract!Excludes, Excludes
<1>3. \A s, w, S : Contract!Visible(s, w, S) = Visible(s, w, S)
  BY SameClock, SameZones DEF Contract!Visible, Visible
<1>4. QED
  BY <1>1, <1>2, <1>3 DEF Contract!RecurrenceIds, RecurrenceIds

LEMMA SameWords ==
  \A s, w :
    /\ Contract!Answerable(s, w) = Answerable(s, w)
    /\ \A l, S : Contract!Listings(l, S) = Listings(l, S)
<1>1. \A s : Contract!Usable(s) = Usable(s)
  BY SameZones, SameRules DEF Contract!Usable, Usable, Contract!HasStart, HasStart, Contract!Marshals, Marshals
<1>2. \A s, w : Contract!Answerable(s, w) = Answerable(s, w)
  BY <1>1, SameSets, SameBodies DEF Contract!Answerable, Answerable
<1>3. \A l, S : Contract!Listings(l, S) = Listings(l, S)
  BY SameClock, SameSize DEF Contract!Listings, Listings, Contract!InOrder, InOrder
<1>4. QED
  BY <1>2, <1>3

-----------------------------------------------------------------------------
(***************************************************************************)
(* Every step belongs to a call that has not returned, and leaves its      *)
(* request alone.                                                          *)
(***************************************************************************)
LEMMA StepOfACall ==
  ASSUME Next
  PROVE  phase \notin {"done", "failed"} /\ UNCHANGED <<series, window>>
BY DEF Next, CheckMaster, ResolveZone, ExpandRule, EndRules, SubtractRule, EndExcluded,
   ApplyOverrideKey, ClipAndSort, BuildOccurrence, Return, Fail

(***************************************************************************)
(* The step that ends the call is the contract's one step.                 *)
(***************************************************************************)
LEMMA LastStepAnswers ==
  ASSUME IInv', Next, phase' \in {"done", "failed"}
  PROVE  Contract!Answer
<1> DEFINE request == [series |-> series, window |-> window]
           reply   == [status |-> CASE phase = "done"   -> "ok"
                                    [] phase = "failed" -> "error"
                                    [] OTHER            -> "pending",
                       occurrences |-> IF phase = "done" THEN out ELSE <<>>]
<1>1. /\ phase \notin {"done", "failed"}
      /\ series' = series /\ window' = window
  BY StepOfACall
<1>2. reply = Contract!Pending /\ request' = request
  BY <1>1 DEF Contract!Pending
<1>3. request.series = series /\ request.window = window
  OBVIOUS
<1>4. CASE phase' = "failed"
  <2>1. ~Contract!Answerable(series, window)
    <3>1. ~Answerable(series', window')
      BY <1>4 DEF IInv, Verdict
    <3>2. QED
      BY <1>1, <3>1, SameWords
  <2>2. reply' = Contract!Error
    BY <1>4 DEF Contract!Error
  <2> HIDE DEF request, reply
  <2>3. QED
    BY <1>2, <1>3, <2>1, <2>2 DEF Contract!Answer, request, reply
<1>5. CASE phase' = "done"
  <2>1. Answerable(series', window')
    BY <1>5 DEF IInv, Verdict
  <2>2. Contract!Answerable(series, window)
    BY <1>1, <2>1, SameWords
  <2>3. ids' \in Listings(Loc(series'), RecurrenceIds(series', window'))
    BY <1>5 DEF IInv, Construction, loc
  <2>4. ids' \in Contract!Listings(Contract!Loc(series), Contract!RecurrenceIds(series, window))
    BY <1>1, <2>3, SameWords, SameSets, SameZones
  <2>5. DOMAIN ids' = 1 .. next' - 1
    BY <1>5 DEF IInv, TypeOK, Construction
  <2>6. out' = [i \in DOMAIN ids' |-> Body(series', ids'[i])]
    BY <1>5, <2>5 DEF IInv, Construction
  <2>7. out' = [i \in DOMAIN ids' |-> Contract!Body(series, ids'[i])]
    BY <1>1, <2>6, SameBodies
  <2>8. reply' = [status |-> "ok",
                  occurrences |-> [i \in DOMAIN ids' |-> Contract!Body(series, ids'[i])]]
    BY <1>5, <2>7
  <2> HIDE DEF request, reply
  <2>9. \E q \in Contract!Listings(Contract!Loc(request.series),
                                   Contract!RecurrenceIds(request.series, request.window)) :
          reply' = [status |-> "ok",
                    occurrences |-> [i \in DOMAIN q |-> Contract!Body(request.series, q[i])]]
    BY <1>3, <2>4, <2>8
  <2>10. QED
    BY <1>2, <1>3, <2>2, <2>9 DEF Contract!Answer, request, reply
<1>6. QED
  BY <1>4, <1>5

(***************************************************************************)
(* Occurrences implements its contract: seen from its caller, the call is  *)
(* one step that answers with the recurrence set of the request, or with   *)
(* an error when and only when some part it needs cannot be used.          *)
(***************************************************************************)
THEOREM Refinement == Spec => ImplementsContract
<1>1. Init => Contract!Init
  BY SeriesAssumption DEF Init, Contract!Init, Contract!Pending
<1>2. IInv' /\ [Next]_vars =>
        [Contract!Next]_<<[series |-> series, window |-> window],
                          [status |-> CASE phase = "done"   -> "ok"
                                        [] phase = "failed" -> "error"
                                        [] OTHER            -> "pending",
                           occurrences |-> IF phase = "done" THEN out ELSE <<>>]>>
  <2> SUFFICES ASSUME IInv', [Next]_vars
               PROVE  [Contract!Next]_<<[series |-> series, window |-> window],
                          [status |-> CASE phase = "done"   -> "ok"
                                        [] phase = "failed" -> "error"
                                        [] OTHER            -> "pending",
                           occurrences |-> IF phase = "done" THEN out ELSE <<>>]>>
    OBVIOUS
  <2>1. CASE UNCHANGED vars
    BY <2>1 DEF vars
  <2>2. CASE Next /\ phase' \in {"done", "failed"}
    BY <2>2, LastStepAnswers DEF Contract!Next
  <2>3. CASE Next /\ phase' \notin {"done", "failed"}
    BY <2>3, StepOfACall
  <2>4. QED
    BY <2>1, <2>2, <2>3
<1>3. QED
  BY <1>1, <1>2, Invariance, PTL DEF Spec, ImplementsContract, Contract!Spec

=============================================================================
