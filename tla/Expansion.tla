----------------------------- MODULE Expansion -----------------------------
(***************************************************************************)
(* recur.Occurrences (and TaskOccurrences, which mirrors it) step by step: *)
(* the checks on the master, the zone, one step per rule and per excluded  *)
(* rule, one step per override key in Go's unspecified map order, the clip *)
(* and sort, and one step per instance built.  Any step may end the call   *)
(* with an error, and the caller then gets no instance at all.             *)
(***************************************************************************)
EXTENDS RecurringObject

CONSTANTS
  Series,    \* the masters a caller may pass
  Windows    \* the windows [from, until] a caller may ask for

ASSUME SeriesAssumption ==
  /\ Windows \subseteq [from : Int, until : Int]
  /\ {Absent, Junk} \cap Int = {}
  /\ BadKeys \cap Int = {}
  /\ \A s \in Series :
       /\ s.start \in Int \cup {Absent, Junk}
       /\ s.rules \in Seq(Rule)
       /\ s.excluded \in Seq(Rule)
       /\ DOMAIN s.overrides \subseteq Int \cup BadKeys
       /\ IsFiniteSet(DOMAIN s.overrides)
       /\ \A z \in DOMAIN s.timeZones : s.timeZones[z] \subseteq Int \cup {Malformed}

VARIABLES
  series,    \* the master passed in
  window,    \* [from, until]
  phase,     \* the part of the call being executed
  next,      \* the loop index of that part
  produced,  \* keys of the produced map
  pending,   \* override keys the map iteration has still to visit
  patches,   \* keys of the patches map
  ids,       \* the sorted recurrence ids
  out        \* the instances built so far

vars == <<series, window, phase, next, produced, pending, patches, ids, out>>

loc     == Loc(series)
dtstart == DtStart(series)

Phases == {"master", "zone", "rules", "excluded", "overrides", "build",
           "done", "failed"}

Init ==
  /\ series \in Series
  /\ window \in Windows
  /\ phase = "master"
  /\ next = 1
  /\ produced = {}
  /\ pending = DOMAIN series.overrides
  /\ patches = {}
  /\ ids = <<>>
  /\ out = <<>>

Fail ==
  /\ phase' = "failed"
  /\ out' = <<>>
  /\ UNCHANGED <<series, window, next, produced, pending, patches, ids>>

-----------------------------------------------------------------------------
(***************************************************************************)
(* The nil-start check and the marshalling of the master.                  *)
(***************************************************************************)
CheckMaster ==
  /\ phase = "master"
  /\ IF HasStart(series) /\ Marshals(series)
     THEN /\ phase' = "zone"
          /\ UNCHANGED <<series, window, next, produced, pending, patches, ids, out>>
     ELSE Fail

(***************************************************************************)
(* resolveLocation; without rules the master start seeds the set.          *)
(***************************************************************************)
ResolveZone ==
  /\ phase = "zone"
  /\ IF Resolvable(series.timeZone, series.timeZones)
     THEN /\ phase' = "rules"
          /\ produced' = IF series.rules = <<>> THEN {series.start} ELSE {}
          /\ UNCHANGED <<series, window, next, pending, patches, ids, out>>
     ELSE Fail

(***************************************************************************)
(* What Between returns for a rule, as keys of the produced map.           *)
(***************************************************************************)
BetweenOf(rule) == Between(Instants(rule, loc, dtstart), window.from, window.until)

KeysOfRule(rule) ==
  {Wall(loc, t) : t \in {u \in BetweenOf(rule) : InWindow(u, window.from, window.until)}}

KeysOfExcludedOpen(rule) ==
  {Wall(loc, t) : t \in {u \in BetweenOf(rule) : window.from < u}}

KeysOfExcluded(rule) == {Wall(loc, t) : t \in BetweenOf(rule)}

ExpandRule ==
  /\ phase = "rules"
  /\ next <= Len(series.rules)
  /\ IF Buildable(series.rules[next])
     THEN /\ produced' = produced \cup KeysOfRule(series.rules[next])
          /\ next' = next + 1
          /\ UNCHANGED <<series, window, phase, pending, patches, ids, out>>
     ELSE Fail

EndRulesEarly ==
  /\ phase = "rules"
  /\ next >= Len(series.rules)
  /\ phase' = "excluded"
  /\ next' = 1
  /\ UNCHANGED <<series, window, produced, pending, patches, ids, out>>

EndRules ==
  /\ phase = "rules"
  /\ next > Len(series.rules)
  /\ phase' = "excluded"
  /\ next' = 1
  /\ UNCHANGED <<series, window, produced, pending, patches, ids, out>>

SubtractRule ==
  /\ phase = "excluded"
  /\ next <= Len(series.excluded)
  /\ IF Buildable(series.excluded[next])
     THEN /\ produced' = produced \ KeysOfExcluded(series.excluded[next])
          /\ next' = next + 1
          /\ UNCHANGED <<series, window, phase, pending, patches, ids, out>>
     ELSE Fail

EndExcluded ==
  /\ phase = "excluded"
  /\ next > Len(series.excluded)
  /\ phase' = "overrides"
  /\ next' = 1
  /\ UNCHANGED <<series, window, produced, pending, patches, ids, out>>

(***************************************************************************)
(* One iteration of applyOverrideKeys, on any key not yet visited.         *)
(***************************************************************************)
ApplyOverrideKeyAgain(key) ==
  /\ phase = "overrides"
  /\ key \in pending \ BadKeys
  /\ produced' = produced \cup {key}
  /\ patches' = patches \cup {key}
  /\ UNCHANGED <<series, window, phase, next, pending, ids, out>>

ApplyOverrideKeyUnread(key) ==
  /\ phase = "overrides"
  /\ key \in pending
  /\ IF key \in BadKeys THEN Fail
     ELSE /\ pending' = pending \ {key}
          /\ produced' = produced \cup {key}
          /\ patches' = patches \cup {key}
          /\ UNCHANGED <<series, window, phase, next, ids, out>>

ApplyOverrideKey(key) ==
  /\ phase = "overrides"
  /\ key \in pending
  /\ IF key \in BadKeys THEN Fail
     ELSE /\ pending' = pending \ {key}
          /\ IF Excludes(series.overrides[key])
             THEN /\ produced' = produced \ {key}
                  /\ UNCHANGED patches
             ELSE /\ produced' = produced \cup {key}
                  /\ patches' = patches \cup {key}
          /\ UNCHANGED <<series, window, phase, next, ids, out>>

(***************************************************************************)
(* The final clip and sort.  The ids reach slices.SortFunc in map order    *)
(* and the sort is not stable, so ids on one instant come in any order.    *)
(***************************************************************************)
ClipAndSort ==
  /\ phase = "overrides"
  /\ pending = {}
  /\ ids' \in Listings(loc, Visible(series, window, produced))
  /\ phase' = "build"
  /\ UNCHANGED <<series, window, next, produced, pending, patches, out>>

(***************************************************************************)
(* buildOccurrence and the decode of its result, for ids[next].            *)
(***************************************************************************)
PatchOf(rid) == IF rid \in patches THEN series.overrides[rid] ELSE <<>>

BuildOccurrence ==
  /\ phase = "build"
  /\ next <= Len(ids)
  /\ LET patch    == PatchOf(ids[next])
         occ      == Patched(Stamped(series, ids[next]), patch)
     IN  IF "dangling" \notin DOMAIN patch /\ Decodes(occ)
         THEN /\ out' = Append(out, occ)
              /\ next' = next + 1
              /\ UNCHANGED <<series, window, phase, produced, pending, patches, ids>>
         ELSE Fail

Return ==
  /\ phase = "build"
  /\ next > Len(ids)
  /\ phase' = "done"
  /\ UNCHANGED <<series, window, next, produced, pending, patches, ids, out>>

Next ==
  \/ CheckMaster
  \/ ResolveZone
  \/ ExpandRule
  \/ EndRules
  \/ SubtractRule
  \/ EndExcluded
  \/ \E key \in pending : ApplyOverrideKey(key)
  \/ ClipAndSort
  \/ BuildOccurrence
  \/ Return

Spec == Init /\ [][Next]_vars

-----------------------------------------------------------------------------
(***************************************************************************)
(* The types of the variables.                                             *)
(***************************************************************************)
TypeOK ==
  /\ series \in Series
  /\ window \in Windows
  /\ phase \in Phases
  /\ next \in Nat \ {0}
  /\ produced \subseteq Int
  /\ IsFiniteSet(produced)
  /\ pending \subseteq DOMAIN series.overrides
  /\ patches \subseteq DOMAIN series.overrides \ pending
  /\ ids \in Seq(Int)
  /\ Len(out) <= Len(ids)

(***************************************************************************)
(* The closed forms of the set at the end of the rule loop and of the      *)
(* excluded-rule loop, up to index n.                                      *)
(***************************************************************************)
AfterRules(n) ==
  IF series.rules = <<>> THEN {series.start}
  ELSE UNION {KeysOfRule(series.rules[i]) : i \in 1 .. n - 1}

AfterExcluded(n) ==
  AfterRules(Len(series.rules) + 1)
    \ UNION {KeysOfExcluded(series.excluded[i]) : i \in 1 .. n - 1}

Visited == DOMAIN series.overrides \ pending

AfterOverrides ==
  (AfterExcluded(Len(series.excluded) + 1) \ (Dropped(series) \cap Visited))
    \cup (Added(series) \cap Visited)

(***************************************************************************)
(* Whatever the order in which the override map is walked, the set under   *)
(* construction and the recorded patches are those of the keys visited so  *)
(* far, and the ids and instances built are a listing of the recurrence    *)
(* set of the request and its first bodies: no step of the call has lost,  *)
(* duplicated or revived an instance.                                      *)
(***************************************************************************)
Construction ==
  /\ phase \in {"master", "zone"} =>
       next = 1 /\ produced = {} /\ pending = DOMAIN series.overrides
  /\ phase = "rules" =>
       /\ next \in 1 .. Len(series.rules) + 1
       /\ produced = AfterRules(next)
       /\ pending = DOMAIN series.overrides
  /\ phase = "excluded" =>
       /\ next \in 1 .. Len(series.excluded) + 1
       /\ produced = AfterExcluded(next)
       /\ pending = DOMAIN series.overrides
  /\ phase = "overrides" => next = 1 /\ produced = AfterOverrides
  /\ phase \in {"overrides", "build", "done"} =>
       patches = Added(series) \cap Visited
  /\ phase \notin {"build", "done"} => out = <<>>
  /\ phase \in {"build", "done"} =>
       /\ pending = {}
       /\ next \in 1 .. Len(ids) + 1
       /\ phase = "done" => next = Len(ids) + 1
       /\ ids \in Listings(loc, RecurrenceIds(series, window))
       /\ out = [i \in 1 .. next - 1 |-> Body(series, ids[i])]

(***************************************************************************)
(* The call fails for a cause and only for a cause: the parts it has gone  *)
(* through are usable, an error means that the request is one no order of  *)
(* the same work could have answered, a reply that nothing was skipped.    *)
(***************************************************************************)
BuildableUpTo(rules, n) == \A i \in 1 .. n : Buildable(rules[i])

Verdict ==
  /\ phase \notin {"master", "failed"} => HasStart(series) /\ Marshals(series)
  /\ phase \notin {"master", "zone", "failed"} =>
       Resolvable(series.timeZone, series.timeZones)
  /\ phase = "rules" => BuildableUpTo(series.rules, next - 1)
  /\ phase \in {"excluded", "overrides", "build", "done"} =>
       BuildableUpTo(series.rules, Len(series.rules))
  /\ phase = "excluded" => BuildableUpTo(series.excluded, next - 1)
  /\ phase \in {"overrides", "build", "done"} =>
       /\ BuildableUpTo(series.excluded, Len(series.excluded))
       /\ Visited \cap BadKeys = {}
  /\ phase \in {"build", "done"} => \A i \in 1 .. next - 1 : Builds(series, ids[i])
  /\ phase = "done" => Answerable(series, window)
  /\ phase = "failed" => ~Answerable(series, window)

(***************************************************************************)
(* Occurrences as its caller sees it: the call is one atomic answer that   *)
(* RecurrenceSet allows, an error being the whole answer.                  *)
(***************************************************************************)
Contract == INSTANCE RecurrenceSet WITH
  request <- [series |-> series, window |-> window],
  reply   <- [status |-> CASE phase = "done"   -> "ok"
                           [] phase = "failed" -> "error"
                           [] OTHER            -> "pending",
              occurrences |-> IF phase = "done" THEN out ELSE <<>>]

ImplementsContract == Contract!Spec

-----------------------------------------------------------------------------
(***************************************************************************)
(* recur/doc.go: the wall-clock time is kept constant across a transition. *)
(* Ids that daily rules produce show the hour of the master's start, or,   *)
(* on a day whose clock skips that hour, the one shown in its stead.       *)
(***************************************************************************)
KeepsWallClock ==
  (/\ phase = "done"
   /\ series.rules # <<>>
   /\ \A i \in DOMAIN series.rules :
        /\ series.rules[i].frequency = "daily"
        /\ series.rules[i].byHour = {})
    => \A i \in DOMAIN ids :
         \/ ids[i] \in patches
         \/ \E lt \in Horizon :
              /\ Hour(lt) = Hour(series.start)
              /\ ids[i] = lt \/ (InGap(loc, lt) /\ ids[i] = Wall(loc, Place(loc, lt)))

(***************************************************************************)
(* The code keeps it for every master but one that starts inside a gap.    *)
(***************************************************************************)
KeepsWallClockOutsideGap ==
  phase = "done" /\ ~InGap(loc, series.start) => KeepsWallClock

(***************************************************************************)
(* recurrence.go: Count bounds the recurrence to a fixed number of         *)
(* instances, over all windows together and not in each, and an override   *)
(* that excludes one of them does not make room for another: what windows  *)
(* show and what is excluded are no more than the count.  (The count the   *)
(* documentation calls an explicit zero does not bound anything.)          *)
(***************************************************************************)
CountBounds ==
  (/\ phase = "done"
   /\ Len(series.rules) = 1
   /\ series.rules[1].count \notin {None, 0})
    => LET shown == {ids[i] : i \in DOMAIN ids}
                      \cup UNION {RecurrenceIds(series, w) : w \in Windows}
       IN  Cardinality((shown \ patches) \cup (Dropped(series) \cap Regular(series)))
             <= series.rules[1].count

(***************************************************************************)
(* recur/recur.go: the series-level recurrence properties are stripped, an *)
(* instance does not itself recur.  One of the three is there only when    *)
(* the override of that very instance sets it, and then to what that       *)
(* override says: none comes from the master or from another override.     *)
(***************************************************************************)
SeriesMembers == {"recurrenceRules", "excludedRecurrenceRules", "recurrenceOverrides"}

InstanceDoesNotRecur ==
  \A i \in DOMAIN out, m \in SeriesMembers :
    out[i][m] # Absent
      => /\ ids[i] \in DOMAIN series.overrides
         /\ m \in DOMAIN series.overrides[ids[i]]
         /\ out[i][m] = series.overrides[ids[i]][m]

=============================================================================
