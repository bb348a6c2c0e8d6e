-------------------------- MODULE RecurringObject --------------------------
(***************************************************************************)
(* A recurring Event or Task as recur/recur.go reads it, and the pure      *)
(* parts of its expansion: which requests are refused, which recurrence    *)
(* ids a window shows, what one instance looks like.                       *)
(*                                                                         *)
(* A master is a record: start, recurrenceId and recurrenceIdTimeZone (each*)
(* Absent when unset), title (for every member expansion carries along),   *)
(* timeZone, timeZones, rules, excluded, and overrides, a function from    *)
(* the override keys to their patches.  The key grammar admits one text    *)
(* per LocalDateTime, so a key that parses is that wall-clock value.       *)
(***************************************************************************)
EXTENDS RecurrenceRule, Sequences

CONSTANTS
  BadKeys,   \* override keys ParseLocalDateTime rejects
  Absent,    \* a member an object does not have
  Null,      \* the JSON null, in a patch the removal sentinel
  Junk       \* a start value no LocalDateTime decodes from

(***************************************************************************)
(* An override patch maps the pointers it names to values.  "dangling"     *)
(* stands for any pointer whose parent is absent: ApplyPatch fails on it.  *)
(***************************************************************************)
Members  == {"start", "recurrenceId", "recurrenceIdTimeZone",
             "recurrenceRules", "excludedRecurrenceRules",
             "recurrenceOverrides", "title", "excluded"}
Pointers == Members \cup {"dangling"}

(***************************************************************************)
(* start is Absent for a nil Start and Junk for field values json.Marshal  *)
(* refuses.                                                                *)
(***************************************************************************)
HasStart(s)   == s.start # Absent
Marshals(s)   == s.start # Junk
Loc(s)        == Resolve(s.timeZone, s.timeZones)
DtStart(s)    == Place(Loc(s), s.start)
Recurs(s)     == Len(s.rules) > 0 \/ DOMAIN s.overrides # {}

(***************************************************************************)
(* isExcludedOverride: only a JSON true excludes; null, false and values   *)
(* that do not decode leave the override an ordinary patch.                *)
(***************************************************************************)
Excludes(patch) == "excluded" \in DOMAIN patch /\ patch["excluded"] = "true"

(***************************************************************************)
(* The stripped and stamped master, the patch laid over it (a null         *)
(* removes), and the two ways one instance can fail.                       *)
(***************************************************************************)
StampedUnstripped(s, rid) ==
  [m \in Members |->
     CASE m = "start"               -> rid
       [] m = "recurrenceOverrides" -> IF DOMAIN s.overrides = {} THEN Absent ELSE "overrides"
       [] m = "title"               -> s.title
       [] OTHER                     -> Absent]

Stamped(s, rid) ==
  [m \in Members |->
     CASE m = "start"                -> rid
       [] m = "recurrenceId"         -> IF Recurs(s) THEN rid ELSE s.recurrenceId
       [] m = "recurrenceIdTimeZone" -> IF Recurs(s) /\ s.timeZone # Floating
                                        THEN s.timeZone
                                        ELSE s.recurrenceIdTimeZone
       [] m = "title"                -> s.title
       [] OTHER                      -> Absent]

Patched(object, patch) ==
  [m \in Members |->
     IF m \notin DOMAIN patch THEN object[m]
     ELSE IF patch[m] = Null THEN Absent ELSE patch[m]]

Body(s, rid) ==
  IF rid \in DOMAIN s.overrides THEN Patched(Stamped(s, rid), s.overrides[rid])
  ELSE Stamped(s, rid)

Applies(s, rid) ==
  rid \in DOMAIN s.overrides => "dangling" \notin DOMAIN s.overrides[rid]
Decodes(object) == object["start"] # Junk
Builds(s, rid)  == Applies(s, rid) /\ Decodes(Body(s, rid))

-----------------------------------------------------------------------------
Ids(s, rule) == {Wall(Loc(s), t) : t \in Instants(rule, Loc(s), DtStart(s))}

Regular(s) ==
  IF s.rules = <<>> THEN {s.start}
  ELSE UNION {Ids(s, s.rules[i]) : i \in 1 .. Len(s.rules)}

Excluded(s) == UNION {Ids(s, s.excluded[i]) : i \in 1 .. Len(s.excluded)}

Dropped(s) == {k \in DOMAIN s.overrides : Excludes(s.overrides[k])}
Added(s)   == DOMAIN s.overrides \ Dropped(s)

Visible(s, w, ids) == {lt \in ids : InWindow(Place(Loc(s), lt), w.from, w.until)}

RecurrenceIds(s, w) ==
  Visible(s, w, ((Regular(s) \ Excluded(s)) \ Dropped(s)) \cup Added(s))

(***************************************************************************)
(* The requests Occurrences refuses.                                       *)
(***************************************************************************)
Usable(s) ==
  /\ HasStart(s)
  /\ Marshals(s)
  /\ Resolvable(s.timeZone, s.timeZones)
  /\ \A i \in 1 .. Len(s.rules) : Buildable(s.rules[i])
  /\ \A i \in 1 .. Len(s.excluded) : Buildable(s.excluded[i])
  /\ DOMAIN s.overrides \cap BadKeys = {}

Answerable(s, w) == Usable(s) /\ \A rid \in RecurrenceIds(s, w) : Builds(s, rid)

(***************************************************************************)
(* A listing of a set of ids in the order of their instants; ids that fall *)
(* on one instant come in any order.                                       *)
(***************************************************************************)
InOrder(loc, q) ==
  \A i, j \in DOMAIN q : i < j => /\ q[i] # q[j]
                                  /\ Place(loc, q[i]) <= Place(loc, q[j])

Listings(loc, ids) ==
  {q \in [1 .. Cardinality(ids) -> ids] :
     InOrder(loc, q) /\ \A lt \in ids : \E i \in DOMAIN q : q[i] = lt}

=============================================================================
