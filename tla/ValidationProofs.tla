-------------------------- MODULE ValidationProofs --------------------------
(***************************************************************************)
(* Proofs about Validation: the order of the reports is fixed by the       *)
(* object, an accepted group's entries are routed alike by Group.Entry and *)
(* Parse, and what is reported is all that breaks a MUST and nothing else. *)
(* The last needs that a receiver has only the members of its Go type; the *)
(* others hold of any record.                                              *)
(***************************************************************************)
EXTENDS Validation, SequenceTheorems, TLAPS

(***************************************************************************)
(* A violation names a place of the object in the group it was found in.   *)
(***************************************************************************)
Faults ==
  {"mismatch", "missing", "not permitted", "frequency", "bounds", "key", "root uid",
   "pointer", "undefined", "type"}

ReportsAt(group, at) == [group : {group}, at : {at}, what : Faults]

Reports(o) == UNION {UNION {ReportsAt(g, at) : at \in Places(o, g)} : g \in Range(Groups)}

TypeInv ==
  /\ phase \in 1 .. Len(Groups) + 1
  /\ phase <= Len(Groups) => left \subseteq Places(object, Groups[phase])
  /\ phase > Len(Groups) => left = {}
  /\ errs \in Seq(Reports(object))

(***************************************************************************)
(* What was reported lies before all that is still to be visited.          *)
(***************************************************************************)
Ahead ==
  \A n \in DOMAIN errs :
    \/ PhaseOf(errs[n].group) < phase
    \/ /\ errs[n].group = Groups[phase] /\ phase <= Len(Groups)
       /\ \A at \in left : PathBefore(errs[n].at, at)

(***************************************************************************)
(* As long as nothing was reported, every entry that was visited is of a   *)
(* type a group may hold.                                                  *)
(***************************************************************************)
EntriesPhase == 10

EntriesRouted ==
  (object.kind = "Group" /\ errs = <<>>) =>
    \A i \in DOMAIN object.entries :
      \/ phase < EntriesPhase
      \/ phase = EntriesPhase /\ << <<i>> >> \in left
      \/ Routed(object.entries[i])

-----------------------------------------------------------------------------
(***************************************************************************)
(* The groups are ten and distinct: PhaseOf inverts Groups.                *)
(***************************************************************************)
LEMMA GroupsFacts ==
  /\ Len(Groups) = EntriesPhase /\ DOMAIN Groups = 1 .. EntriesPhase
  /\ Groups[EntriesPhase] = "entries"
  /\ \A p \in 1 .. EntriesPhase : Groups[p] \in Range(Groups) /\ PhaseOf(Groups[p]) = p
  /\ \A g \in Range(Groups) : PhaseOf(g) \in 1 .. EntriesPhase
<1>1. Len(Groups) = 10 /\ DOMAIN Groups = 1 .. 10 /\ Groups[10] = "entries"
  BY DEF Groups
<1>2. \A p, q \in 1 .. 10 : Groups[p] = Groups[q] => p = q
  BY DEF Groups
<1>3. QED
  BY <1>1, <1>2 DEF EntriesPhase, PhaseOf, Range

(***************************************************************************)
(* Of two sequences of at most one element the concatenation has two       *)
(* positions only if both have one.                                        *)
(***************************************************************************)
LEMMA BothSingle ==
  ASSUME NEW p \in Nat, NEW q \in Nat, p <= 1, q <= 1,
         NEW m \in 1 .. p + q, NEW n \in 1 .. p + q, m < n
  PROVE  p = 1 /\ q = 1 /\ m = 1 /\ n = 2
OBVIOUS

LEMMA BriefConcat ==
  ASSUME NEW S, NEW s \in Seq(S), NEW t \in Seq(S), Len(s) <= 1, Len(t) <= 1
  PROVE  /\ s \o t \in Seq(S)
         /\ \A m, n \in 1 .. Len(s \o t) : m < n =>
              Len(s) = 1 /\ Len(t) = 1 /\ (s \o t)[m] = s[1] /\ (s \o t)[n] = t[1]
<1> DEFINE c == s \o t
<1>1. /\ c \in Seq(S) /\ Len(c) = Len(s) + Len(t)
      /\ \A i \in 1 .. Len(s) + Len(t) : c[i] = IF i <= Len(s) THEN s[i] ELSE t[i - Len(s)]
  BY ConcatProperties
<1>2. Len(s) \in Nat /\ Len(t) \in Nat
  OBVIOUS
<1> HIDE DEF c
<1>3. ASSUME NEW m \in 1 .. Len(c), NEW n \in 1 .. Len(c), m < n
      PROVE  Len(s) = 1 /\ Len(t) = 1 /\ c[m] = s[1] /\ c[n] = t[1]
  <2>1. m \in 1 .. Len(s) + Len(t) /\ n \in 1 .. Len(s) + Len(t)
    BY <1>1, <1>3
  <2>2. Len(s) = 1 /\ Len(t) = 1 /\ m = 1 /\ n = 2
    BY <1>2, <1>3, <2>1, BothSingle
  <2>3. QED
    BY <1>1, <2>2
<1>4. QED
  BY <1>1, <1>3 DEF c

(***************************************************************************)
(* The checks at one place report there, the frequency of a rule before    *)
(* its bounds.                                                             *)
(***************************************************************************)
LEMMA ChecksReport ==
  ASSUME NEW o, NEW group \in Range(Groups), NEW at
  PROVE  /\ Checks(o, group, at) \in Seq(ReportsAt(group, at))
         /\ \A m, n \in DOMAIN Checks(o, group, at) : m < n =>
              /\ Checks(o, group, at)[m].what = "frequency"
              /\ Checks(o, group, at)[n].what = "bounds"
<1> DEFINE Fine == {s \in Seq(ReportsAt(group, at)) : \A m, n \in DOMAIN s : m < n =>
                     s[m].what = "frequency" /\ s[n].what = "bounds"}
<1>8. ASSUME NEW what \in Faults
      PROVE  /\ Violation(group, at, what) \in ReportsAt(group, at)
             /\ Violation(group, at, what).what = what
  BY DEF Violation, ReportsAt, Faults
<1>9. ASSUME NEW v \in ReportsAt(group, at) PROVE <<>> \in Fine /\ <<v>> \in Fine
  OBVIOUS
<1>1. <<>> \in Fine /\ \A what \in Faults : <<Violation(group, at, what)>> \in Fine
  BY <1>8, <1>9 DEF Faults
<1>2. ASSUME NEW rule PROVE RuleChecks(group, at, rule) \in Fine
  <2> DEFINE f == If(rule.frequency \notin Frequencies, Violation(group, at, "frequency"))
             b == If(rule.count /\ rule.until, Violation(group, at, "bounds"))
         Brief(what) == {s \in Seq(ReportsAt(group, at)) :
                           Len(s) <= 1 /\ \A m \in 1 .. Len(s) : s[m].what = what}
  <2>1. ASSUME NEW what \in Faults
        PROVE  <<>> \in Brief(what) /\ <<Violation(group, at, what)>> \in Brief(what)
    BY <1>8
  <2>2. f \in Brief("frequency")
    <3>1. f = <<>> \/ f = <<Violation(group, at, "frequency")>>
      BY Zenon DEF If
    <3>2. QED
      <4> HIDE DEF f, b, Brief
      <4> QED
        BY <2>1, <3>1, Zenon DEF Faults
  <2>3. b \in Brief("bounds")
    <3>1. b = <<>> \/ b = <<Violation(group, at, "bounds")>>
      BY Zenon DEF If
    <3>2. QED
      <4> HIDE DEF f, b, Brief
      <4> QED
        BY <2>1, <3>1, Zenon DEF Faults
  <2>5. ASSUME NEW s, NEW t, s \in Brief("frequency"), t \in Brief("bounds")
        PROVE  s \o t \in Fine
    <3>1. /\ s \o t \in Seq(ReportsAt(group, at))
          /\ \A m, n \in 1 .. Len(s \o t) : m < n =>
               Len(s) = 1 /\ Len(t) = 1 /\ (s \o t)[m] = s[1] /\ (s \o t)[n] = t[1]
      BY <2>5, BriefConcat
    <3>2. DOMAIN (s \o t) = 1 .. Len(s \o t)
      BY <3>1
    <3>3. Len(s) = 1 /\ Len(t) = 1 => s[1].what = "frequency" /\ t[1].what = "bounds"
      BY <2>5
    <3>4. QED
      BY <3>1, <3>2, <3>3
  <2>4. QED
    <3> HIDE DEF f, b, Brief, Fine
    <3>1. f \o b \in Fine
      BY <2>2, <2>3, <2>5
    <3>2. QED
      BY <3>1 DEF RuleChecks, f, b
<1>3. ASSUME group \in {"recurrenceOverrides", "localizations"}
      PROVE  PointerCheck(group, at) \in Fine
  <2> HIDE DEF Fine
  <2>1. QED
    BY <1>1 DEF PointerCheck, If, Faults
<1>4. Checks(o, group, at) \in Fine
  <2> HIDE DEF Fine
  <2>1. group \in {"@type", "uid", "due", "recurrenceRules", "excludedRecurrenceRules",
                   "recurrenceOverrides", "localizations", "timeZone", "timeZones", "entries"}
    BY DEF Groups, Range
  <2>2. CASE group = "@type"
    <3>1. Checks(o, group, at) = <<>> \/ Checks(o, group, at) = <<Violation(group, at, "mismatch")>>
      BY <2>2 DEF Checks, If
    <3>2. QED
      BY <1>1, <3>1, Zenon DEF Faults
  <2>3. CASE group = "uid"
    <3>1. Checks(o, group, at) = <<>> \/ Checks(o, group, at) = <<Violation(group, at, "missing")>>
      BY <2>3 DEF Checks, If
    <3>2. QED
      BY <1>1, <3>1, Zenon DEF Faults
  <2>4. CASE group = "due"
    <3>1. Checks(o, group, at) = <<>> \/ Checks(o, group, at) = <<Violation(group, at, "not permitted")>>
      BY <2>4 DEF Checks, If
    <3>2. QED
      BY <1>1, <3>1, Zenon DEF Faults
  <2>5. CASE group = "recurrenceRules"
    BY <1>2, <2>5 DEF Checks
  <2>6. CASE group = "excludedRecurrenceRules"
    BY <1>2, <2>6 DEF Checks
  <2>7. CASE group = "recurrenceOverrides"
    <3>1. \/ Checks(o, group, at) = <<>>
          \/ Checks(o, group, at) = <<Violation(group, at, "key")>>
          \/ Checks(o, group, at) = PointerCheck(group, at)
      BY <2>7 DEF Checks, If, OverrideKeyCheck
    <3>2. QED
      BY <1>1, <1>3, <2>7, <3>1, Zenon DEF Faults
  <2>8. CASE group = "localizations"
    BY <1>3, <2>8 DEF Checks
  <2>9. CASE group = "timeZone"
    <3>1. Checks(o, group, at) = <<>> \/ Checks(o, group, at) = <<Violation(group, at, "undefined")>>
      BY <2>9 DEF Checks, If, ZoneCheck
    <3>2. QED
      BY <1>1, <3>1, Zenon DEF Faults
  <2>10. CASE group = "timeZones"
    BY <1>2, <2>10 DEF Checks
  <2>11. CASE group = "entries"
    <3>1. Checks(o, group, at) = <<>> \/ Checks(o, group, at) = <<Violation(group, at, "type")>>
      BY <2>11 DEF Checks, If, EntryCheck
    <3>2. QED
      BY <1>1, <3>1, Zenon DEF Faults
  <2>12. QED
    BY <2>1, <2>2, <2>3, <2>4, <2>5, <2>6, <2>7, <2>8, <2>9, <2>10, <2>11
<1>5. QED
  BY <1>4

-----------------------------------------------------------------------------
IInv == TypeInv /\ Ahead /\ Ordered /\ EntriesRouted

(***************************************************************************)
(* What a loop body adds to the report is about the place it visits.       *)
(***************************************************************************)
LEMMA VisitAdds ==
  ASSUME TypeInv, NEW at \in left, VisitAt(at)
  PROVE  LET new == Checks(object, Groups[phase], at)
         IN  /\ phase \in 1 .. EntriesPhase
             /\ errs' \in Seq(Reports(object))
             /\ Len(errs') = Len(errs) + Len(new)
             /\ \A n \in 1 .. Len(errs) : errs'[n] = errs[n]
             /\ \A n \in Len(errs) + 1 .. Len(errs') :
                  /\ n - Len(errs) \in 1 .. Len(new) /\ errs'[n] = new[n - Len(errs)]
                  /\ errs'[n].group = Groups[phase] /\ errs'[n].at = at
<1> DEFINE new == Checks(object, Groups[phase], at)
<1>1. phase \in 1 .. EntriesPhase /\ Groups[phase] \in Range(Groups)
  BY GroupsFacts DEF TypeInv
<1>2. new \in Seq(ReportsAt(Groups[phase], at))
  BY <1>1, ChecksReport
<1>3. at \in Places(object, Groups[phase])
  BY <1>1, GroupsFacts DEF TypeInv
<1>4. ReportsAt(Groups[phase], at) \subseteq Reports(object)
  BY <1>1, <1>3 DEF Reports
<1>5. errs' = errs \o new /\ errs \in Seq(Reports(object)) /\ new \in Seq(Reports(object))
  BY <1>2, <1>4 DEF VisitAt, TypeInv
<1>6. Len(errs) \in Nat /\ Len(new) \in Nat /\ \A n \in 1 .. Len(new) : new[n] \in ReportsAt(Groups[phase], at)
  BY <1>2, <1>5
<1> HIDE DEF new
<1>7. /\ errs' \in Seq(Reports(object)) /\ Len(errs') = Len(errs) + Len(new)
      /\ \A n \in 1 .. Len(errs) + Len(new) :
           errs'[n] = IF n <= Len(errs) THEN errs[n] ELSE new[n - Len(errs)]
  BY <1>5, ConcatProperties
<1>8. \A n \in 1 .. Len(errs) : errs'[n] = errs[n]
  BY <1>6, <1>7
<1>9. ASSUME NEW n \in Len(errs) + 1 .. Len(errs')
      PROVE  /\ n - Len(errs) \in 1 .. Len(new) /\ errs'[n] = new[n - Len(errs)]
             /\ errs'[n].group = Groups[phase] /\ errs'[n].at = at
  <2>1. n - Len(errs) \in 1 .. Len(new) /\ errs'[n] = new[n - Len(errs)]
    BY <1>6, <1>7
  <2>2. QED
    BY <1>6, <2>1 DEF ReportsAt
<1>10. QED
  BY <1>1, <1>7, <1>8, <1>9 DEF new

LEMMA ReportGroups ==
  ASSUME TypeInv, NEW n \in DOMAIN errs
  PROVE  errs[n].group \in Range(Groups)
<1>1. errs[n] \in Reports(object)
  BY DEF TypeInv
<1>2. QED
  BY <1>1 DEF Reports, ReportsAt

LEMMA Initial == Init => IInv
<1> SUFFICES ASSUME Init PROVE IInv
  OBVIOUS
<1>1. TypeInv
  BY GroupsFacts DEF Init, TypeInv, EntriesPhase
<1>2. Ahead /\ Ordered
  BY DEF Init, Ahead, Ordered
<1>3. EntriesRouted
  BY DEF Init, EntriesRouted, EntriesPhase
<1>4. QED
  BY <1>1, <1>2, <1>3 DEF IInv

(***************************************************************************)
(* A place that is visited comes before all that are left, and the reports *)
(* made there after all the others.                                        *)
(***************************************************************************)
LEMMA VisitKeeps == IInv /\ Visit => IInv'
<1> SUFFICES ASSUME IInv, Visit PROVE IInv'
  OBVIOUS
<1> USE DEF IInv
<1>1. PICK at \in left :
        (\A other \in left \ {at} : PathBefore(at, other)) /\ VisitAt(at)
  BY DEF Visit
<1> DEFINE new == Checks(object, Groups[phase], at)
<1>2. left' = left \ {at} /\ object' = object /\ phase' = phase
  BY <1>1 DEF VisitAt
<1>3. /\ phase \in 1 .. EntriesPhase /\ errs' \in Seq(Reports(object))
      /\ Len(errs') = Len(errs) + Len(new)
      /\ \A n \in 1 .. Len(errs) : errs'[n] = errs[n]
      /\ \A n \in Len(errs) + 1 .. Len(errs') :
           /\ n - Len(errs) \in 1 .. Len(new) /\ errs'[n] = new[n - Len(errs)]
           /\ errs'[n].group = Groups[phase] /\ errs'[n].at = at
  BY <1>1, VisitAdds
<1>4. /\ PhaseOf(Groups[phase]) = phase /\ Groups[phase] \in Range(Groups)
      /\ phase <= Len(Groups) /\ Len(Groups) = EntriesPhase
  BY <1>3, GroupsFacts DEF EntriesPhase
<1>5. /\ errs \in Seq(Reports(object)) /\ Len(errs) \in Nat /\ DOMAIN errs = 1 .. Len(errs)
      /\ DOMAIN errs' = 1 .. Len(errs')
  BY <1>3 DEF TypeInv
<1>6. DOMAIN new = 1 .. Len(new) /\ Len(new) \in Nat
  <2>1. new \in Seq(ReportsAt(Groups[phase], at))
    BY <1>4, ChecksReport
  <2> HIDE DEF new
  <2>2. QED
    BY <2>1
<1>7. \A m, n \in 1 .. Len(new) : m < n => new[m].what = "frequency" /\ new[n].what = "bounds"
  BY <1>4, <1>6, ChecksReport
<1> HIDE DEF new
<1>8. TypeInv'
  BY <1>2, <1>3, <1>4 DEF TypeInv
<1>9. Ahead'
  <2> SUFFICES ASSUME NEW n \in 1 .. Len(errs')
               PROVE  \/ PhaseOf(errs'[n].group) < phase
                      \/ /\ errs'[n].group = Groups[phase]
                         /\ \A p \in left' : PathBefore(errs'[n].at, p)
    BY <1>2, <1>4, <1>5 DEF Ahead
  <2>1. CASE n \in 1 .. Len(errs)
    BY <1>2, <1>3, <1>5, <2>1 DEF Ahead
  <2>2. CASE n \in Len(errs) + 1 .. Len(errs')
    BY <1>1, <1>2, <1>3, <2>2
  <2>3. QED
    BY <1>5, <2>1, <2>2
<1>10. Ordered'
  <2> SUFFICES ASSUME NEW m \in 1 .. Len(errs'), NEW n \in 1 .. Len(errs'), m < n
               PROVE  ReportedBefore(errs'[m], errs'[n])
    BY <1>5 DEF Ordered
  <2>1. CASE n \in 1 .. Len(errs)
    BY <1>3, <1>5, <2>1 DEF Ordered
  <2>2. CASE m \in 1 .. Len(errs) /\ n \in Len(errs) + 1 .. Len(errs')
    <3>1. errs'[m] = errs[m] /\ errs'[n].group = Groups[phase] /\ errs'[n].at = at
      BY <1>3, <2>2
    <3>2. \/ PhaseOf(errs[m].group) < phase
          \/ errs[m].group = Groups[phase] /\ PathBefore(errs[m].at, at)
      BY <1>5, <2>2 DEF Ahead
    <3>3. QED
      BY <1>4, <3>1, <3>2 DEF ReportedBefore
  <2>3. CASE m \in Len(errs) + 1 .. Len(errs') /\ n \in Len(errs) + 1 .. Len(errs')
    <3>1. /\ errs'[m].group = errs'[n].group /\ errs'[m].at = errs'[n].at
          /\ m - Len(errs) \in 1 .. Len(new) /\ errs'[m] = new[m - Len(errs)]
          /\ n - Len(errs) \in 1 .. Len(new) /\ errs'[n] = new[n - Len(errs)]
      BY <1>3, <2>3
    <3>2. m - Len(errs) < n - Len(errs)
      BY <1>5
    <3>3. errs'[m].what = "frequency" /\ errs'[n].what = "bounds"
      BY <1>7, <3>1, <3>2
    <3>4. QED
      BY <3>1, <3>3 DEF ReportedBefore
  <2>4. QED
    BY <1>5, <2>1, <2>2, <2>3
<1>11. EntriesRouted'
  <2> SUFFICES ASSUME object.kind = "Group", errs' = <<>>, NEW i \in DOMAIN object.entries
               PROVE  \/ phase < EntriesPhase
                      \/ phase = EntriesPhase /\ << <<i>> >> \in left'
                      \/ Routed(object.entries[i])
    BY <1>2 DEF EntriesRouted
  <2>1. Len(errs) = 0 /\ Len(new) = 0
    BY <1>3, <1>5, <1>6
  <2>2. errs = <<>>
    BY <1>5, <2>1
  <2>3. CASE phase = EntriesPhase /\ at = << <<i>> >>
    <3>1. new = EntryCheck(object.entries[i], at)
      BY <2>3, GroupsFacts DEF new, Checks
    <3>2. ~Routed(object.entries[i]) => Len(new) = 1
      <4>1. ASSUME ~Routed(object.entries[i])
            PROVE  new = <<Violation("entries", at, "type")>>
        BY <3>1, <4>1, Zenon DEF EntryCheck, If
      <4>2. QED
        BY <4>1
    <3>3. QED
      BY <2>1, <3>2
  <2>4. CASE ~(phase = EntriesPhase /\ at = << <<i>> >>)
    BY <1>2, <2>2, <2>4 DEF EntriesRouted
  <2>5. QED
    BY <2>3, <2>4
<1>12. QED
  BY <1>8, <1>9, <1>10, <1>11

(***************************************************************************)
(* A group is left when all its places were visited.                       *)
(***************************************************************************)
LEMMA NextGroupKeeps == IInv /\ NextGroup => IInv'
<1> SUFFICES ASSUME IInv, NextGroup PROVE IInv'
  OBVIOUS
<1> USE DEF IInv
<1>1. /\ left = {} /\ phase \in 1 .. EntriesPhase - 1 /\ phase' = phase + 1
      /\ left' = Places(object, Groups[phase + 1]) /\ object' = object /\ errs' = errs
  BY GroupsFacts DEF NextGroup, TypeInv, EntriesPhase
<1>2. TypeInv'
  BY <1>1, GroupsFacts DEF TypeInv, EntriesPhase
<1>3. Ahead'
  <2> SUFFICES ASSUME NEW n \in DOMAIN errs PROVE PhaseOf(errs[n].group) < phase'
    BY <1>1 DEF Ahead
  <2>1. PhaseOf(errs[n].group) <= phase /\ PhaseOf(errs[n].group) \in Int
    BY <1>1, GroupsFacts, ReportGroups DEF Ahead, EntriesPhase
  <2>2. QED
    BY <1>1, <2>1 DEF EntriesPhase
<1>4. Ordered'
  BY <1>1 DEF Ordered
<1>5. EntriesRouted'
  <2>1. CASE phase' < EntriesPhase
    BY <2>1 DEF EntriesRouted
  <2>2. CASE phase' = EntriesPhase /\ object.kind = "Group"
    <3>1. left' = Places(object, "entries")
      BY <1>1, <2>2, GroupsFacts
    <3>2. Places(object, "entries") = ListPlaces(object.entries)
      BY <2>2 DEF Places, PlacesIn, GroupsOf
    <3>3. \A i \in DOMAIN object.entries : << <<i>> >> \in left'
      BY <3>1, <3>2 DEF ListPlaces
    <3>4. QED
      BY <1>1, <2>2, <3>3 DEF EntriesRouted
  <2>3. CASE object.kind # "Group"
    BY <1>1, <2>3 DEF EntriesRouted
  <2>4. QED
    BY <1>1, <2>1, <2>2, <2>3 DEF EntriesPhase
<1>6. QED
  BY <1>2, <1>3, <1>4, <1>5

LEMMA ReturnKeeps == IInv /\ Return => IInv'
<1> SUFFICES ASSUME IInv, Return PROVE IInv'
  OBVIOUS
<1> USE DEF IInv
<1>1. /\ left = {} /\ phase = EntriesPhase /\ phase' = EntriesPhase + 1
      /\ left' = {} /\ object' = object /\ errs' = errs
  BY GroupsFacts DEF Return
<1>2. TypeInv'
  BY <1>1, GroupsFacts DEF TypeInv, EntriesPhase
<1>3. Ahead'
  <2> SUFFICES ASSUME NEW n \in DOMAIN errs PROVE PhaseOf(errs[n].group) < phase'
    BY <1>1 DEF Ahead
  <2>1. PhaseOf(errs[n].group) <= phase /\ PhaseOf(errs[n].group) \in Int
    BY <1>1, GroupsFacts, ReportGroups DEF Ahead, EntriesPhase
  <2>2. QED
    BY <1>1, <2>1 DEF EntriesPhase
<1>4. Ordered'
  BY <1>1 DEF Ordered
<1>5. EntriesRouted'
  BY <1>1 DEF EntriesRouted, EntriesPhase
<1>6. QED
  BY <1>2, <1>3, <1>4, <1>5

(***************************************************************************)
(* What the checks maintain from phase to phase, for any objects.          *)
(***************************************************************************)
THEOREM Inductive == Spec => []IInv
<1>1. IInv /\ [Next]_vars => IInv'
  <2> SUFFICES ASSUME IInv, [Next]_vars PROVE IInv'
    OBVIOUS
  <2>1. CASE Visit
    BY <2>1, VisitKeeps
  <2>2. CASE NextGroup
    BY <2>2, NextGroupKeeps
  <2>3. CASE Return
    BY <2>3, ReturnKeeps
  <2>4. CASE UNCHANGED vars
    BY <2>4 DEF vars, IInv, TypeInv, Ahead, Ordered, EntriesRouted
  <2>5. QED
    BY <2>1, <2>2, <2>3, <2>4 DEF Next
<1>2. QED
  BY Initial, <1>1, PTL DEF Spec

-----------------------------------------------------------------------------
(***************************************************************************)
(* Whatever order the places of a map are offered in, the report is        *)
(* ordered by group, path and check: it is a function of the object.       *)
(***************************************************************************)
THEOREM ReportsOrdered == Spec => []Ordered
<1>1. IInv => Ordered
  BY DEF IInv
<1>2. QED
  BY Inductive, <1>1, PTL

(***************************************************************************)
(* Group.Entry and Parse agree on every entry of a group that Validate     *)
(* accepts.                                                                *)
(***************************************************************************)
THEOREM AcceptedRoutedAlike == Spec => []SameRouting
<1>1. IInv => SameRouting
  <2> SUFFICES ASSUME IInv, phase = Len(Groups) + 1, errs = <<>>, object.kind = "Group",
                      NEW i \in DOMAIN object.entries
               PROVE  Entry(object.entries[i]) = Parse(object.entries[i])
    BY DEF SameRouting, Accepted, Returned
  <2>1. Routed(object.entries[i])
    BY GroupsFacts DEF IInv, EntriesRouted, EntriesPhase
  <2>2. QED
    BY <2>1 DEF Routed, Entry, Parse, Dispatch
<1>2. QED
  BY Inductive, <1>1, PTL

-----------------------------------------------------------------------------
(***************************************************************************)
(* What is reported in a group, over all its places.                       *)
(***************************************************************************)
Found(o, group) == UNION {Range(Checks(o, group, at)) : at \in Places(o, group)}

LEMMA IfSpec ==
  ASSUME NEW test \in BOOLEAN, NEW v
  PROVE  \A w : w \in Range(If(test, v)) <=> test /\ w = v
<1>1. CASE test
  <2>1. If(test, v) = <<v>>
    BY <1>1 DEF If
  <2>2. DOMAIN <<v>> = {1} /\ <<v>>[1] = v
    OBVIOUS
  <2>3. QED
    BY <1>1, <2>1, <2>2 DEF Range
<1>2. CASE ~test
  <2>1. If(test, v) = <<>>
    BY <1>2 DEF If
  <2>2. QED
    BY <1>2, <2>1 DEF Range
<1>3. QED
  BY <1>1, <1>2

LEMMA FoundSpec ==
  ASSUME NEW o, NEW group
  PROVE  \A v : v \in Found(o, group) <=> \E at \in Places(o, group) : v \in Range(Checks(o, group, at))
<1> DEFINE found(at) == Range(Checks(o, group, at))
<1> SUFFICES ASSUME NEW v
             PROVE  v \in UNION {found(at) : at \in Places(o, group)} <=>
                      \E at \in Places(o, group) : v \in found(at)
  BY DEF Found
<1> HIDE DEF found
<1>1. QED
  OBVIOUS

LEMMA RangeConcat ==
  ASSUME NEW S, NEW s \in Seq(S), NEW T, NEW t \in Seq(T)
  PROVE  Range(s \o t) = Range(s) \cup Range(t)
<1>1. s \in Seq(S \cup T) /\ t \in Seq(S \cup T) /\ Len(s) \in Nat /\ Len(t) \in Nat
  OBVIOUS
<1>2. /\ s \o t \in Seq(S \cup T) /\ Len(s \o t) = Len(s) + Len(t)
      /\ \A i \in 1 .. Len(s) + Len(t) : (s \o t)[i] = IF i <= Len(s) THEN s[i] ELSE t[i - Len(s)]
  BY <1>1, ConcatProperties
<1>3. DOMAIN s = 1 .. Len(s) /\ DOMAIN t = 1 .. Len(t) /\ DOMAIN (s \o t) = 1 .. Len(s) + Len(t)
  BY <1>1, <1>2
<1> DEFINE c == s \o t
<1> HIDE DEF c
<1>4. ASSUME NEW v \in Range(c) PROVE v \in Range(s) \cup Range(t)
  <2>1. PICK i \in 1 .. Len(s) + Len(t) : v = c[i]
    BY <1>3, <1>4 DEF Range, c
  <2>2. CASE i <= Len(s)
    <3>1. i \in 1 .. Len(s) /\ v = s[i]
      BY <1>1, <1>2, <2>1, <2>2 DEF c
    <3>2. QED
      BY <1>3, <3>1 DEF Range
  <2>3. CASE ~(i <= Len(s))
    <3>1. i - Len(s) \in 1 .. Len(t) /\ v = t[i - Len(s)]
      BY <1>1, <1>2, <2>1, <2>3 DEF c
    <3>2. QED
      BY <1>3, <3>1 DEF Range
  <2>4. QED
    BY <2>2, <2>3
<1>5. ASSUME NEW v \in Range(s) PROVE v \in Range(c)
  <2>1. PICK i \in 1 .. Len(s) : v = s[i]
    BY <1>3 DEF Range
  <2>2. i \in 1 .. Len(s) + Len(t) /\ c[i] = v
    BY <1>1, <1>2, <2>1 DEF c
  <2>3. QED
    BY <1>3, <2>2 DEF Range, c
<1>6. ASSUME NEW v \in Range(t) PROVE v \in Range(c)
  <2>1. PICK i \in 1 .. Len(t) : v = t[i]
    BY <1>3 DEF Range
  <2>2. Len(s) + i \in 1 .. Len(s) + Len(t) /\ c[Len(s) + i] = v
    <3>1. Len(s) + i \in 1 .. Len(s) + Len(t) /\ ~(Len(s) + i <= Len(s)) /\ (Len(s) + i) - Len(s) = i
      BY <1>1, <2>1
    <3>2. QED
      BY <1>2, <2>1, <3>1 DEF c
  <2>3. QED
    BY <1>3, <2>2 DEF Range, c
<1>7. QED
  BY <1>4, <1>5, <1>6 DEF c

LEMMA RuleSpec ==
  ASSUME NEW group, NEW at, NEW rule
  PROVE  \A v : v \in Range(RuleChecks(group, at, rule)) <=>
                  \/ rule.frequency \notin Frequencies /\ v = Violation(group, at, "frequency")
                  \/ (rule.count /\ rule.until) /\ v = Violation(group, at, "bounds")
<1> DEFINE f == rule.frequency \notin Frequencies
           b == rule.count /\ rule.until
           vf == Violation(group, at, "frequency")
           vb == Violation(group, at, "bounds")
<1>1. f \in BOOLEAN /\ b \in BOOLEAN
  BY Zenon
<1>2. RuleChecks(group, at, rule) = If(f, vf) \o If(b, vb)
  BY DEF RuleChecks
<1> HIDE DEF f, b, vf, vb
<1>3. /\ \A w : w \in Range(If(f, vf)) <=> f /\ w = vf
      /\ \A w : w \in Range(If(b, vb)) <=> b /\ w = vb
  BY <1>1, IfSpec
<1>4. If(f, vf) \in Seq({vf}) /\ If(b, vb) \in Seq({vb})
  <2>1. (If(f, vf) = <<>> \/ If(f, vf) = <<vf>>) /\ (If(b, vb) = <<>> \/ If(b, vb) = <<vb>>)
    BY Zenon DEF If
  <2>2. ASSUME NEW v PROVE <<>> \in Seq({v}) /\ <<v>> \in Seq({v})
    OBVIOUS
  <2>3. QED
    BY <2>1, <2>2, Zenon
<1>5. Range(If(f, vf) \o If(b, vb)) = Range(If(f, vf)) \cup Range(If(b, vb))
  BY <1>4, RangeConcat
<1>6. \A v : v \in Range(RuleChecks(group, at, rule)) <=> (f /\ v = vf) \/ (b /\ v = vb)
  BY <1>2, <1>3, <1>5
<1>7. QED
  BY <1>6 DEF f, b, vf, vb

(***************************************************************************)
(* What is collected: the reports of the places visited so far, and no     *)
(* others.                                                                 *)
(***************************************************************************)
Visited(group, at) ==
  \/ PhaseOf(group) < phase
  \/ phase \in 1 .. EntriesPhase /\ group = Groups[phase] /\ at \notin left

Collected ==
  \A v : v \in Range(errs) <=>
           \E g \in Range(Groups) : \E at \in Places(object, g) :
             Visited(g, at) /\ v \in Range(Checks(object, g, at))

LEMMA VisitedSoFar ==
  ASSUME NEW g \in Range(Groups), phase \in 1 .. EntriesPhase
  PROVE  PhaseOf(g) = phase <=> g = Groups[phase]
<1>1. PICK p \in 1 .. EntriesPhase : g = Groups[p]
  BY GroupsFacts DEF Range
<1>2. QED
  BY <1>1, GroupsFacts

LEMMA CollectedInit == Init => Collected
<1> SUFFICES ASSUME Init PROVE Collected
  OBVIOUS
<1>1. Range(errs) = {}
  BY DEF Init, Range
<1>2. phase = 1 /\ 1 \in 1 .. EntriesPhase /\ left = Places(object, Groups[1])
  BY DEF Init, EntriesPhase
<1>3. \A g \in Range(Groups) : ~(PhaseOf(g) < 1)
  BY GroupsFacts DEF EntriesPhase
<1>4. \A g \in Range(Groups) : \A at \in Places(object, g) : ~Visited(g, at)
  BY <1>2, <1>3 DEF Visited
<1>5. QED
  BY <1>1, <1>4 DEF Collected

LEMMA CollectedVisit == TypeInv /\ Collected /\ Visit => Collected'
<1> SUFFICES ASSUME TypeInv, Collected, Visit PROVE Collected'
  OBVIOUS
<1>1. PICK at \in left : VisitAt(at)
  BY DEF Visit
<1> DEFINE g0 == Groups[phase]
           new == Checks(object, g0, at)
           found(g, p) == Range(Checks(object, g, p))
<1>2. left' = left \ {at} /\ object' = object /\ phase' = phase /\ errs' = errs \o new
  BY <1>1 DEF VisitAt
<1>3. phase \in 1 .. EntriesPhase /\ g0 \in Range(Groups) /\ at \in Places(object, g0)
  BY <1>1, GroupsFacts DEF TypeInv
<1>4. new \in Seq(ReportsAt(g0, at))
  BY <1>3, ChecksReport
<1>5. errs \in Seq(Reports(object))
  BY DEF TypeInv
<1> HIDE DEF new
<1>6. Range(errs') = Range(errs) \cup Range(new)
  BY <1>2, <1>4, <1>5, RangeConcat
<1>7. Range(new) = found(g0, at)
  BY DEF new
<1>8. ~Visited(g0, at)
  BY <1>3, GroupsFacts DEF Visited, EntriesPhase
<1>9. \A g \in Range(Groups) : \A p \in Places(object, g) : Visited(g, p)' <=> Visited(g, p) \/ (g = g0 /\ p = at)
  <2> SUFFICES ASSUME NEW g \in Range(Groups), NEW p \in Places(object, g)
               PROVE  Visited(g, p)' <=> Visited(g, p) \/ (g = g0 /\ p = at)
    OBVIOUS
  <2>1. Visited(g, p)' <=> PhaseOf(g) < phase \/ (g = g0 /\ p \notin left \ {at})
    BY <1>2, <1>3 DEF Visited
  <2>2. Visited(g, p) <=> PhaseOf(g) < phase \/ (g = g0 /\ p \notin left)
    BY <1>3 DEF Visited
  <2> HIDE DEF g0
  <2>3. QED
    BY <2>1, <2>2
<1> HIDE DEF g0, found
<1>10. \A v : v \in Range(errs) <=> \E g \in Range(Groups) : \E p \in Places(object, g) : Visited(g, p) /\ v \in found(g, p)
  BY DEF Collected, found
<1>11. \A v : v \in Range(errs') <=> \E g \in Range(Groups) : \E p \in Places(object, g) : Visited(g, p)' /\ v \in found(g, p)
  <2> DEFINE was(g, p) == Visited(g, p)
             is(g, p) == Visited(g, p)'
             P(g) == Places(object, g)
             G == Range(Groups)
  <2>1. \A g \in G : \A p \in P(g) : is(g, p) <=> was(g, p) \/ (g = g0 /\ p = at)
    BY <1>9
  <2>2. \A v : v \in Range(errs) <=> \E g \in G : \E p \in P(g) : was(g, p) /\ v \in found(g, p)
    BY <1>10
  <2>3. g0 \in G /\ at \in P(g0)
    BY <1>3
  <2> HIDE DEF was, is, P, G
  <2>4. \A v : v \in Range(errs') <=> \E g \in G : \E p \in P(g) : is(g, p) /\ v \in found(g, p)
    <3> SUFFICES ASSUME NEW v
                 PROVE  v \in Range(errs') <=> \E g \in G : \E p \in P(g) : is(g, p) /\ v \in found(g, p)
      OBVIOUS
    <3>1. v \in Range(errs') <=> v \in Range(errs) \/ v \in found(g0, at)
      BY <1>6, <1>7
    <3>2. QED
      BY <3>1, <2>1, <2>2, <2>3
  <2>5. QED
    BY <2>4 DEF is, P, G
<1>12. QED
  BY <1>2, <1>11 DEF Collected, found

LEMMA CollectedPass ==
  ASSUME TypeInv, Collected, NextGroup \/ Return
  PROVE  Collected'
<1>1. /\ left = {} /\ phase \in 1 .. EntriesPhase /\ phase' = phase + 1
      /\ object' = object /\ errs' = errs
      /\ phase < EntriesPhase => left' = Places(object, Groups[phase + 1])
  BY GroupsFacts DEF NextGroup, Return, TypeInv, EntriesPhase
<1>2. \A g \in Range(Groups) : \A p \in Places(object, g) : Visited(g, p)' <=> Visited(g, p)
  <2> SUFFICES ASSUME NEW g \in Range(Groups), NEW p \in Places(object, g)
               PROVE  Visited(g, p)' <=> Visited(g, p)
    OBVIOUS
  <2>1. PhaseOf(g) \in 1 .. EntriesPhase /\ (PhaseOf(g) = phase <=> g = Groups[phase])
    BY <1>1, GroupsFacts, VisitedSoFar
  <2>2. Visited(g, p) <=> PhaseOf(g) <= phase
    BY <1>1, <2>1 DEF Visited, EntriesPhase
  <2>3. Visited(g, p)' <=> PhaseOf(g) < phase + 1
    <3>1. Visited(g, p)' <=> \/ PhaseOf(g) < phase + 1
                             \/ phase + 1 \in 1 .. EntriesPhase /\ g = Groups[phase + 1] /\ p \notin left'
      BY <1>1 DEF Visited
    <3>2. CASE phase < EntriesPhase
      BY <1>1, <3>1, <3>2
    <3>3. CASE phase = EntriesPhase
      BY <1>1, <3>1, <3>3 DEF EntriesPhase
    <3>4. QED
      BY <1>1, <3>2, <3>3 DEF EntriesPhase
  <2>4. QED
    BY <1>1, <2>1, <2>2, <2>3 DEF EntriesPhase
<1>3. QED
  BY <1>1, <1>2 DEF Collected

(***************************************************************************)
(* At every step the errors are the reports of the places visited so far.  *)
(***************************************************************************)
THEOREM CollectedAlways == Spec => []Collected
<1>1. IInv /\ Collected /\ [Next]_vars => Collected'
  <2> SUFFICES ASSUME IInv, Collected, [Next]_vars PROVE Collected'
    OBVIOUS
  <2>1. CASE Visit
    BY <2>1, CollectedVisit DEF IInv
  <2>2. CASE NextGroup \/ Return
    BY <2>2, CollectedPass DEF IInv
  <2>3. CASE UNCHANGED vars
    BY <2>3 DEF vars, Collected, Visited
  <2>4. QED
    BY <2>1, <2>2, <2>3 DEF Next
<1>2. QED
  BY Inductive, CollectedInit, <1>1, PTL DEF Spec

-----------------------------------------------------------------------------
(***************************************************************************)
(* The reports of one group of checks are the object's breaches of it.     *)
(***************************************************************************)
LEMMA NamedSpec ==
  ASSUME NEW test \in BOOLEAN, NEW v
  PROVE  \A w : w \in Named(test, v) <=> test /\ w = v
BY IfSpec DEF Named

LEMMA Appended ==
  ASSUME NEW S, NEW s \in Seq(S), NEW d \in S
  PROVE  /\ Append(s, d) \in Seq(S) /\ Len(Append(s, d)) = Len(s) + 1
         /\ \A i \in 1 .. Len(s) : Append(s, d)[i] = s[i]
         /\ Append(s, d)[Len(s) + 1] = d
<1>1. Append(s, d) \in Seq(S)
  BY AppendProperties
<1>2. Len(Append(s, d)) = Len(s) + 1
  BY AppendProperties
<1>3. \A i \in 1 .. Len(s) : Append(s, d)[i] = s[i]
  BY AppendProperties
<1>4. Append(s, d)[Len(s) + 1] = d
  BY AppendProperties
<1>5. QED
  BY <1>1, <1>2, <1>3, <1>4

LEMMA PathFacts ==
  ASSUME NEW a, NEW b, NEW c, NEW d
  PROVE  /\ Append(<<>>, a) = <<a>> /\ Append(<<a, b, c>>, d) = <<a, b, c, d>>
         /\ <<a>>[1] = a /\ Len(<<a>>) = 1
         /\ <<a, b>>[1] = a /\ <<a, b>>[2] = b /\ Len(<<a, b>>) = 2
         /\ <<a, b, c, d>>[1] = a /\ <<a, b, c, d>>[2] = b
         /\ <<a, b, c, d>>[3] = c /\ <<a, b, c, d>>[4] = d
<1>1. Append(<<>>, a) = <<a>>
  OBVIOUS
<1>2. Append(<<a, b, c>>, d) = <<a, b, c, d>>
  <2> DEFINE s == <<a, b, c>>
             t == <<a, b, c, d>>
             S == {a, b, c, d}
  <2>1. s \in Seq(S) /\ Len(s) = 3 /\ d \in S /\ t \in Seq(S) /\ Len(t) = 4
    OBVIOUS
  <2>2. t[1] = s[1] /\ t[2] = s[2] /\ t[3] = s[3] /\ t[4] = d
    OBVIOUS
  <2> HIDE DEF s, t, S
  <2>3. /\ Append(s, d) \in Seq(S) /\ Len(Append(s, d)) = 4
        /\ \A i \in 1 .. 4 : Append(s, d)[i] = t[i]
    <3>1. /\ Append(s, d) \in Seq(S) /\ Len(Append(s, d)) = 4
          /\ \A i \in 1 .. 3 : Append(s, d)[i] = s[i]
          /\ Append(s, d)[4] = d
      <4>1. /\ Append(s, d) \in Seq(S) /\ Len(Append(s, d)) = Len(s) + 1
            /\ \A i \in 1 .. Len(s) : Append(s, d)[i] = s[i]
            /\ Append(s, d)[Len(s) + 1] = d
        BY <2>1, Appended
      <4>2. QED
        BY <2>1, <4>1
    <3>2. 1 \in 1 .. 3 /\ 2 \in 1 .. 3 /\ 3 \in 1 .. 3
          /\ \A i \in 1 .. 4 : i \in {1, 2, 3, 4}
      OBVIOUS
    <3>3. /\ Append(s, d)[1] = t[1] /\ Append(s, d)[2] = t[2]
          /\ Append(s, d)[3] = t[3] /\ Append(s, d)[4] = t[4]
      BY <2>2, <3>1, <3>2
    <3>4. \A i \in 1 .. 4 : Append(s, d)[i] = t[i]
      BY <3>2, <3>3
    <3>5. QED
      BY <3>1, <3>4
  <2>4. Append(s, d) = t
    BY <2>1, <2>3, SeqEqual
  <2>5. QED
    BY <2>4 DEF s, t
<1>3. /\ <<a>>[1] = a /\ Len(<<a>>) = 1
      /\ <<a, b>>[1] = a /\ <<a, b>>[2] = b /\ Len(<<a, b>>) = 2
  OBVIOUS
<1>4. /\ <<a, b, c, d>>[1] = a /\ <<a, b, c, d>>[2] = b
      /\ <<a, b, c, d>>[3] = c /\ <<a, b, c, d>>[4] = d
  OBVIOUS
<1>5. QED
  BY <1>1, <1>2, <1>3, <1>4

LEMMA BadRulesSpec ==
  ASSUME NEW group, NEW prefix, NEW rules
  PROVE  \A v : v \in BadRules(group, prefix, rules) <=>
                  \E i \in DOMAIN rules : v \in Range(RuleChecks(group, Append(prefix, <<i>>), rules[i]))
<1> DEFINE f(i) == rules[i].frequency \notin Frequencies
           b(i) == rules[i].count /\ rules[i].until
           vf(i) == Violation(group, Append(prefix, <<i>>), "frequency")
           vb(i) == Violation(group, Append(prefix, <<i>>), "bounds")
           D == DOMAIN rules
           C(i) == Range(RuleChecks(group, Append(prefix, <<i>>), rules[i]))
<1>1. BadRules(group, prefix, rules) = {vf(i) : i \in {n \in D : f(n)}} \cup {vb(i) : i \in {n \in D : b(n)}}
  BY DEF BadRules
<1>2. \A i \in D : \A v : v \in C(i) <=> (f(i) /\ v = vf(i)) \/ (b(i) /\ v = vb(i))
  <2> SUFFICES ASSUME NEW i \in D, NEW v
               PROVE  v \in C(i) <=> (f(i) /\ v = vf(i)) \/ (b(i) /\ v = vb(i))
    OBVIOUS
  <2>1. \A w : w \in Range(RuleChecks(group, Append(prefix, <<i>>), rules[i])) <=>
                  \/ rules[i].frequency \notin Frequencies /\ w = Violation(group, Append(prefix, <<i>>), "frequency")
                  \/ (rules[i].count /\ rules[i].until) /\ w = Violation(group, Append(prefix, <<i>>), "bounds")
    BY RuleSpec
  <2>2. QED
    BY <2>1, Zenon
<1> HIDE DEF f, b, vf, vb, D, C
<1>3. \A v : v \in {vf(i) : i \in {n \in D : f(n)}} \cup {vb(i) : i \in {n \in D : b(n)}} <=> \E i \in D : v \in C(i)
  BY <1>2
<1>4. QED
  BY <1>1, <1>3 DEF D, C

(***************************************************************************)
(* A list of rules, one place to an index.                                 *)
(***************************************************************************)
LEMMA ListFound ==
  ASSUME NEW o, NEW group, NEW rules, Places(o, group) = ListPlaces(rules),
         \A i \in DOMAIN rules :
           Checks(o, group, << <<i>> >>) = RuleChecks(group, << <<i>> >>, rules[i])
  PROVE  Found(o, group) = BadRules(group, <<>>, rules)
<1>1. \A p : p \in Places(o, group) <=> \E i \in DOMAIN rules : p = << <<i>> >>
  BY DEF ListPlaces
<1>2. \A i : Append(<<>>, <<i>>) = << <<i>> >>
  BY PathFacts
<1>3. \A v : v \in BadRules(group, <<>>, rules) <=>
               \E i \in DOMAIN rules : v \in Range(RuleChecks(group, << <<i>> >>, rules[i]))
  BY <1>2, BadRulesSpec
<1>4. \A v : v \in Found(o, group) <=>
               \E i \in DOMAIN rules : v \in Range(Checks(o, group, << <<i>> >>))
  <2>1. \A v : v \in Found(o, group) <=>
                 \E p \in Places(o, group) : v \in Range(Checks(o, group, p))
    BY FoundSpec
  <2> DEFINE P == Places(o, group)
             C(p) == Range(Checks(o, group, p))
  <2>2. \A v : v \in Found(o, group) <=> \E p \in P : v \in C(p)
    BY <2>1
  <2>3. \A p : p \in P <=> \E i \in DOMAIN rules : p = << <<i>> >>
    BY <1>1
  <2> HIDE DEF P, C
  <2>4. \A v : v \in Found(o, group) <=> \E i \in DOMAIN rules : v \in C(<< <<i>> >>)
    BY <2>2, <2>3
  <2>5. QED
    BY <2>4 DEF C
<1>5. \A v : v \in Found(o, group) <=> v \in BadRules(group, <<>>, rules)
  BY <1>3, <1>4
<1>6. QED
  BY <1>5

(***************************************************************************)
(* The keys of the patches, one place to each.                             *)
(***************************************************************************)
LEMMA PointerPlacesSpec ==
  ASSUME NEW patches
  PROVE  \A p : p \in PointerPlaces(patches) <=>
                  \E k \in DOMAIN patches : \E q \in patches[k] : p = <<k, q>>
<1> DEFINE paths(k) == {<<k, q>> : q \in patches[k]}
<1>1. \A k, p : p \in paths(k) <=> \E q \in patches[k] : p = <<k, q>>
  OBVIOUS
<1> HIDE DEF paths
<1>2. \A p : p \in UNION {paths(k) : k \in DOMAIN patches} <=>
               \E k \in DOMAIN patches : \E q \in patches[k] : p = <<k, q>>
  BY <1>1
<1>3. QED
  BY <1>2 DEF PointerPlaces, paths

LEMMA PointerCheckSpec ==
  ASSUME NEW group, NEW k, NEW q
  PROVE  \A v : v \in Range(PointerCheck(group, <<k, q>>)) <=>
                  /\ q = UidText \/ ~ValidKey(q)
                  /\ v = Violation(group, <<k, q>>, IF q = UidText THEN "root uid" ELSE "pointer")
<1>1. <<k, q>>[2] = q
  OBVIOUS
<1>2. (~ValidKey(q)) \in BOOLEAN
  BY Zenon
<1>3. CASE q = UidText
  <2> DEFINE x == Violation(group, <<k, q>>, "root uid")
  <2>1. PointerCheck(group, <<k, q>>) = If(TRUE, x)
    BY <1>1, <1>3 DEF PointerCheck, If
  <2> HIDE DEF x
  <2>2. \A v : v \in Range(PointerCheck(group, <<k, q>>)) <=> v = x
    BY <2>1, IfSpec
  <2>3. QED
    BY <2>2, <1>3 DEF x
<1>4. CASE q # UidText
  <2> DEFINE x == Violation(group, <<k, q>>, "pointer")
  <2>1. PointerCheck(group, <<k, q>>) = If(~ValidKey(q), x)
    BY <1>1, <1>4, Zenon DEF PointerCheck
  <2> HIDE DEF x
  <2>2. \A v : v \in Range(PointerCheck(group, <<k, q>>)) <=> ~ValidKey(q) /\ v = x
    BY <2>1, <1>2, IfSpec
  <2>3. QED
    BY <2>2, <1>4 DEF x
<1>5. QED
  BY <1>3, <1>4

LEMMA BadPointersSpec ==
  ASSUME NEW group, NEW patches
  PROVE  \A v : v \in BadPointers(group, patches) <=>
                  \E k \in DOMAIN patches : \E q \in patches[k] :
                    v \in Range(PointerCheck(group, <<k, q>>))
<1> DEFINE bad(q) == q = UidText \/ ~ValidKey(q)
           x(k, q) == Violation(group, <<k, q>>, IF q = UidText THEN "root uid" ELSE "pointer")
           of(k) == {x(k, p) : p \in {q \in patches[k] : bad(q)}}
           C(k, q) == Range(PointerCheck(group, <<k, q>>))
<1>1. BadPointers(group, patches) = UNION {of(k) : k \in DOMAIN patches}
  BY DEF BadPointers
<1>2. \A k, q, v : v \in C(k, q) <=> bad(q) /\ v = x(k, q)
  BY PointerCheckSpec
<1> HIDE DEF bad, x, C
<1>3. \A k, v : v \in of(k) <=> \E q \in patches[k] : bad(q) /\ v = x(k, q)
  OBVIOUS
<1> HIDE DEF of
<1>4. \A v : v \in UNION {of(k) : k \in DOMAIN patches} <=>
               \E k \in DOMAIN patches : \E q \in patches[k] : v \in C(k, q)
  BY <1>2, <1>3
<1>5. QED
  BY <1>1, <1>4 DEF C

(***************************************************************************)
(* The rules of the zones' transitions, one place to each.                 *)
(***************************************************************************)
TransitionRules(zones, z, list, i) == Transitions(zones[z], list)[i]

LEMMA TransitionPlacesSpec ==
  ASSUME NEW zones
  PROVE  \A p : p \in TransitionPlaces(zones) <=>
                  \E z \in DOMAIN zones : \E list \in {Standard, Daylight} :
                    \E i \in DOMAIN Transitions(zones[z], list) :
                      \E j \in DOMAIN TransitionRules(zones, z, list, i) :
                        p = <<z, list, <<i>>, <<j>> >>
<1> DEFINE R(z, list, i) == DOMAIN TransitionRules(zones, z, list, i)
           L(z, list) == DOMAIN Transitions(zones[z], list)
           path(z, list, i, j) == <<z, list, <<i>>, <<j>> >>
           inner(z, list, i) == {path(z, list, i, j) : j \in R(z, list, i)}
           lists(z, list) == UNION {inner(z, list, i) : i \in L(z, list)}
<1>1. TransitionPlaces(zones) =
        UNION {lists(z, list) : z \in DOMAIN zones, list \in {Standard, Daylight}}
  BY DEF TransitionPlaces, TransitionRules
<1> HIDE DEF R, L, path
<1>2. \A z, list, i, p : p \in inner(z, list, i) <=> \E j \in R(z, list, i) : p = path(z, list, i, j)
  OBVIOUS
<1> HIDE DEF inner
<1>3. \A z, list, p : p \in lists(z, list) <=>
                        \E i \in L(z, list) : \E j \in R(z, list, i) : p = path(z, list, i, j)
  BY <1>2
<1> HIDE DEF lists
<1>4. \A p : p \in UNION {lists(z, list) : z \in DOMAIN zones, list \in {Standard, Daylight}} <=>
               \E z \in DOMAIN zones : \E list \in {Standard, Daylight} : p \in lists(z, list)
  OBVIOUS
<1>5. \A p : p \in TransitionPlaces(zones) <=>
               \E z \in DOMAIN zones : \E list \in {Standard, Daylight} :
                 \E i \in L(z, list) : \E j \in R(z, list, i) : p = path(z, list, i, j)
  BY <1>1, <1>3, <1>4
<1>6. QED
  BY <1>5 DEF R, L, path

BadZones(zones) ==
  UNION {BadTransitions(z, Standard, zones[z].standard)
           \cup BadTransitions(z, Daylight, zones[z].daylight) : z \in DOMAIN zones}

LEMMA BadTransitionsSpec ==
  ASSUME NEW z, NEW list, NEW transitions
  PROVE  \A v : v \in BadTransitions(z, list, transitions) <=>
                  \E i \in DOMAIN transitions : \E j \in DOMAIN transitions[i] :
                    v \in Range(RuleChecks("timeZones", <<z, list, <<i>>, <<j>> >>, transitions[i][j]))
<1> DEFINE bad(i) == BadRules("timeZones", <<z, list, <<i>> >>, transitions[i])
           C(i, j) == Range(RuleChecks("timeZones", <<z, list, <<i>>, <<j>> >>, transitions[i][j]))
           D(i) == DOMAIN transitions[i]
<1>1. BadTransitions(z, list, transitions) = UNION {bad(i) : i \in DOMAIN transitions}
  BY DEF BadTransitions
<1>2. ASSUME NEW i PROVE \A v : v \in bad(i) <=> \E j \in D(i) : v \in C(i, j)
  <2>1. \A v : v \in bad(i) <=> \E j \in DOMAIN transitions[i] :
          v \in Range(RuleChecks("timeZones", Append(<<z, list, <<i>> >>, <<j>>), transitions[i][j]))
    BY BadRulesSpec
  <2>2. \A j : Append(<<z, list, <<i>> >>, <<j>>) = <<z, list, <<i>>, <<j>> >>
    BY PathFacts
  <2> DEFINE A(j) == Range(RuleChecks("timeZones", Append(<<z, list, <<i>> >>, <<j>>), transitions[i][j]))
  <2>3. \A j : A(j) = C(i, j)
    BY <2>2
  <2>4. \A v : v \in bad(i) <=> \E j \in D(i) : v \in A(j)
    BY <2>1
  <2> HIDE DEF A, C, bad, D
  <2>5. QED
    BY <2>3, <2>4
<1> HIDE DEF bad, C, D
<1>3. \A v : v \in UNION {bad(i) : i \in DOMAIN transitions} <=>
               \E i \in DOMAIN transitions : \E j \in D(i) : v \in C(i, j)
  BY <1>2
<1>4. QED
  BY <1>1, <1>3 DEF C, D

LEMMA BadZonesSpec ==
  ASSUME NEW zones
  PROVE  \A v : v \in BadZones(zones) <=>
                  \E z \in DOMAIN zones : \E list \in {Standard, Daylight} :
                    v \in BadTransitions(z, list, Transitions(zones[z], list))
<1> DEFINE s(z) == BadTransitions(z, Standard, zones[z].standard)
           d(z) == BadTransitions(z, Daylight, zones[z].daylight)
           B(z, list) == BadTransitions(z, list, Transitions(zones[z], list))
<1>1. Standard # Daylight
  BY DEF Standard, Daylight
<1>2. \A z : B(z, Standard) = s(z) /\ B(z, Daylight) = d(z)
  BY <1>1 DEF Transitions
<1>3. BadZones(zones) = UNION {s(z) \cup d(z) : z \in DOMAIN zones}
  BY DEF BadZones
<1> HIDE DEF s, d, B
<1>4. \A v : v \in BadZones(zones) <=> \E z \in DOMAIN zones : v \in s(z) \/ v \in d(z)
  BY <1>3
<1>5. \A v : v \in BadZones(zones) <=> \E z \in DOMAIN zones : \E list \in {Standard, Daylight} : v \in B(z, list)
  BY <1>2, <1>4
<1>6. QED
  BY <1>5 DEF B

LEMMA ZonesFound ==
  ASSUME NEW o, Places(o, "timeZones") = TransitionPlaces(o.zones)
  PROVE  Found(o, "timeZones") = BadZones(o.zones)
<1> DEFINE zones == o.zones
           T(z, list) == Transitions(zones[z], list)
           path(z, list, i, j) == <<z, list, <<i>>, <<j>> >>
           C(p) == Range(Checks(o, "timeZones", p))
           K(z, list, i, j) == Range(RuleChecks("timeZones", path(z, list, i, j), T(z, list)[i][j]))
           E(z, list, i) == DOMAIN T(z, list)[i]
           D(z, list) == DOMAIN T(z, list)
           P == Places(o, "timeZones")
<1>1. ASSUME NEW z, NEW list, NEW i, NEW j
      PROVE  C(path(z, list, i, j)) = K(z, list, i, j)
  <2>1. /\ path(z, list, i, j)[1] = z /\ path(z, list, i, j)[2] = list
        /\ path(z, list, i, j)[3] = <<i>> /\ path(z, list, i, j)[4] = <<j>>
        /\ <<i>>[1] = i /\ <<j>>[1] = j
    BY PathFacts
  <2> HIDE DEF path
  <2>2. QED
    BY <2>1 DEF Checks
<1>2. \A p : p \in P <=>
        \E z \in DOMAIN zones : \E list \in {Standard, Daylight} :
          \E i \in D(z, list) : \E j \in E(z, list, i) : p = path(z, list, i, j)
  BY TransitionPlacesSpec DEF TransitionRules
<1>3. \A v : v \in Found(o, "timeZones") <=> \E p \in P : v \in C(p)
  BY FoundSpec
<1>4. \A v : v \in BadZones(zones) <=>
        \E z \in DOMAIN zones : \E list \in {Standard, Daylight} :
          \E i \in D(z, list) : \E j \in E(z, list, i) : v \in K(z, list, i, j)
  <2> DEFINE B(z, list) == BadTransitions(z, list, T(z, list))
  <2>1. \A z, list, v : v \in B(z, list) <=> \E i \in D(z, list) : \E j \in E(z, list, i) : v \in K(z, list, i, j)
    BY BadTransitionsSpec
  <2>2. \A v : v \in BadZones(zones) <=>
          \E z \in DOMAIN zones : \E list \in {Standard, Daylight} : v \in B(z, list)
    BY BadZonesSpec
  <2> HIDE DEF B, D, E, K
  <2>3. QED
    BY <2>1, <2>2
<1> HIDE DEF D, E, K, C, P, path
<1>5. \A v : v \in Found(o, "timeZones") <=> v \in BadZones(zones)
  BY <1>1, <1>2, <1>3, <1>4
<1>6. QED
  BY <1>5

-----------------------------------------------------------------------------
(***************************************************************************)
(* Each group of checks in turn.  A receiver without the group has nothing *)
(* the group could report.                                                 *)
(***************************************************************************)
LEMMA KindSpec ==
  ASSUME NEW o \in Objects, NEW g
  PROVE  /\ o.kind \in {"Event", "Task", "Group"}
         /\ o.kind = "Event" => (g \in GroupsOf(o.kind) <=> g \in Range(Groups) \ {"entries"})
         /\ o.kind = "Task" => (g \in GroupsOf(o.kind) <=> g \in Range(Groups) \ {"entries", "due"})
         /\ o.kind = "Group" => (g \in GroupsOf(o.kind) <=> g \in {"@type", "uid", "entries"})
BY ObjectsAssumption DEF GroupsOf

LEMMA GroupNames ==
  ASSUME NEW g
  PROVE  g \in Range(Groups) <=>
           g \in {"@type", "uid", "due", "recurrenceRules", "excludedRecurrenceRules",
                  "recurrenceOverrides", "localizations", "timeZone", "timeZones", "entries"}
BY DEF Groups, Range

(***************************************************************************)
(* The groups that concern what recurs, is localized or has a zone.        *)
(***************************************************************************)
LEMMA RecurringPlaces ==
  ASSUME NEW o \in Objects,
         NEW g \in {"recurrenceRules", "excludedRecurrenceRules", "recurrenceOverrides",
                    "localizations", "timeZone", "timeZones"}
  PROVE  Places(o, g) = IF o.kind = "Group" THEN {} ELSE PlacesIn(o, g)
<1>1. g \in Range(Groups) \ {"entries", "due"} /\ g \notin {"@type", "uid", "entries"}
  BY GroupNames
<1>2. QED
  BY <1>1, KindSpec DEF Places

LEMMA NothingFound ==
  ASSUME NEW o, NEW g, Places(o, g) = {}
  PROVE  Found(o, g) = {}
BY DEF Found

LEMMA HeadFound ==
  ASSUME NEW o \in Objects
  PROVE  /\ Found(o, "@type") = Named(o.type = "wrong", Violation("@type", <<>>, "mismatch"))
         /\ Found(o, "uid") = Named(~o.uid, Violation("uid", <<>>, "missing"))
         /\ Found(o, "due") = Named(o.kind = "Event" /\ o.due, Violation("due", <<>>, "not permitted"))
<1>1. /\ "@type" \in GroupsOf(o.kind) /\ "uid" \in GroupsOf(o.kind)
      /\ "due" \in GroupsOf(o.kind) <=> o.kind = "Event"
  BY KindSpec, GroupNames
<1>2. ASSUME NEW g, Places(o, g) = {<<>>} PROVE Found(o, g) = Range(Checks(o, g, <<>>))
  <2> DEFINE C(p) == Range(Checks(o, g, p))
  <2>1. \A v : v \in Found(o, g) <=> \E p \in {<<>>} : v \in C(p)
    BY <1>2, FoundSpec
  <2> HIDE DEF C
  <2>2. Found(o, g) = C(<<>>)
    BY <2>1
  <2>3. QED
    BY <2>2 DEF C
<1>3. Found(o, "@type") = Named(o.type = "wrong", Violation("@type", <<>>, "mismatch"))
  <2>1. Places(o, "@type") = {<<>>}
    BY <1>1 DEF Places, PlacesIn
  <2>2. Checks(o, "@type", <<>>) = If(o.type = "wrong", Violation("@type", <<>>, "mismatch"))
    BY Zenon DEF Checks
  <2>3. QED
    BY <1>2, <2>1, <2>2 DEF Named
<1>4. Found(o, "uid") = Named(~o.uid, Violation("uid", <<>>, "missing"))
  <2>1. Places(o, "uid") = {<<>>}
    BY <1>1 DEF Places, PlacesIn
  <2>2. Checks(o, "uid", <<>>) = If(~o.uid, Violation("uid", <<>>, "missing"))
    BY Zenon DEF Checks
  <2>3. QED
    BY <1>2, <2>1, <2>2 DEF Named
<1>5. Found(o, "due") = Named(o.kind = "Event" /\ o.due, Violation("due", <<>>, "not permitted"))
  <2>1. CASE o.kind = "Event"
    <3>1. Places(o, "due") = {<<>>}
      BY <1>1, <2>1 DEF Places, PlacesIn
    <3>2. Checks(o, "due", <<>>) = If(o.due, Violation("due", <<>>, "not permitted"))
      BY Zenon DEF Checks
    <3>3. If(o.kind = "Event" /\ o.due, Violation("due", <<>>, "not permitted")) =
            If(o.due, Violation("due", <<>>, "not permitted"))
      BY <2>1 DEF If
    <3>4. QED
      BY <1>2, <3>1, <3>2, <3>3 DEF Named
  <2>2. CASE o.kind # "Event"
    <3>1. Found(o, "due") = {}
      BY <1>1, <2>2, NothingFound DEF Places
    <3>2. Named(o.kind = "Event" /\ o.due, Violation("due", <<>>, "not permitted")) = {}
      BY <2>2 DEF Named, If, Range
    <3>3. QED
      BY <3>1, <3>2
  <2>3. QED
    BY <2>1, <2>2
<1>6. QED
  BY <1>3, <1>4, <1>5

LEMMA RulesFound ==
  ASSUME NEW o \in Objects
  PROVE  /\ Found(o, "recurrenceRules") = BadRules("recurrenceRules", <<>>, o.rules)
         /\ Found(o, "excludedRecurrenceRules") = BadRules("excludedRecurrenceRules", <<>>, o.excluded)
<1>1. \A i : << <<i>> >>[1][1] = i
  OBVIOUS
<1>2. Places(o, "recurrenceRules") = ListPlaces(o.rules)
  <2>1. o.kind = "Group" => ListPlaces(o.rules) = {}
    BY ObjectsAssumption DEF ListPlaces
  <2>2. PlacesIn(o, "recurrenceRules") = ListPlaces(o.rules)
    BY DEF PlacesIn
  <2>3. QED
    BY <2>1, <2>2, RecurringPlaces
<1>3. Places(o, "excludedRecurrenceRules") = ListPlaces(o.excluded)
  <2>1. o.kind = "Group" => ListPlaces(o.excluded) = {}
    BY ObjectsAssumption DEF ListPlaces
  <2>2. PlacesIn(o, "excludedRecurrenceRules") = ListPlaces(o.excluded)
    BY DEF PlacesIn
  <2>3. QED
    BY <2>1, <2>2, RecurringPlaces
<1>4. \A i \in DOMAIN o.rules : Checks(o, "recurrenceRules", << <<i>> >>) =
                                   RuleChecks("recurrenceRules", << <<i>> >>, o.rules[i])
  BY <1>1 DEF Checks
<1>5. \A i \in DOMAIN o.excluded : Checks(o, "excludedRecurrenceRules", << <<i>> >>) =
                                      RuleChecks("excludedRecurrenceRules", << <<i>> >>, o.excluded[i])
  BY <1>1 DEF Checks
<1>6. QED
  BY <1>2, <1>3, <1>4, <1>5, ListFound

LEMMA PatchesFound ==
  ASSUME NEW o \in Objects
  PROVE  /\ Found(o, "recurrenceOverrides") =
              {Violation("recurrenceOverrides", <<k>>, "key") : k \in DOMAIN o.overrides \ DateTimes}
                \cup BadPointers("recurrenceOverrides", o.overrides)
         /\ Found(o, "localizations") = BadPointers("localizations", o.localizations)
<1>1. Places(o, "recurrenceOverrides") = {<<k>> : k \in DOMAIN o.overrides} \cup PointerPlaces(o.overrides)
  <2>1. o.kind = "Group" => {<<k>> : k \in DOMAIN o.overrides} \cup PointerPlaces(o.overrides) = {}
    BY ObjectsAssumption DEF PointerPlaces
  <2>2. PlacesIn(o, "recurrenceOverrides") = {<<k>> : k \in DOMAIN o.overrides} \cup PointerPlaces(o.overrides)
    BY DEF PlacesIn
  <2>3. QED
    BY <2>1, <2>2, RecurringPlaces
<1>2. Places(o, "localizations") = PointerPlaces(o.localizations)
  <2>1. o.kind = "Group" => PointerPlaces(o.localizations) = {}
    BY ObjectsAssumption DEF PointerPlaces
  <2>2. PlacesIn(o, "localizations") = PointerPlaces(o.localizations)
    BY DEF PlacesIn
  <2>3. QED
    BY <2>1, <2>2, RecurringPlaces
<1>3. Found(o, "localizations") = BadPointers("localizations", o.localizations)
  <2> DEFINE g == "localizations"
             Q == o.localizations
             C(p) == Range(Checks(o, g, p))
             K(p) == Range(PointerCheck(g, p))
             P == Places(o, g)
  <2>1. \A p : C(p) = K(p)
    BY DEF Checks
  <2>2. \A p : p \in P <=> \E k \in DOMAIN Q : \E q \in Q[k] : p = <<k, q>>
    BY <1>2, PointerPlacesSpec
  <2>3. \A v : v \in Found(o, g) <=> \E p \in P : v \in C(p)
    BY FoundSpec
  <2>4. \A v : v \in BadPointers(g, Q) <=> \E k \in DOMAIN Q : \E q \in Q[k] : v \in K(<<k, q>>)
    BY BadPointersSpec
  <2> HIDE DEF C, K, P, Q
  <2>5. \A v : v \in Found(o, g) <=> v \in BadPointers(g, Q)
    <3> DEFINE pair(k, q) == <<k, q>>
    <3>1. \A p : p \in P <=> \E k \in DOMAIN Q : \E q \in Q[k] : p = pair(k, q)
      BY <2>2
    <3>2. \A v : v \in BadPointers(g, Q) <=> \E k \in DOMAIN Q : \E q \in Q[k] : v \in K(pair(k, q))
      BY <2>4
    <3> HIDE DEF pair
    <3>3. QED
      BY <2>1, <2>3, <3>1, <3>2
  <2>6. QED
    BY <2>5 DEF Q
<1>4. Found(o, "recurrenceOverrides") =
        {Violation("recurrenceOverrides", <<k>>, "key") : k \in DOMAIN o.overrides \ DateTimes}
          \cup BadPointers("recurrenceOverrides", o.overrides)
  <2> DEFINE g == "recurrenceOverrides"
             Q == o.overrides
             C(p) == Range(Checks(o, g, p))
             K(p) == Range(PointerCheck(g, p))
             P == Places(o, g)
             key(k) == Violation(g, <<k>>, "key")
             D == DOMAIN Q
  <2>1. \A k, q : C(<<k, q>>) = K(<<k, q>>)
    <3>1. \A k, q : Len(<<k, q>>) # 1
      OBVIOUS
    <3>2. QED
      BY <3>1 DEF Checks
  <2>2. ASSUME NEW k PROVE \A v : v \in C(<<k>>) <=> k \notin DateTimes /\ v = key(k)
    <3>1. Len(<<k>>) = 1 /\ <<k>>[1] = k
      OBVIOUS
    <3>2. Checks(o, g, <<k>>) = If(k \notin DateTimes, key(k))
      BY <3>1 DEF Checks, OverrideKeyCheck
    <3>3. (k \notin DateTimes) \in BOOLEAN
      OBVIOUS
    <3> HIDE DEF key
    <3>4. QED
      BY <3>2, <3>3, IfSpec
  <2>3. \A p : p \in P <=> \/ \E k \in D : p = <<k>>
                           \/ \E k \in D : \E q \in Q[k] : p = <<k, q>>
    BY <1>1, PointerPlacesSpec
  <2>4. \A v : v \in Found(o, g) <=> \E p \in P : v \in C(p)
    BY FoundSpec
  <2>5. \A v : v \in BadPointers(g, Q) <=> \E k \in D : \E q \in Q[k] : v \in K(<<k, q>>)
    BY BadPointersSpec
  <2> DEFINE keys == {key(k) : k \in D \ DateTimes}
  <2>6. \A v : v \in keys <=> \E k \in D : k \notin DateTimes /\ v = key(k)
    <3> HIDE DEF key, D
    <3>1. QED
      OBVIOUS
  <2> HIDE DEF C, K, P, Q, D, key, keys
  <2>7. \A v : v \in Found(o, g) <=> v \in keys \cup BadPointers(g, Q)
    <3> DEFINE pair(k, q) == <<k, q>>
               one(k) == <<k>>
    <3>1. \A p : p \in P <=> \/ \E k \in D : p = one(k)
                             \/ \E k \in D : \E q \in Q[k] : p = pair(k, q)
      BY <2>3
    <3>2. \A v : v \in BadPointers(g, Q) <=> \E k \in D : \E q \in Q[k] : v \in K(pair(k, q))
      BY <2>5
    <3>3. \A k, q : C(pair(k, q)) = K(pair(k, q))
      BY <2>1
    <3>4. \A k, v : v \in C(one(k)) <=> k \notin DateTimes /\ v = key(k)
      BY <2>2
    <3> HIDE DEF pair, one
    <3>5. QED
      BY <2>4, <2>6, <3>1, <3>2, <3>3, <3>4
  <2>8. Found(o, g) = keys \cup BadPointers(g, Q)
    BY <2>7
  <2>9. QED
    BY <2>8 DEF keys, key, D, Q
<1>5. QED
  BY <1>3, <1>4

LEMMA ZoneFound ==
  ASSUME NEW o \in Objects
  PROVE  Found(o, "timeZone") =
           Named(Undefined(o, o.zone), Violation("timeZone", <<>>, "undefined"))
             \cup {Violation("timeZone", <<id>>, "undefined") :
                     id \in {l \in DOMAIN o.locations : Undefined(o, o.locations[l])}}
<1> DEFINE g == "timeZone"
           L == o.locations
           D == DOMAIN L
           u(ref) == ref # <<>> /\ ~ResolvesIn(ref, o.zones)
           v0 == Violation(g, <<>>, "undefined")
           at(l) == Violation(g, <<l>>, "undefined")
           C(p) == Range(Checks(o, g, p))
           P == Places(o, g)
           set == {at(id) : id \in {l \in D : u(L[l])}}
<1>1. ASSUME NEW ref PROVE u(ref) <=> Undefined(o, ref)
  BY DEF Undefined, ResolvesIn, IsCustom
<1>2. \A v : v \in C(<<>>) <=> u(o.zone) /\ v = v0
  <2>1. Checks(o, g, <<>>) = If(u(o.zone), v0)
    BY DEF Checks, ZoneCheck
  <2>2. u(o.zone) \in BOOLEAN
    BY Zenon
  <2> HIDE DEF u, v0
  <2>3. QED
    BY <2>1, <2>2, IfSpec
<1>3. ASSUME NEW l PROVE \A v : v \in C(<<l>>) <=> u(L[l]) /\ v = at(l)
  <2>1. <<l>> # <<>> /\ <<l>>[1] = l
    OBVIOUS
  <2>2. Checks(o, g, <<l>>) = If(u(L[l]), at(l))
    BY <2>1 DEF Checks, ZoneCheck
  <2>3. u(L[l]) \in BOOLEAN
    BY Zenon
  <2> HIDE DEF u, at
  <2>4. QED
    BY <2>2, <2>3, IfSpec
<1>4. CASE o.kind = "Group"
  <2>1. Found(o, g) = {}
    BY <1>4, NothingFound, RecurringPlaces
  <2>2. o.zone = <<>> /\ D = {}
    BY <1>4, ObjectsAssumption
  <2>3. ~Undefined(o, o.zone)
    BY <2>2 DEF Undefined, IsCustom
  <2>4. Named(Undefined(o, o.zone), v0) = {}
    BY <2>3 DEF Named, If, Range
  <2>5. {at(id) : id \in {l \in D : Undefined(o, L[l])}} = {}
    BY <2>2
  <2>6. QED
    BY <2>1, <2>4, <2>5
<1>5. CASE o.kind # "Group"
  <2>1. P = {<<>>} \cup {<<l>> : l \in D}
    BY <1>5, RecurringPlaces DEF PlacesIn
  <2>2. \A p : p \in P <=> p = <<>> \/ \E l \in D : p = <<l>>
    BY <2>1
  <2>3. \A v : v \in Found(o, g) <=> \E p \in P : v \in C(p)
    BY FoundSpec
  <2>4. \A v : v \in set <=> \E l \in D : u(L[l]) /\ v = at(l)
    <3> HIDE DEF u, at, D, L
    <3>1. QED
      OBVIOUS
  <2>5. \A w : w \in Named(u(o.zone), v0) <=> u(o.zone) /\ w = v0
    <3>1. u(o.zone) \in BOOLEAN
      BY Zenon
    <3> HIDE DEF u, v0
    <3>2. QED
      BY <3>1, NamedSpec
  <2>6. \A l : u(L[l]) <=> Undefined(o, L[l])
    BY <1>1
  <2>7. set = {at(id) : id \in {l \in D : Undefined(o, L[l])}}
    <3> HIDE DEF u, at, D, L
    <3>1. QED
      BY <2>6
  <2>8. Named(Undefined(o, o.zone), v0) = Named(u(o.zone), v0)
    <3>1. u(o.zone) <=> Undefined(o, o.zone)
      BY <1>1
    <3> HIDE DEF u, v0
    <3>2. QED
      BY <3>1 DEF Named, If
  <2> HIDE DEF u, at, D, L, C, P, set, v0
  <2>9. \A v : v \in Found(o, g) <=> v \in Named(u(o.zone), v0) \cup set
    <3> DEFINE one(k) == <<k>>
    <3>1. \A p : p \in P <=> p = <<>> \/ \E l \in D : p = one(l)
      BY <2>2
    <3>2. \A l, v : v \in C(one(l)) <=> u(L[l]) /\ v = at(l)
      BY <1>3
    <3> HIDE DEF one
    <3>3. QED
      BY <1>2, <2>3, <2>4, <2>5, <3>1, <3>2
  <2>10. Found(o, g) = Named(Undefined(o, o.zone), v0) \cup set
    BY <2>8, <2>9
  <2>11. QED
    BY <2>7, <2>10 DEF at, D, L, v0
<1>6. QED
  BY <1>4, <1>5

LEMMA TransitionsFound ==
  ASSUME NEW o \in Objects
  PROVE  Found(o, "timeZones") = BadZones(o.zones)
<1>1. PlacesIn(o, "timeZones") = TransitionPlaces(o.zones)
  BY DEF PlacesIn
<1>2. o.kind = "Group" => TransitionPlaces(o.zones) = {}
  <2>1. ASSUME o.kind = "Group", NEW p \in TransitionPlaces(o.zones) PROVE FALSE
    <3>1. DOMAIN o.zones = {}
      BY <2>1, ObjectsAssumption
    <3>2. PICK z \in DOMAIN o.zones : TRUE
      BY <2>1, TransitionPlacesSpec
    <3>3. QED
      BY <3>1, <3>2
  <2>2. QED
    BY <2>1
<1>3. Places(o, "timeZones") = TransitionPlaces(o.zones)
  BY <1>1, <1>2, RecurringPlaces
<1>4. QED
  BY <1>3, ZonesFound

LEMMA EntriesFound ==
  ASSUME NEW o \in Objects
  PROVE  Found(o, "entries") =
           {Violation("entries", << <<i>> >>, "type") :
              i \in {n \in DOMAIN o.entries : Entry(o.entries[n]) \in {"structural", "unknown type"}}}
<1> DEFINE g == "entries"
           D == DOMAIN o.entries
           r(i) == Routed(o.entries[i])
           at(i) == Violation(g, << <<i>> >>, "type")
           C(p) == Range(Checks(o, g, p))
           P == Places(o, g)
           out(i) == Entry(o.entries[i]) \in {"structural", "unknown type"}
<1>1. Places(o, g) = ListPlaces(o.entries)
  <2>1. g \in GroupsOf(o.kind) <=> o.kind = "Group"
    BY KindSpec, GroupNames
  <2>2. o.kind # "Group" => ListPlaces(o.entries) = {}
    BY ObjectsAssumption DEF ListPlaces
  <2>3. PlacesIn(o, g) = ListPlaces(o.entries)
    BY DEF PlacesIn
  <2>4. QED
    BY <2>1, <2>2, <2>3 DEF Places
<1>2. \A p : p \in P <=> \E i \in D : p = << <<i>> >>
  BY <1>1 DEF ListPlaces
<1>3. ASSUME NEW i PROVE \A v : v \in C(<< <<i>> >>) <=> ~r(i) /\ v = at(i)
  <2>1. << <<i>> >>[1][1] = i
    OBVIOUS
  <2>2. Checks(o, g, << <<i>> >>) = If(~r(i), at(i))
    BY <2>1 DEF Checks, EntryCheck
  <2>3. (~r(i)) \in BOOLEAN
    BY Zenon
  <2> HIDE DEF r, at
  <2>4. QED
    BY <2>2, <2>3, IfSpec
<1>4. ASSUME NEW i PROVE out(i) <=> ~r(i)
  <2> DEFINE raw == o.entries[i]
  <2> HIDE DEF raw
  <2>1. CASE ~Peeks(raw)
    <3>1. Entry(raw) = "structural"
      BY <2>1 DEF Entry, Dispatch
    <3>2. QED
      BY <2>1, <3>1 DEF Routed, raw
  <2>2. CASE Peeks(raw) /\ raw.type \notin {"Event", "Task"}
    <3>1. Entry(raw) = "unknown type"
      BY <2>2 DEF Entry, Dispatch
    <3>2. QED
      BY <2>2, <3>1 DEF Routed, raw
  <2>3. CASE Peeks(raw) /\ raw.type \in {"Event", "Task"}
    <3>1. Entry(raw) = IF raw.body THEN raw.type ELSE "decode"
      BY <2>3 DEF Entry, Dispatch
    <3>2. Entry(raw) \notin {"structural", "unknown type"}
      BY <2>3, <3>1
    <3>3. QED
      BY <2>3, <3>2 DEF Routed, raw
  <2>4. QED
    BY <2>1, <2>2, <2>3
<1>5. \A v : v \in Found(o, g) <=> \E p \in P : v \in C(p)
  BY FoundSpec
<1> HIDE DEF D, r, at, C, P, out
<1>6. \A v : v \in Found(o, g) <=> v \in {at(i) : i \in {n \in D : out(n)}}
  <2> DEFINE one(i) == << <<i>> >>
  <2>1. \A p : p \in P <=> \E i \in D : p = one(i)
    BY <1>2
  <2>2. \A i, v : v \in C(one(i)) <=> ~r(i) /\ v = at(i)
    BY <1>3
  <2>3. \A v : v \in {at(i) : i \in {n \in D : out(n)}} <=> \E i \in D : ~r(i) /\ v = at(i)
    BY <1>4
  <2> HIDE DEF one
  <2>4. QED
    BY <1>5, <2>1, <2>2, <2>3
<1>7. Found(o, g) = {at(i) : i \in {n \in D : out(n)}}
  BY <1>6
<1>8. QED
  BY <1>7 DEF at, D, out

(***************************************************************************)
(* What all the groups report together is what Violations names.           *)
(***************************************************************************)
LEMMA AllFound ==
  ASSUME NEW o \in Objects
  PROVE  \A v : v \in Violations(o) <=> \E g \in Range(Groups) : v \in Found(o, g)
<1> DEFINE F(g) == Found(o, g)
           keys == {Violation("recurrenceOverrides", <<k>>, "key") : k \in DOMAIN o.overrides \ DateTimes}
           ptrs == BadPointers("recurrenceOverrides", o.overrides)
           zone == Named(Undefined(o, o.zone), Violation("timeZone", <<>>, "undefined"))
           locs == {Violation("timeZone", <<id>>, "undefined") :
                      id \in {l \in DOMAIN o.locations : Undefined(o, o.locations[l])}}
<1>1. Violations(o) = UNION {F("@type"), F("uid"), F("due"), F("recurrenceRules"),
                             F("excludedRecurrenceRules"), keys, ptrs, F("localizations"),
                             zone, locs, F("timeZones"), F("entries")}
  BY HeadFound, RulesFound, PatchesFound, TransitionsFound, EntriesFound DEF Violations, BadZones
<1>2. F("recurrenceOverrides") = keys \cup ptrs /\ F("timeZone") = zone \cup locs
  BY PatchesFound, ZoneFound
<1>3. \A g : g \in Range(Groups) <=>
               g \in {"@type", "uid", "due", "recurrenceRules", "excludedRecurrenceRules",
                      "recurrenceOverrides", "localizations", "timeZone", "timeZones", "entries"}
  BY GroupNames
<1> HIDE DEF F, keys, ptrs, zone, locs
<1>4. SUFFICES ASSUME NEW v
               PROVE  v \in Violations(o) <=> \E g \in Range(Groups) : v \in F(g)
  BY DEF F
<1>5. v \in Violations(o) <=>
        \/ v \in F("@type") \/ v \in F("uid") \/ v \in F("due") \/ v \in F("recurrenceRules")
        \/ v \in F("excludedRecurrenceRules") \/ v \in keys \/ v \in ptrs
        \/ v \in F("localizations") \/ v \in zone \/ v \in locs
        \/ v \in F("timeZones") \/ v \in F("entries")
  BY <1>1
<1>6. QED
  BY <1>2, <1>3, <1>5

(***************************************************************************)
(* When Validate returns, everything that breaks a rule one of its checks  *)
(* is about has been named and nothing else has, whatever the object: none *)
(* of the loops stops early, skips a key or reports a place under another  *)
(* name.                                                                   *)
(***************************************************************************)
THEOREM AllReported == Spec => []Reported
<1>1. IInv /\ Collected /\ object \in Objects => Reported
  <2> SUFFICES ASSUME Collected, object \in Objects, phase = Len(Groups) + 1
               PROVE  Range(errs) = Violations(object)
    BY DEF Reported, Returned
  <2>1. \A g \in Range(Groups) : \A at : Visited(g, at)
    BY GroupsFacts DEF Visited, EntriesPhase
  <2>2. \A v : v \in Range(errs) <=> \E g \in Range(Groups) : v \in Found(object, g)
    <3> DEFINE C(g, at) == Range(Checks(object, g, at))
               P(g) == Places(object, g)
               F(g) == Found(object, g)
    <3>1. \A g, v : v \in F(g) <=> \E at \in P(g) : v \in C(g, at)
      BY FoundSpec
    <3>2. \A v : v \in Range(errs) <=> \E g \in Range(Groups) : \E at \in P(g) : Visited(g, at) /\ v \in C(g, at)
      BY DEF Collected
    <3> HIDE DEF C, P, F
    <3>3. \A v : v \in Range(errs) <=> \E g \in Range(Groups) : v \in F(g)
      BY <2>1, <3>1, <3>2
    <3>4. QED
      BY <3>3 DEF F
  <2>3. \A v : v \in Range(errs) <=> v \in Violations(object)
    BY <2>2, AllFound
  <2>4. QED
    BY <2>3
<1>2. Spec => [](object \in Objects)
  <2>1. Init => object \in Objects
    BY DEF Init
  <2>2. object \in Objects /\ [Next]_vars => (object \in Objects)'
    BY DEF Next, Visit, VisitAt, NextGroup, Return, vars
  <2>3. QED
    BY <2>1, <2>2, PTL DEF Spec
<1>3. QED
  BY Inductive, CollectedAlways, <1>1, <1>2, PTL

=============================================================================
