-------------------------- MODULE ICalendarProofs --------------------------
(***************************************************************************)
(* Proofs about the iCalendar bridge: that the invariants of               *)
(* ICalendarProperties hold of every calendar and every list of objects.   *)
(***************************************************************************)
EXTENDS ICalendarProperties, FiniteSetTheorems, SequenceTheorems, TLAPS

-----------------------------------------------------------------------------
(***************************************************************************)
(* Subsequences.  A set of positions is enumerated by the one increasing   *)
(* function onto it, and the subsequence is the sequence after it.         *)
(***************************************************************************)
Enumerates(f, n, at) ==
  /\ n \in Nat /\ f \in [1 .. n -> Int] /\ at = {f[k] : k \in 1 .. n}
  /\ \A j, k \in 1 .. n : j < k => f[j] < f[k]

LEMMA CountOf ==
  ASSUME NEW f, NEW n, NEW at, Enumerates(f, n, at), NEW k \in 0 .. n
  PROVE  /\ IsFiniteSet({f[j] : j \in 1 .. k})
         /\ Cardinality({f[j] : j \in 1 .. k}) = k
<1> DEFINE g == [j \in 1 .. k |-> f[j]]
           S == {f[j] : j \in 1 .. k}
<1>1. n \in Nat /\ f \in [1 .. n -> Int] /\ \A i, j \in 1 .. n : i < j => f[i] < f[j]
  BY DEF Enumerates
<1>2. IsFiniteSet(1 .. k) /\ Cardinality(1 .. k) = k
  BY <1>1, FS_Interval
<1>3. \A i, j \in 1 .. k : f[i] = f[j] => i = j
  <2> SUFFICES ASSUME NEW i \in 1 .. k, NEW j \in 1 .. k, i # j PROVE f[i] # f[j]
    OBVIOUS
  <2>1. i \in 1 .. n /\ j \in 1 .. n /\ (i < j \/ j < i)
    BY <1>1
  <2>2. QED
    BY <1>1, <2>1
<1>4. g \in Bijection(1 .. k, S)
  BY <1>3 DEF Bijection, Injection, Surjection, IsInjective
<1>5. ExistsBijection(1 .. k, S)
  BY <1>4 DEF ExistsBijection
<1>6. QED
  BY <1>2, <1>5, FS_Bijection

LEMMA SubsequenceIs ==
  ASSUME NEW s, NEW f, NEW n, NEW at, Enumerates(f, n, at)
  PROVE  Subsequence(s, at) = [k \in 1 .. n |-> s[f[k]]]
<1>1. n \in Nat /\ f \in [1 .. n -> Int] /\ at = {f[j] : j \in 1 .. n}
      /\ \A i, j \in 1 .. n : i < j => f[i] < f[j]
  BY DEF Enumerates
<1>2. Cardinality(at) = n
  <2>1. n \in 0 .. n
    BY <1>1
  <2>2. QED
    BY <1>1, <2>1, CountOf
<1>3. ASSUME NEW k \in 1 .. n PROVE Count(at, f[k]) = k
  <2>1. {j \in at : j <= f[k]} = {f[j] : j \in 1 .. k}
    <3>1. ASSUME NEW j \in 1 .. n, f[j] <= f[k] PROVE j \in 1 .. k
      <4>1. ~(k < j)
        BY <1>1, <3>1
      <4>2. QED
        BY <4>1
    <3>2. ASSUME NEW j \in 1 .. k PROVE f[j] \in at /\ f[j] <= f[k]
      <4>1. j \in 1 .. n /\ (j < k \/ j = k)
        BY <1>1
      <4>2. QED
        BY <1>1, <4>1
    <3>3. QED
      BY <1>1, <3>1, <3>2
  <2>2. QED
    BY <2>1, CountOf DEF Count
<1>4. ASSUME NEW k \in 1 .. n PROVE (CHOOSE i \in at : Count(at, i) = k) = f[k]
  <2> DEFINE i == CHOOSE i \in at : Count(at, i) = k
  <2>1. i \in at /\ Count(at, i) = k
    <3>1. f[k] \in at
      BY <1>1
    <3>2. QED
      BY <1>3, <3>1
  <2> HIDE DEF i
  <2>2. PICK j \in 1 .. n : i = f[j]
    BY <1>1, <2>1
  <2>3. j = k
    BY <1>3, <2>1, <2>2
  <2>4. QED
    BY <2>2, <2>3 DEF i
<1>5. Subsequence(s, at) = [k \in 1 .. n |-> s[CHOOSE i \in at : Count(at, i) = k]]
  BY <1>2 DEF Subsequence
<1>6. QED
  BY <1>4, <1>5, Zenon

LEMMA Enumerated ==
  ASSUME NEW m \in Nat, NEW at \in SUBSET (1 .. m)
  PROVE  \E n, f : Enumerates(f, n, at)
<1> DEFINE upto(k) == {j \in at : j <= k}
           n == Cardinality(at)
           count == [i \in at |-> Count(at, i)]
           f == [k \in 1 .. n |-> CHOOSE i \in at : count[i] = k]
<1>1. IsFiniteSet(at) /\ n \in Nat /\ at \subseteq Int
  <2>1. IsFiniteSet(1 .. m)
    BY FS_Interval
  <2>2. IsFiniteSet(at)
    BY <2>1, FS_Subset
  <2>3. QED
    BY <2>2, FS_CardinalityType
<1>2. \A k : IsFiniteSet(upto(k)) /\ Cardinality(upto(k)) \in Nat /\ Cardinality(upto(k)) <= n
  <2> SUFFICES ASSUME NEW k
               PROVE  IsFiniteSet(upto(k)) /\ Cardinality(upto(k)) \in Nat /\ Cardinality(upto(k)) <= n
    OBVIOUS
  <2>1. upto(k) \in SUBSET at
    OBVIOUS
  <2>2. QED
    BY <1>1, <2>1, FS_Subset, FS_CardinalityType
<1>3. ASSUME NEW i \in at PROVE count[i] \in 1 .. n
  <2>1. i \in upto(i)
    BY <1>1
  <2>2. Cardinality(upto(i)) # 0
    BY <1>2, <2>1, FS_EmptySet
  <2>3. count[i] = Cardinality(upto(i))
    BY DEF Count
  <2>4. Cardinality(upto(i)) \in Nat /\ Cardinality(upto(i)) <= n
    BY <1>2
  <2> HIDE DEF count, n, upto
  <2>5. QED
    BY <1>1, <2>2, <2>3, <2>4
<1>4. ASSUME NEW i \in at, NEW j \in at, i < j PROVE count[i] < count[j]
  <2>1. upto(i) \in SUBSET upto(j) /\ j \in upto(j) /\ j \notin upto(i)
    <3>1. i \in Int /\ j \in Int /\ \A k \in at : k \in Int
      BY <1>1
    <3>2. \A k \in at : k <= i => k <= j
      BY <1>4, <3>1
    <3>3. i <= i /\ j <= j /\ ~(j <= i)
      BY <1>4, <3>1
    <3>4. QED
      BY <3>2, <3>3
  <2>2. Cardinality(upto(i)) <= Cardinality(upto(j)) /\ Cardinality(upto(i)) # Cardinality(upto(j))
    BY <1>2, <2>1, FS_Subset
  <2>3. Cardinality(upto(i)) \in Nat /\ Cardinality(upto(j)) \in Nat
    BY <1>2
  <2>4. count[i] = Cardinality(upto(i)) /\ count[j] = Cardinality(upto(j))
    BY DEF Count
  <2> HIDE DEF count, upto
  <2>5. QED
    BY <2>2, <2>3, <2>4
<1>5. \A i, j \in at : count[i] = count[j] => i = j
  <2> SUFFICES ASSUME NEW i \in at, NEW j \in at, i # j PROVE count[i] # count[j]
    OBVIOUS
  <2>1. i < j \/ j < i
    BY <1>1
  <2>2. count[i] \in Int /\ count[j] \in Int
    BY <1>3
  <2> HIDE DEF count
  <2>3. QED
    BY <1>4, <2>1, <2>2
<1>6. count \in Injection(at, 1 .. n)
  BY <1>3, <1>5 DEF Injection, IsInjective
<1>7. IsFiniteSet(1 .. n) /\ Cardinality(1 .. n) = n
  BY <1>1, FS_Interval
<1>8. count \in Surjection(at, 1 .. n)
  <2> HIDE DEF count
  <2>1. n = Cardinality(at)
    OBVIOUS
  <2> HIDE DEF n
  <2>2. QED
    BY <1>6, <1>7, <2>1, FS_Injection
<1> HIDE DEF count, n
<1>9. ASSUME NEW k \in 1 .. n PROVE f[k] \in at /\ count[f[k]] = k
  BY <1>8 DEF Surjection
<1>10. f \in [1 .. n -> Int]
  BY <1>1, <1>9
<1>11. at = {f[k] : k \in 1 .. n}
  <2>1. ASSUME NEW i \in at PROVE \E k \in 1 .. n : i = f[k]
    <3>1. count[i] \in 1 .. n
      BY <1>3
    <3>2. f[count[i]] \in at /\ count[f[count[i]]] = count[i]
      BY <1>9, <3>1
    <3>3. f[count[i]] = i
      BY <1>5, <3>2
    <3>4. QED
      BY <3>1, <3>3
  <2> HIDE DEF f
  <2>2. QED
    BY <1>9, <2>1
<1>12. ASSUME NEW j \in 1 .. n, NEW k \in 1 .. n, j < k PROVE f[j] < f[k]
  <2>1. f[j] \in at /\ f[k] \in at /\ count[f[j]] = j /\ count[f[k]] = k
    BY <1>9
  <2> HIDE DEF f
  <2>2. ~(f[k] < f[j])
    <3>1. ASSUME f[k] < f[j] PROVE FALSE
      <4>1. count[f[k]] < count[f[j]]
        BY <1>4, <2>1, <3>1
      <4>2. k < j /\ j \in Int /\ k \in Int
        BY <1>1, <2>1, <4>1
      <4>3. QED
        BY <1>12, <4>2
    <3>2. QED
      BY <3>1
  <2>3. f[j] # f[k]
    <3>1. j \in Int /\ k \in Int
      BY <1>1
    <3>2. QED
      BY <1>12, <2>1, <3>1
  <2>4. f[j] \in Int /\ f[k] \in Int
    BY <1>1, <2>1
  <2>5. QED
    BY <2>2, <2>3, <2>4
<1>13. Enumerates(f, n, at)
  BY <1>1, <1>10, <1>11, <1>12 DEF Enumerates
<1>14. QED
  BY <1>13

(***************************************************************************)
(* A subsequence of a longer list: with its last element, without it, and  *)
(* without its first.                                                      *)
(***************************************************************************)
LEMMA SubsequenceOfMore ==
  ASSUME NEW s, NEW t, NEW m \in Nat, NEW at \in SUBSET (1 .. m), \A i \in 1 .. m : s[i] = t[i]
  PROVE  Subsequence(s, at) = Subsequence(t, at)
<1>1. PICK n, f : Enumerates(f, n, at)
  BY Enumerated
<1>2. \A k \in 1 .. n : s[f[k]] = t[f[k]]
  <2>1. at = {f[k] : k \in 1 .. n}
    BY <1>1 DEF Enumerates
  <2>2. QED
    BY <2>1
<1>3. Subsequence(s, at) = [k \in 1 .. n |-> s[f[k]]] /\ Subsequence(t, at) = [k \in 1 .. n |-> t[f[k]]]
  BY <1>1, SubsequenceIs
<1>4. QED
  BY <1>2, <1>3

LEMMA SubsequenceIsSequence ==
  ASSUME NEW s, NEW m \in Nat, NEW at \in SUBSET (1 .. m), NEW S, \A i \in at : s[i] \in S
  PROVE  /\ Subsequence(s, at) \in Seq(S)
         /\ \A i \in at : \E k \in DOMAIN Subsequence(s, at) : Subsequence(s, at)[k] = s[i]
         /\ \A k \in DOMAIN Subsequence(s, at) : \E i \in at : Subsequence(s, at)[k] = s[i]
<1>1. PICK n, f : Enumerates(f, n, at)
  BY Enumerated
<1>2. n \in Nat /\ at = {f[k] : k \in 1 .. n}
  BY <1>1 DEF Enumerates
<1>3. Subsequence(s, at) = [k \in 1 .. n |-> s[f[k]]]
  BY <1>1, SubsequenceIs
<1> DEFINE r == [k \in 1 .. n |-> s[f[k]]]
<1>4. \A k \in 1 .. n : f[k] \in at
  BY <1>2
<1>5. r \in Seq(S) /\ DOMAIN r = 1 .. n /\ \A k \in 1 .. n : r[k] = s[f[k]]
  BY <1>2, <1>4
<1>6. \A i \in at : \E k \in 1 .. n : i = f[k]
  BY <1>2
<1>7. Subsequence(s, at) = r
  BY <1>3
<1> HIDE DEF r
<1>8. \A i \in at : \E k \in DOMAIN r : r[k] = s[i]
  <2> SUFFICES ASSUME NEW i \in at PROVE \E k \in DOMAIN r : r[k] = s[i]
    OBVIOUS
  <2>1. PICK k \in 1 .. n : i = f[k]
    BY <1>6
  <2>2. r[k] = s[i] /\ k \in DOMAIN r
    BY <1>5, <2>1
  <2>3. QED
    BY <2>2
<1>9. \A k \in DOMAIN r : \E i \in at : r[k] = s[i]
  BY <1>4, <1>5
<1>10. QED
  BY <1>5, <1>7, <1>8, <1>9, Zenon

LEMMA SubsequenceWithLast ==
  ASSUME NEW s, NEW m \in Nat, NEW at \in SUBSET (1 .. m)
  PROVE  Subsequence(s, at \cup {m + 1}) = Append(Subsequence(s, at), s[m + 1])
<1>1. PICK n, f : Enumerates(f, n, at)
  BY Enumerated
<1> DEFINE g == [k \in 1 .. n + 1 |-> IF k = n + 1 THEN m + 1 ELSE f[k]]
           more == at \cup {m + 1}
           len == n + 1
<1>2. n \in Nat /\ f \in [1 .. n -> Int] /\ at = {f[k] : k \in 1 .. n}
      /\ \A j, k \in 1 .. n : j < k => f[j] < f[k]
  BY <1>1 DEF Enumerates
<1>3. \A k \in 1 .. n + 1 : k \in 1 .. n \/ k = n + 1
  BY <1>2
<1>4. \A k \in 1 .. n : f[k] \in 1 .. m /\ g[k] = f[k]
  BY <1>2
<1>5. g[n + 1] = m + 1 /\ n + 1 \in 1 .. n + 1
  BY <1>2
<1> HIDE DEF g
<1>6. g \in [1 .. n + 1 -> Int]
  <2>1. g = [k \in 1 .. n + 1 |-> g[k]]
    BY DEF g
  <2>2. ASSUME NEW k \in 1 .. n + 1 PROVE g[k] \in Int
    <3>1. CASE k = n + 1
      BY <1>5, <3>1
    <3>2. CASE k \in 1 .. n
      BY <1>4, <3>2
    <3>3. QED
      BY <1>3, <3>1, <3>2
  <2>3. QED
    BY <2>1, <2>2
<1>7. at \cup {m + 1} = {g[k] : k \in 1 .. n + 1}
  <2>1. \A k \in 1 .. n : k \in 1 .. n + 1
    BY <1>2
  <2>2. QED
    BY <1>2, <1>3, <1>4, <1>5, <2>1
<1>8. ASSUME NEW j \in 1 .. n + 1, NEW k \in 1 .. n + 1, j < k PROVE g[j] < g[k]
  <2>1. j \in 1 .. n
    BY <1>2, <1>8
  <2>2. CASE k \in 1 .. n
    BY <1>2, <1>4, <1>8, <2>1, <2>2
  <2>3. CASE k = n + 1
    BY <1>4, <1>5, <2>1, <2>3
  <2>4. QED
    BY <1>3, <2>2, <2>3
<1>9. Enumerates(g, n + 1, at \cup {m + 1})
  <2>1. n + 1 \in Nat
    BY <1>2
  <2>2. QED
    BY <1>6, <1>7, <1>8, <2>1 DEF Enumerates
<1>10. Subsequence(s, at \cup {m + 1}) = [k \in 1 .. n + 1 |-> s[g[k]]]
  <2>1. Enumerates(g, len, more)
    BY <1>9
  <2> HIDE DEF more, len
  <2>2. Subsequence(s, more) = [k \in 1 .. len |-> s[g[k]]]
    BY <2>1, SubsequenceIs
  <2>3. QED
    BY <2>2 DEF more, len
<1>11. Subsequence(s, at) = [k \in 1 .. n |-> s[f[k]]]
  BY <1>1, SubsequenceIs
<1>12. Append([k \in 1 .. n |-> s[f[k]]], s[m + 1])
         = [k \in 1 .. n + 1 |-> IF k = n + 1 THEN s[m + 1] ELSE s[f[k]]]
  BY <1>2
<1>13. QED
  BY <1>3, <1>4, <1>5, <1>10, <1>11, <1>12

Shifted(s, m, at, t, to, b) ==
  /\ m \in Nat /\ at \in SUBSET (1 .. m) /\ b \in Int /\ \A i \in 1 .. m : t[i + b] = s[i]
  /\ \A j : j \in to <=> \E i \in at : j = i + b

LEMMA SubsequenceShifted ==
  ASSUME NEW s, NEW m, NEW at, NEW t, NEW to, NEW b, Shifted(s, m, at, t, to, b)
  PROVE  Subsequence(t, to) = Subsequence(s, at)
<1> USE DEF Shifted
<1>1. PICK n, f : Enumerates(f, n, at)
  BY Enumerated
<1> DEFINE g == [k \in 1 .. n |-> f[k] + b]
<1>2. n \in Nat /\ f \in [1 .. n -> Int] /\ at = {f[k] : k \in 1 .. n}
      /\ \A j, k \in 1 .. n : j < k => f[j] < f[k]
  BY <1>1 DEF Enumerates
<1>3. g \in [1 .. n -> Int] /\ \A k \in 1 .. n : g[k] = f[k] + b
  BY <1>2
<1>4. to = {g[k] : k \in 1 .. n}
  BY <1>2
<1> HIDE DEF g
<1>5. Enumerates(g, n, to)
  BY <1>2, <1>3, <1>4 DEF Enumerates
<1>6. \A k \in 1 .. n : t[g[k]] = s[f[k]]
  <2>1. \A k \in 1 .. n : f[k] \in 1 .. m
    BY <1>2
  <2>2. QED
    BY <1>3, <2>1
<1>7. Subsequence(t, to) = [k \in 1 .. n |-> t[g[k]]]
  BY ONLY <1>5, SubsequenceIs
<1>8. Subsequence(s, at) = [k \in 1 .. n |-> s[f[k]]]
  BY ONLY <1>1, SubsequenceIs
<1>9. QED
  BY <1>6, <1>7, <1>8

-----------------------------------------------------------------------------
(***************************************************************************)
(* The inductive invariant.  What the calendar under construction has of   *)
(* the objects appended so far; what the zones and objects collected so    *)
(* far have of the first k children of the calendar.                       *)
(***************************************************************************)
Shaped(comp) ==
  /\ IsConverted(comp) => IsComponent(comp)
  /\ IsZone(comp) => IsZoneComponent(comp)

CalendarShaped == IsList(calendar) /\ \A j \in DOMAIN calendar : Shaped(calendar[j])

IsReturned(object) == IsObject(object) /\ IsCalendarObject(object)

Exportable(v) == v \in Items \/ IsReturned(v)

Built ==
  /\ IsList(given) /\ \A i \in DOMAIN given : IsReturned(given[i])
  /\ Converted = [i \in DOMAIN given |-> Exported(given[i])]
  /\ \A j \in DOMAIN calendar : IsZone(calendar[j]) =>
       \E k \in DOMAIN given : \E id \in DOMAIN given[k].timeZones :
         calendar[j] = ZoneComponent(given[k].timeZones[id])

ZonesOfGiven ==
  /\ IsMap(zones)
  /\ \A id \in DOMAIN zones : \E k \in DOMAIN given :
       id \in DOMAIN given[k].timeZones /\ zones[id] = given[k].timeZones[id]

Emitted(id) ==
  \E j \in DOMAIN calendar, k \in DOMAIN given :
    id \in DOMAIN given[k].timeZones /\ calendar[j] = ZoneComponent(given[k].timeZones[id])

Exporting ==
  phase = "exporting" =>
    /\ CalendarShaped /\ Built /\ ZonesOfGiven
    /\ IsList(pending) /\ \A i \in DOMAIN pending : Exportable(pending[i])
    /\ \A k \in DOMAIN given : \A id \in DOMAIN given[k].timeZones :
         id \in DOMAIN zones \/ Emitted(id)

Done == Len(calendar) - Len(pending)

ConvertedUpTo(k) == Subsequence(calendar, {j \in 1 .. k : IsConverted(calendar[j])})

Gathered(k) ==
  /\ IsMap(zones)
  /\ \A j \in 1 .. k :
       IsZone(calendar[j]) => CustomTimeZoneID(calendar[j].tzid) \in DOMAIN zones
  /\ \A id \in DOMAIN zones : \E j \in 1 .. k :
       /\ IsZone(calendar[j]) /\ id = CustomTimeZoneID(calendar[j].tzid)
       /\ zones[id] = ZoneFrom(calendar[j])

Made(k) ==
  /\ objects = [i \in DOMAIN ConvertedUpTo(k) |-> Imported(ConvertedUpTo(k)[i], zones)]
  /\ \A j \in 1 .. k : IsConverted(calendar[j]) => Imports(calendar[j])

Remaining ==
  /\ IsList(pending) /\ Len(pending) <= Len(calendar)
  /\ \A i \in DOMAIN pending : pending[i] = calendar[Done + i]

Ours == given # Absent \/ round >= 1

Finished ==
  /\ phase = "none" => given = Absent /\ round = 0
  /\ phase \in {"calendar", "collecting", "importing", "objects"} =>
       /\ CalendarShaped
       /\ Ours =>
            Built /\ \A k \in DOMAIN given : \A id \in DOMAIN given[k].timeZones : Emitted(id)

Importing ==
  /\ phase \in {"none", "exporting", "calendar", "collecting"} => objects = <<>>
  /\ phase = "collecting" => Remaining /\ Gathered(Done)
  /\ phase = "importing" => Remaining /\ Gathered(Len(calendar)) /\ Made(Done)
  /\ phase = "objects" => Gathered(Len(calendar)) /\ Made(Len(calendar))

BridgeInv == Exporting /\ Finished /\ Importing

-----------------------------------------------------------------------------
(***************************************************************************)
(* The types of what the conversions return.                               *)
(***************************************************************************)
LEMMA ListOf ==
  ASSUME NEW n \in Nat, NEW s, s = [i \in 1 .. n |-> s[i]]
  PROVE  IsList(s) /\ Len(s) = n /\ DOMAIN s = 1 .. n
<1>1. \A i \in 1 .. n : s[i] \in ToSet(s)
  BY DEF ToSet
<1>2. QED
  BY <1>1 DEF IsList

LEMMA ListFacts ==
  ASSUME NEW s, IsList(s)
  PROVE  /\ Len(s) \in Nat /\ DOMAIN s = 1 .. Len(s) /\ s = [i \in 1 .. Len(s) |-> s[i]]
         /\ s # <<>> => 1 \in DOMAIN s /\ Head(s) = s[1]
  BY DEF IsList

LEMMA ListIn ==
  ASSUME NEW s, IsList(s), NEW S, \A i \in DOMAIN s : s[i] \in S
  PROVE  s \in Seq(S)
<1>1. Len(s) \in Nat /\ DOMAIN s = 1 .. Len(s) /\ s = [i \in 1 .. Len(s) |-> s[i]]
  BY ListFacts
<1>2. QED
  BY <1>1

LEMMA MaxOf ==
  ASSUME NEW n \in Nat, NEW at \in SUBSET (1 .. n), at # {}
  PROVE  Max(at) \in at /\ \A i \in at : i <= Max(at)
<1>1. PICK c, f : Enumerates(f, c, at)
  BY Enumerated
<1>2. c \in Nat /\ f \in [1 .. c -> Int] /\ at = {f[k] : k \in 1 .. c}
      /\ \A j, k \in 1 .. c : j < k => f[j] < f[k]
  BY <1>1 DEF Enumerates
<1>3. c \in 1 .. c
  BY <1>2
<1>4. ASSUME NEW k \in 1 .. c PROVE f[k] <= f[c]
  <2>1. k = c \/ k < c
    BY <1>2
  <2>2. QED
    BY <1>2, <1>3, <2>1
<1>5. f[c] \in at /\ \A i \in at : f[c] >= i
  BY <1>2, <1>3, <1>4
<1>6. QED
  BY <1>2, <1>5 DEF Max

LEMMA RuleShape ==
  ASSUME NEW parts, IsText(parts)
  PROVE  IsRule(RuleFrom(parts))
<1> USE DEF RuleFrom
<1>1. RuleFrom(parts) = [key \in RuleKeys |-> RuleFrom(parts)[key]]
  OBVIOUS
<1>2. ASSUME NEW key \in TokenKeys PROVE RuleFrom(parts)[key] \in Tokens \cup {Unset}
  <2> DEFINE at == {i \in DOMAIN parts : parts[i].key = key}
  <2>1. key \in RuleKeys
    BY DEF RuleKeys, RuleOrder, TokenKeys, ToSet
  <2>2. CASE at = {}
    BY <2>1, <2>2 DEF NoRule
  <2>3. CASE at # {}
    <3>1. Len(parts) \in Nat /\ DOMAIN parts = 1 .. Len(parts)
      BY ListFacts DEF IsText
    <3>2. Max(at) \in at
      BY <2>3, <3>1, MaxOf
    <3>3. parts[Max(at)].key = key /\ parts[Max(at)].value \in Tokens \cup {Unset}
      BY <3>2 DEF IsText
    <3>4. FieldValue(parts[Max(at)]) \in Tokens \cup {Unset}
      BY <3>3, TokensAssumption DEF FieldValue, TokenKeys
    <3>5. QED
      BY <2>1, <2>3, <3>4
  <2>4. QED
    BY <2>2, <2>3
<1>3. QED
  BY <1>1, <1>2 DEF IsRule

LEMMA RuleKeysIn ==
  /\ RuleKeys = {RuleOrder[i] : i \in 1 .. 16} /\ DOMAIN RuleOrder = 1 .. 16
  /\ \A i, j \in 1 .. 16 : RuleOrder[i] = RuleOrder[j] => i = j
<1>1. DOMAIN RuleOrder = 1 .. 16
  BY DEF RuleOrder
<1>2. RuleKeys = {RuleOrder[i] : i \in 1 .. 16}
  BY <1>1 DEF RuleKeys, ToSet
<1>3. \A i, j \in 1 .. 16 : RuleOrder[i] = RuleOrder[j] => i = j
  BY DEF RuleOrder
<1>4. QED
  BY <1>1, <1>2, <1>3

LEMMA TextShape ==
  ASSUME NEW rule, IsRule(rule)
  PROVE  IsText(RuleString(rule))
<1> DEFINE keys == {key \in RuleKeys : rule[key] # Unset}
           at == {i \in DOMAIN RuleOrder : RuleOrder[i] \in keys}
           set == Subsequence(RuleOrder, at)
           text == RuleString(rule)
<1>1. at \in SUBSET (1 .. 16) /\ \A i \in at : RuleOrder[i] \in keys
  BY RuleKeysIn
<1>2. set \in Seq(keys)
  BY <1>1, SubsequenceIsSequence
<1>3. text = [i \in DOMAIN set |-> Field(rule, set[i])]
  BY DEF RuleString, Fields
<1> HIDE DEF set, text
<1>4. Len(set) \in Nat /\ DOMAIN set = 1 .. Len(set) /\ \A i \in DOMAIN set : set[i] \in keys
  BY <1>2
<1>5. IsList(text) /\ DOMAIN text = DOMAIN set
  <2>1. text = [i \in 1 .. Len(set) |-> text[i]]
    BY <1>3, <1>4
  <2>2. QED
    BY <1>4, <2>1, ListOf
<1>6. ASSUME NEW i \in DOMAIN text, text[i].key \in TokenKeys PROVE text[i].value \in Tokens
  <2>1. text[i] = Field(rule, set[i]) /\ set[i] \in keys
    BY <1>3, <1>4, <1>5
  <2>2. text[i].key = set[i] /\ text[i].value = Upper[rule[set[i]]]
    BY <1>6, <2>1 DEF Field, Part
  <2>3. rule[set[i]] \in Tokens
    BY <1>6, <2>1, <2>2 DEF IsRule
  <2>4. QED
    BY <2>2, <2>3, TokensAssumption
<1>7. QED
  BY <1>5, <1>6 DEF IsText, text

LEMMA SplitShape ==
  ASSUME NEW prop \in Maybe(DateProps), PropParses(prop)
  PROVE  /\ SplitOf(prop).local \in Maybe(Int) /\ SplitOf(prop).zone \in Seq(Chars)
         /\ SplitOf(prop).local \in Int <=> prop # Absent
         /\ SplitOf(prop).instant \in SUBSET Int
         /\ SplitOf(prop).kind \in {"none", "date", "utc", "zoned", "local"}
<1>1. Absent \notin Int /\ Floating \in Seq(Chars) /\ EtcUTC \in Seq(Chars)
  BY ICalTimeAssumption
<1>2. CASE prop = Absent
  BY <1>1, <1>2 DEF SplitOf, NoSplit, Maybe
<1>3. CASE prop # Absent
  <2>1. prop \in DateProps /\ prop.wall \in Int /\ prop.tzid \in Seq(Chars)
        /\ prop.date \in BOOLEAN /\ prop.z \in BOOLEAN
    BY <1>3 DEF Maybe, DateProps, PropParses, Parses
  <2>2. SplitOf(prop) = Split(prop)
    BY <1>3 DEF SplitOf
  <2>3. Midnight(prop.wall) \in Int
    BY <2>1, ICalTimeAssumption DEF Midnight
  <2>4. LoadsLocation(prop.tzid) => Place(TzDatabase[prop.tzid], prop.wall) \in Int
    BY <2>1, ZoneAssumption DEF LoadsLocation, Location, Place, Offset
  <2>5. CASE prop.date
    BY <1>1, <1>3, <2>1, <2>2, <2>3, <2>5 DEF Split, Maybe
  <2>6. CASE ~prop.date /\ prop.z
    BY <1>1, <1>3, <2>1, <2>2, <2>6 DEF Split, Maybe
  <2>7. CASE ~prop.date /\ ~prop.z /\ prop.tzid # <<>>
    BY <1>1, <1>3, <2>1, <2>2, <2>4, <2>7 DEF Split, Maybe
  <2>8. CASE ~prop.date /\ ~prop.z /\ prop.tzid = <<>>
    BY <1>1, <1>3, <2>1, <2>2, <2>8 DEF Split, Maybe
  <2>9. QED
    BY <2>1, <2>5, <2>6, <2>7, <2>8
<1>4. QED
  BY <1>2, <1>3

LEMMA DateTimeShape ==
  ASSUME NEW wall \in Int, NEW zone \in Seq(Chars), NEW allDay \in BOOLEAN
  PROVE  DateTimeProp(wall, zone, allDay) \in DateProps
<1>1. Midnight(wall) \in Int
  BY ICalTimeAssumption DEF Midnight
<1>2. BareTZID(zone) \in Seq(Chars)
  BY DEF BareTZID, IsCustom
<1>3. <<>> \in Seq(Chars)
  OBVIOUS
<1>4. QED
  BY <1>1, <1>2, <1>3 DEF DateTimeProp, DateProp, DateProps

(***************************************************************************)
(* A text stays one when it is escaped, and is left alone when no          *)
(* character of it needs that.                                             *)
(***************************************************************************)
LEMMA EscapedShape ==
  ASSUME NEW text \in Seq(Chars)
  PROVE  /\ Escaped(text) \in Seq(Chars)
         /\ ToSet(text) \cap Special = {} => Escaped(text) = text
<1> DEFINE n == Len(text)
           all == [k \in 1 .. 2 * n |-> IF k % 2 = 1 THEN Escape ELSE text[k \div 2]]
           needed == {2 * i - 1 : i \in {i \in 1 .. n : text[i] \in Special}}
           at == needed \cup {2 * i : i \in 1 .. n}
           f == [i \in 1 .. n |-> 2 * i]
<1>1. n \in Nat /\ 2 * n \in Nat /\ DOMAIN text = 1 .. n /\ \A i \in 1 .. n : text[i] \in Chars
  OBVIOUS
<1>2. Escaped(text) = Subsequence(all, at)
  BY DEF Escaped
<1>3. at \in SUBSET (1 .. 2 * n)
  OBVIOUS
<1>4. \A k \in 1 .. 2 * n : all[k] \in Chars
  <2> SUFFICES ASSUME NEW k \in 1 .. 2 * n PROVE all[k] \in Chars
    OBVIOUS
  <2>1. CASE k % 2 = 1
    BY <2>1, ICalExportAssumption
  <2>2. CASE k % 2 # 1
    <3>1. k \div 2 \in 1 .. n
      BY <1>1, <2>2
    <3>2. QED
      BY <1>1, <2>2, <3>1
  <2>3. QED
    BY <2>1, <2>2
<1>5. \A i \in 1 .. n : all[2 * i] = text[i]
  <2> SUFFICES ASSUME NEW i \in 1 .. n PROVE all[2 * i] = text[i]
    OBVIOUS
  <2>1. 2 * i \in 1 .. 2 * n /\ (2 * i) % 2 = 0 /\ (2 * i) \div 2 = i
    BY <1>1
  <2>2. QED
    BY <2>1
<1>6. f \in [1 .. n -> Int] /\ (\A i \in 1 .. n : f[i] = 2 * i)
      /\ \A i, j \in 1 .. n : i < j => f[i] < f[j]
  BY <1>1
<1>7. {2 * i : i \in 1 .. n} = {f[i] : i \in 1 .. n}
  OBVIOUS
<1> HIDE DEF all, f, n
<1>8. Escaped(text) \in Seq(Chars)
  <2>1. Subsequence(all, at) \in Seq(Chars)
    <3> HIDE DEF at
    <3>1. QED
      BY <1>1, <1>3, <1>4, SubsequenceIsSequence
  <2>2. QED
    BY <1>2, <2>1
<1>9. ASSUME ToSet(text) \cap Special = {} PROVE Escaped(text) = text
  <2>1. needed = {}
    BY <1>1, <1>9 DEF ToSet
  <2>2. at = {f[i] : i \in 1 .. n}
    BY <1>7, <2>1
  <2> HIDE DEF at
  <2>3. Enumerates(f, n, at)
    BY <1>1, <1>6, <2>2 DEF Enumerates
  <2>4. Subsequence(all, at) = [i \in 1 .. n |-> all[f[i]]]
    BY <2>3, SubsequenceIs
  <2>5. \A i \in 1 .. n : all[f[i]] = text[i]
    BY <1>5, <1>6
  <2>6. text = [i \in 1 .. n |-> text[i]]
    BY <1>1
  <2>7. QED
    BY <1>2, <2>4, <2>5, <2>6
<1>10. QED
  BY <1>8, <1>9

(***************************************************************************)
(* Time zone definitions, in both directions.                              *)
(***************************************************************************)
LEMMA ZoneRuleShape ==
  ASSUME NEW sub, sub.offset \in Maybe(Offsets), AreTexts(sub.rrules)
  PROVE  IsZoneRule(ZoneRuleFrom(sub))
<1> DEFINE rule == ZoneRuleFrom(sub)
           rules == IF sub.rrules = <<>> THEN <<>> ELSE <<RuleFrom(Head(sub.rrules))>>
<1>1. rule = [start |-> sub.start, offset |-> OffsetValue(sub.offset), rules |-> rules]
  BY DEF ZoneRuleFrom
<1>2. OffsetValue(sub.offset) \in Maybe(Offsets)
  <2>1. ASSUME NEW offset \in Offsets PROVE [offset EXCEPT !.form = "extended"] \in Offsets
    BY DEF Offsets, Text
  <2>2. QED
    BY <2>1 DEF OffsetValue, Maybe
<1>3. AreRules(rules)
  <2>1. CASE sub.rrules = <<>>
    BY <2>1 DEF AreRules, IsList
  <2>2. CASE sub.rrules # <<>>
    <3>1. IsText(Head(sub.rrules))
      BY <2>2, ListFacts DEF AreTexts
    <3>2. IsRule(RuleFrom(Head(sub.rrules)))
      BY <3>1, RuleShape
    <3>3. rules = <<RuleFrom(Head(sub.rrules))>>
      BY <2>2
    <3> HIDE DEF rules
    <3>4. IsList(rules)
      BY <3>3 DEF IsList, ToSet
    <3>5. QED
      BY <3>2, <3>3, <3>4 DEF AreRules
  <2>3. QED
    BY <2>1, <2>2
<1> HIDE DEF rules
<1>4. QED
  BY <1>1, <1>2, <1>3 DEF IsZoneRule

LEMMA ZoneShape ==
  ASSUME NEW comp, IsZoneComponent(comp)
  PROVE  IsTimeZone(ZoneFrom(comp))
<1>1. ASSUME NEW name
      PROVE  LET subs == Subsequence(comp.subs, {i \in DOMAIN comp.subs : comp.subs[i].name = name})
             IN  AreZoneRules([i \in DOMAIN subs |-> ZoneRuleFrom(subs[i])])
  <2> DEFINE at == {i \in DOMAIN comp.subs : comp.subs[i].name = name}
             subs == Subsequence(comp.subs, at)
             good == {comp.subs[i] : i \in DOMAIN comp.subs}
             rules == [i \in DOMAIN subs |-> ZoneRuleFrom(subs[i])]
  <2>1. Len(comp.subs) \in Nat /\ DOMAIN comp.subs = 1 .. Len(comp.subs)
    BY ListFacts DEF IsZoneComponent
  <2>2. at \in SUBSET (1 .. Len(comp.subs)) /\ \A i \in at : comp.subs[i] \in good
    BY <2>1
  <2>3. subs \in Seq(good)
    BY <2>1, <2>2, SubsequenceIsSequence
  <2> HIDE DEF subs
  <2>4. Len(subs) \in Nat /\ DOMAIN subs = 1 .. Len(subs) /\ \A i \in DOMAIN subs : subs[i] \in good
    BY <2>3
  <2>5. \A sub \in good : IsZoneRule(ZoneRuleFrom(sub))
    BY ZoneRuleShape DEF IsZoneComponent
  <2>6. IsList(rules) /\ DOMAIN rules = DOMAIN subs
    BY <2>4, ListOf
  <2>7. AreZoneRules(rules)
    BY <2>4, <2>5, <2>6 DEF AreZoneRules
  <2>8. QED
    BY <2>7 DEF subs
<1>2. QED
  BY <1>1 DEF ZoneFrom, IsTimeZone, IsZoneComponent

LEMMA StringsShape ==
  ASSUME NEW rules, AreRules(rules)
  PROVE  AreTexts(Strings(rules)) /\ DOMAIN Strings(rules) = DOMAIN rules
<1>1. Len(rules) \in Nat /\ DOMAIN rules = 1 .. Len(rules)
  BY ListFacts DEF AreRules
<1>2. IsList(Strings(rules)) /\ DOMAIN Strings(rules) = DOMAIN rules
  BY <1>1, ListOf DEF Strings
<1>3. \A i \in DOMAIN rules : IsText(Strings(rules)[i])
  BY TextShape DEF AreRules, Strings
<1>4. QED
  BY <1>2, <1>3 DEF AreTexts

LEMMA RulesShape ==
  ASSUME NEW texts, AreTexts(texts)
  PROVE  AreRules([i \in DOMAIN texts |-> RuleFrom(texts[i])])
<1> DEFINE rules == [i \in DOMAIN texts |-> RuleFrom(texts[i])]
<1>1. Len(texts) \in Nat /\ DOMAIN texts = 1 .. Len(texts)
  BY ListFacts DEF AreTexts
<1>2. IsList(rules) /\ DOMAIN rules = DOMAIN texts
  BY <1>1, ListOf
<1>3. \A i \in DOMAIN texts : IsRule(rules[i])
  BY RuleShape DEF AreTexts
<1>4. QED
  BY <1>2, <1>3 DEF AreRules

LEMMA ZoneSubs ==
  ASSUME NEW tz, IsTimeZone(tz)
  PROVE  LET subs == ZoneComponent(tz).subs
             m == Len(tz.standard)
             n == Len(tz.daylight)
         IN  /\ m \in Nat /\ n \in Nat /\ IsList(subs) /\ DOMAIN subs = 1 .. m + n
             /\ \A i \in 1 .. m : subs[i] = ZoneRuleComponent("STANDARD", tz.standard[i])
             /\ \A i \in 1 .. n : subs[m + i] = ZoneRuleComponent("DAYLIGHT", tz.daylight[i])
             /\ DOMAIN tz.standard = 1 .. m /\ DOMAIN tz.daylight = 1 .. n
<1> DEFINE subs == ZoneComponent(tz).subs
           a == [i \in DOMAIN tz.standard |-> ZoneRuleComponent("STANDARD", tz.standard[i])]
           b == [i \in DOMAIN tz.daylight |-> ZoneRuleComponent("DAYLIGHT", tz.daylight[i])]
           S == ToSet(a) \cup ToSet(b)
<1>1. Len(tz.standard) \in Nat /\ DOMAIN tz.standard = 1 .. Len(tz.standard)
      /\ Len(tz.daylight) \in Nat /\ DOMAIN tz.daylight = 1 .. Len(tz.daylight)
  BY ListFacts DEF IsTimeZone, AreZoneRules
<1>2. subs = a \o b
  BY DEF ZoneComponent
<1>3. IsList(a) /\ Len(a) = Len(tz.standard) /\ IsList(b) /\ Len(b) = Len(tz.daylight)
  BY <1>1, ListOf
<1>4. a \in Seq(S) /\ b \in Seq(S)
  <2>1. /\ \A i \in DOMAIN a : a[i] \in ToSet(a)
        /\ \A i \in DOMAIN b : b[i] \in ToSet(b)
    BY DEF ToSet
  <2> HIDE DEF a, b
  <2>2. QED
    BY <1>3, <2>1, ListIn
<1>5. /\ \A i \in 1 .. Len(tz.standard) : a[i] = ZoneRuleComponent("STANDARD", tz.standard[i])
      /\ \A i \in 1 .. Len(tz.daylight) : b[i] = ZoneRuleComponent("DAYLIGHT", tz.daylight[i])
  BY <1>1
<1> HIDE DEF a, b, subs
<1>6. /\ subs \in Seq(S) /\ Len(subs) = Len(a) + Len(b)
      /\ \A i \in 1 .. Len(a) : subs[i] = a[i]
      /\ \A i \in 1 .. Len(b) : subs[Len(a) + i] = b[i]
  BY <1>2, <1>4
<1>7. IsList(subs)
  BY <1>6 DEF IsList, ToSet
<1>8. DOMAIN subs = 1 .. Len(tz.standard) + Len(tz.daylight)
  BY <1>1, <1>3, <1>6
<1>9. /\ \A i \in 1 .. Len(tz.standard) : subs[i] = ZoneRuleComponent("STANDARD", tz.standard[i])
      /\ \A i \in 1 .. Len(tz.daylight) :
           subs[Len(tz.standard) + i] = ZoneRuleComponent("DAYLIGHT", tz.daylight[i])
  BY <1>3, <1>5, <1>6
<1>10. QED
  BY <1>1, <1>7, <1>8, <1>9 DEF subs

LEMMA ZoneComponentShape ==
  ASSUME NEW tz, IsTimeZone(tz)
  PROVE  IsZoneComponent(ZoneComponent(tz)) /\ IsZone(ZoneComponent(tz))
         /\ ~IsConverted(ZoneComponent(tz))
<1> DEFINE subs == ZoneComponent(tz).subs
<1>1. ASSUME NEW name, NEW rule, IsZoneRule(rule)
      PROVE  /\ ZoneRuleComponent(name, rule).offset \in Maybe(Offsets)
             /\ AreTexts(ZoneRuleComponent(name, rule).rrules)
  <2>1. ICalOffset(rule.offset) \in Maybe(Offsets)
    <3>1. ASSUME NEW offset \in Offsets PROVE [offset EXCEPT !.form = "basic"] \in Offsets
      BY DEF Offsets, Text
    <3>2. QED
      BY <1>1, <3>1 DEF ICalOffset, IsZoneRule, Maybe
  <2>2. AreTexts(Strings(rule.rules))
    BY <1>1, StringsShape DEF IsZoneRule
  <2>3. QED
    BY <2>1, <2>2 DEF ZoneRuleComponent
<1>2. \A i \in DOMAIN subs : \E name, rule : IsZoneRule(rule) /\ subs[i] = ZoneRuleComponent(name, rule)
  <2> SUFFICES ASSUME NEW i \in DOMAIN subs
               PROVE  \E name, rule : IsZoneRule(rule) /\ subs[i] = ZoneRuleComponent(name, rule)
    OBVIOUS
  <2> DEFINE m == Len(tz.standard)
             n == Len(tz.daylight)
  <2>1. /\ m \in Nat /\ n \in Nat /\ DOMAIN subs = 1 .. m + n
        /\ \A k \in 1 .. m : subs[k] = ZoneRuleComponent("STANDARD", tz.standard[k])
        /\ \A k \in 1 .. n : subs[m + k] = ZoneRuleComponent("DAYLIGHT", tz.daylight[k])
        /\ \A k \in 1 .. m : IsZoneRule(tz.standard[k])
        /\ \A k \in 1 .. n : IsZoneRule(tz.daylight[k])
    BY ZoneSubs DEF IsTimeZone, AreZoneRules
  <2> HIDE DEF subs, m, n
  <2>2. CASE i \in 1 .. m
    BY <2>1, <2>2
  <2>3. CASE i \notin 1 .. m
    <3>1. i - m \in 1 .. n /\ m + (i - m) = i
      BY <2>1, <2>3
    <3>2. QED
      BY <2>1, <3>1
  <2>4. QED
    BY <2>2, <2>3
<1>3. IsList(subs)
  BY ZoneSubs
<1> HIDE DEF subs
<1>4. ZoneComponent(tz).tzid \in Seq(Chars)
  BY EscapedShape DEF IsTimeZone, ZoneComponent
<1>5. IsZoneComponent(ZoneComponent(tz))
  BY <1>1, <1>2, <1>3, <1>4 DEF IsZoneComponent, subs
<1>6. QED
  BY <1>5 DEF ZoneComponent, IsZone, IsConverted

-----------------------------------------------------------------------------
(***************************************************************************)
(* The fields of an imported object, and their types.                      *)
(***************************************************************************)
ZoneOfComponent(comp) ==
  IF comp.name = "VTODO" THEN ZoneOf(SplitOf(comp.start), SplitOf(comp.due))
  ELSE SplitOf(comp.start).zone

IsImported(object, comp, available) ==
  /\ HasFields(object)
  /\ object.kind = IF comp.name = "VTODO" THEN "Task" ELSE "Event"
  /\ object.uid = comp.uid
  /\ object.title = comp.title
  /\ object.sequence = IF comp.sequence = Absent THEN 0 ELSE comp.sequence
  /\ object.created = comp.created
  /\ object.updated = Updated(comp)
  /\ object.privacy = IF comp.class = Absent THEN Absent ELSE PrivacyFromClass(comp.class)
  /\ object.keywords = [k \in comp.categories |-> TRUE]
  /\ object.locations = Single(comp.location)
  /\ object.participants = ParticipantsFrom(comp)
  /\ object.links = Single(comp.url)
  /\ object.alerts = AlertsFrom(comp)
  /\ object.start = SplitOf(comp.start).local
  /\ object.due = IF comp.name = "VTODO" THEN SplitOf(comp.due).local ELSE Absent
  /\ object.timeZone = AttachedZone(ZoneOfComponent(comp), available)
  /\ object.allDay = IF comp.name = "VTODO" THEN AllDay(SplitOf(comp.start), SplitOf(comp.due))
                     ELSE SplitOf(comp.start).kind = "date"
  /\ object.duration = IF comp.name = "VTODO" THEN comp.duration ELSE EventDuration(comp)
  /\ object.percent = IF comp.name = "VTODO" THEN comp.percent ELSE Absent
  /\ object.status = Status(comp)
  /\ object.rules = [i \in DOMAIN comp.rrules |-> RuleFrom(comp.rrules[i])]
  /\ object.excluded = [i \in DOMAIN comp.exrules |-> RuleFrom(comp.exrules[i])]
  /\ object.timeZones = Attached(AttachedZone(ZoneOfComponent(comp), available), available)

LEMMA ImportedFields ==
  ASSUME NEW comp, NEW available
  PROVE  IsImported(Imported(comp, available), comp, available)
<1> DEFINE object == Imported(comp, available)
<1> HIDE DEF object
<1> SUFFICES IsImported(object, comp, available)
  BY DEF object
<1>1. CASE comp.name = "VTODO"
  <2>1. object = TaskFromVTodo(comp, available)
    BY <1>1 DEF Imported, object
  <2>2. ZoneOfComponent(comp) = ZoneOf(SplitOf(comp.start), SplitOf(comp.due))
    BY <1>1 DEF ZoneOfComponent
  <2>3. /\ HasFields(object)
        /\ object.uid = comp.uid
        /\ object.title = comp.title
        /\ object.sequence = IF comp.sequence = Absent THEN 0 ELSE comp.sequence
        /\ object.created = comp.created
        /\ object.updated = Updated(comp)
        /\ object.privacy = IF comp.class = Absent THEN Absent ELSE PrivacyFromClass(comp.class)
        /\ object.keywords = [k \in comp.categories |-> TRUE]
        /\ object.locations = Single(comp.location)
        /\ object.participants = ParticipantsFrom(comp)
        /\ object.links = Single(comp.url)
        /\ object.alerts = AlertsFrom(comp)
        /\ object.status = Status(comp)
        /\ object.rules = [i \in DOMAIN comp.rrules |-> RuleFrom(comp.rrules[i])]
        /\ object.excluded = [i \in DOMAIN comp.exrules |-> RuleFrom(comp.exrules[i])]
        /\ object.kind = "Task"
        /\ object.start = SplitOf(comp.start).local
        /\ object.due = SplitOf(comp.due).local
        /\ object.timeZone = AttachedZone(ZoneOf(SplitOf(comp.start), SplitOf(comp.due)), available)
        /\ object.allDay = AllDay(SplitOf(comp.start), SplitOf(comp.due))
        /\ object.duration = comp.duration
        /\ object.percent = comp.percent
        /\ object.timeZones =
             Attached(AttachedZone(ZoneOf(SplitOf(comp.start), SplitOf(comp.due)), available), available)
    BY <2>1 DEF TaskFromVTodo, CommonProps, RecurrenceProps, ZoneProps, Over, HasFields, FieldNames
  <2>4. QED
    BY <1>1, <2>2, <2>3 DEF IsImported
<1>2. CASE comp.name # "VTODO"
  <2>1. object = EventFromVEvent(comp, available)
    BY <1>2 DEF Imported, object
  <2>2. ZoneOfComponent(comp) = SplitOf(comp.start).zone
    BY <1>2 DEF ZoneOfComponent
  <2>3. HasFields(object)
    BY <2>1 DEF EventFromVEvent, CommonProps, RecurrenceProps, ZoneProps, Over, HasFields, FieldNames
  <2>4. /\ object.uid = comp.uid
        /\ object.title = comp.title
        /\ object.sequence = IF comp.sequence = Absent THEN 0 ELSE comp.sequence
        /\ object.created = comp.created
        /\ object.updated = Updated(comp)
        /\ object.privacy = IF comp.class = Absent THEN Absent ELSE PrivacyFromClass(comp.class)
        /\ object.keywords = [k \in comp.categories |-> TRUE]
        /\ object.locations = Single(comp.location)
        /\ object.participants = ParticipantsFrom(comp)
        /\ object.links = Single(comp.url)
        /\ object.alerts = AlertsFrom(comp)
        /\ object.status = Status(comp)
        /\ object.rules = [i \in DOMAIN comp.rrules |-> RuleFrom(comp.rrules[i])]
        /\ object.excluded = [i \in DOMAIN comp.exrules |-> RuleFrom(comp.exrules[i])]
        /\ object.kind = "Event"
        /\ object.start = SplitOf(comp.start).local
        /\ object.due = Absent
        /\ object.timeZone = AttachedZone(SplitOf(comp.start).zone, available)
        /\ object.allDay = (SplitOf(comp.start).kind = "date")
        /\ object.duration = EventDuration(comp)
        /\ object.percent = Absent
        /\ object.timeZones = Attached(AttachedZone(SplitOf(comp.start).zone, available), available)
    BY <2>1 DEF EventFromVEvent, CommonProps, RecurrenceProps, ZoneProps, Over
  <2>5. QED
    BY <1>2, <2>2, <2>3, <2>4 DEF IsImported
<1>3. QED
  BY <1>1, <1>2

LEMMA ParticipantsShape ==
  ASSUME NEW comp, comp.organizer \in Maybe(CalAddresses), comp.attendees \in Seq(CalAddresses)
  PROVE  ParticipantsFrom(comp) \in [DOMAIN ParticipantsFrom(comp) -> People]
<1> DEFINE organizer == IF comp.organizer = Absent THEN Empty
                        ELSE Entry(Ordinals[1], ParticipantFrom(comp.organizer, "owner"))
           ids == {Ordinals[i + 1] : i \in DOMAIN comp.attendees}
           at(id) == CHOOSE i \in DOMAIN comp.attendees : Ordinals[i + 1] = id
           others == [id \in ids |-> ParticipantFrom(comp.attendees[at(id)], "attendee")]
<1>1. ASSUME NEW prop \in CalAddresses, NEW role \in {"owner", "attendee"}
      PROVE  ParticipantFrom(prop, role) \in People
  <2>1. prop.address \in Maybe(Addresses) /\ prop.name \in Maybe(STRING)
    BY DEF CalAddresses
  <2>2. prop.address # Absent => prop.address[2] \in STRING
    BY <2>1 DEF Maybe, Addresses
  <2>3. {role} \in SUBSET Text({"owner", "attendee"})
    BY DEF Text
  <2>4. QED
    BY <2>1, <2>2, <2>3 DEF ParticipantFrom, People, Maybe
<1>2. \A id \in DOMAIN organizer : organizer[id] \in People
  BY <1>1 DEF Maybe, Entry, Empty
<1>3. \A id \in ids : others[id] \in People
  <2> SUFFICES ASSUME NEW id \in ids PROVE others[id] \in People
    OBVIOUS
  <2>1. at(id) \in DOMAIN comp.attendees
    OBVIOUS
  <2>2. comp.attendees[at(id)] \in CalAddresses
    BY <2>1
  <2>3. QED
    BY <1>1, <2>2
<1>4. ParticipantsFrom(comp) = Over(organizer, others)
  BY DEF ParticipantsFrom
<1>5. DOMAIN others = ids
  OBVIOUS
<1> HIDE DEF organizer, others, ids
<1>6. QED
  BY <1>2, <1>3, <1>4, <1>5 DEF Over

LEMMA AlertsShape ==
  ASSUME NEW comp, comp.alarms \in Seq(AlarmComponents)
  PROVE  AlertsFrom(comp) \in [DOMAIN AlertsFrom(comp) -> Alerts]
<1>1. ASSUME NEW alarm \in AlarmComponents PROVE AlertFrom(alarm) \in Alerts
  <2>1. alarm.action \in Maybe(Tokens) /\ alarm.trigger \in Maybe(Triggers)
    BY DEF AlarmComponents
  <2>2. TriggerFrom(alarm.trigger) \in Maybe(Triggers)
    <3>1. ASSUME NEW trigger \in Triggers, NEW related \in Maybe(Text({"START", "END", "start", "end"}))
          PROVE  [trigger EXCEPT !.related = related] \in Triggers
      BY DEF Triggers
    <3>2. Absent \in Maybe(Text({"START", "END", "start", "end"}))
          /\ "end" \in Maybe(Text({"START", "END", "start", "end"}))
      BY DEF Maybe, Text
    <3>3. QED
      BY <2>1, <3>1, <3>2 DEF TriggerFrom, Maybe
  <2>3. (IF alarm.action = Absent THEN Absent ELSE Lower[alarm.action]) \in Maybe(Tokens)
    BY <2>1, TokensAssumption DEF Maybe
  <2>4. QED
    BY <2>2, <2>3 DEF AlertFrom, Alerts
<1> DEFINE n == Len(comp.alarms)
           at(id) == CHOOSE i \in 1 .. n : Ordinals[i] = id
<1>2. n \in Nat /\ \A i \in 1 .. n : comp.alarms[i] \in AlarmComponents
  OBVIOUS
<1>3. AlertsFrom(comp) = [id \in {Ordinals[i] : i \in 1 .. n} |-> AlertFrom(comp.alarms[at(id)])]
  BY DEF AlertsFrom
<1>4. \A id \in {Ordinals[i] : i \in 1 .. n} : at(id) \in 1 .. n
  OBVIOUS
<1> HIDE DEF n, at
<1>5. QED
  BY <1>1, <1>2, <1>3, <1>4

LEMMA ZoneAttached ==
  ASSUME NEW zone \in Seq(Chars), NEW available, \A id \in DOMAIN available : IsTimeZone(available[id])
  PROVE  LET attached == AttachedZone(zone, available)
         IN  /\ attached \in Seq(Chars)
             /\ IsMap(Attached(attached, available))
             /\ \A id \in DOMAIN Attached(attached, available) :
                  IsTimeZone(Attached(attached, available)[id])
<1>1. AttachedZone(zone, available) \in Seq(Chars)
  BY ICalTimeAssumption DEF AttachedZone, CustomTimeZoneID
<1>2. QED
  BY <1>1 DEF Attached, Entry, Empty, IsMap

LEMMA ImportedShape ==
  ASSUME NEW comp, IsConverted(comp), IsComponent(comp), Imports(comp),
         NEW available, \A id \in DOMAIN available : IsTimeZone(available[id])
  PROVE  IsReturned(Imported(comp, available))
<1> DEFINE object == Imported(comp, available)
<1>0. IsImported(object, comp, available)
  BY ImportedFields
<1> HIDE DEF object
<1>1. /\ HasFields(object)
      /\ object.kind = IF comp.name = "VTODO" THEN "Task" ELSE "Event"
      /\ object.sequence = IF comp.sequence = Absent THEN 0 ELSE comp.sequence
      /\ object.privacy = IF comp.class = Absent THEN Absent ELSE PrivacyFromClass(comp.class)
      /\ object.keywords = [k \in comp.categories |-> TRUE]
      /\ object.locations = Single(comp.location)
      /\ object.participants = ParticipantsFrom(comp)
      /\ object.links = Single(comp.url)
      /\ object.alerts = AlertsFrom(comp)
      /\ object.start = SplitOf(comp.start).local
      /\ object.due = IF comp.name = "VTODO" THEN SplitOf(comp.due).local ELSE Absent
      /\ object.timeZone = AttachedZone(ZoneOfComponent(comp), available)
      /\ object.allDay = IF comp.name = "VTODO" THEN AllDay(SplitOf(comp.start), SplitOf(comp.due))
                         ELSE SplitOf(comp.start).kind = "date"
      /\ object.percent = IF comp.name = "VTODO" THEN comp.percent ELSE Absent
      /\ object.status = Status(comp)
      /\ object.rules = [i \in DOMAIN comp.rrules |-> RuleFrom(comp.rrules[i])]
      /\ object.excluded = [i \in DOMAIN comp.exrules |-> RuleFrom(comp.exrules[i])]
      /\ object.timeZones = Attached(AttachedZone(ZoneOfComponent(comp), available), available)
  BY <1>0 DEF IsImported
<1>2. comp.start \in Maybe(DateProps) /\ comp.due \in Maybe(DateProps)
  BY DEF IsComponent
<1>3. PropParses(comp.start) /\ (comp.name = "VTODO" => PropParses(comp.due))
  BY DEF Imports
<1>4. SplitOf(comp.start).local \in Maybe(Int) /\ SplitOf(comp.start).zone \in Seq(Chars)
      /\ (comp.name = "VTODO" => SplitOf(comp.due).local \in Maybe(Int)
                                 /\ SplitOf(comp.due).zone \in Seq(Chars))
  BY <1>2, <1>3, SplitShape
<1>5. {object.start, object.due} \subseteq Maybe(Int)
  BY <1>1, <1>4 DEF Maybe
<1>6. ZoneOfComponent(comp) \in Seq(Chars)
  BY <1>4 DEF ZoneOfComponent, ZoneOf
<1>7. object.timeZone \in Seq(Chars) /\ IsMap(object.timeZones)
      /\ \A id \in DOMAIN object.timeZones : IsTimeZone(object.timeZones[id])
  BY <1>1, <1>6, ZoneAttached
<1>8. object.allDay \in BOOLEAN
  BY <1>1 DEF AllDay
<1>9. object.sequence \in Int
  <2>1. comp.sequence # Malformed /\ comp.sequence \in Maybe(Int) \cup {Malformed}
    BY DEF Imports, IsComponent
  <2>2. QED
    BY <1>1, <2>1 DEF Maybe
<1>10. object.privacy \in Maybe(Tokens) /\ object.status \in Maybe(Tokens)
  <2>1. comp.class \in Maybe(Tokens) /\ comp.status \in Maybe(Tokens)
    BY DEF IsComponent
  <2>2. \A t \in Tokens : PrivacyFromClass(t) \in Tokens
    <3>1. {"public", "private", "confidential"} \subseteq Tokens /\ \A t \in Tokens : Lower[t] \in Tokens
      BY TokensAssumption
    <3>2. "secret" \in Tokens
      BY TokensAssumption
    <3>3. QED
      BY <3>1, <3>2 DEF PrivacyFromClass
  <2>3. QED
    BY <1>1, <2>1, <2>2, TokensAssumption DEF Maybe, Status
<1>11. object.keywords \in [DOMAIN object.keywords -> BOOLEAN]
  BY <1>1
<1>12. IsMap(object.locations) /\ IsMap(object.links)
  BY <1>1 DEF Single, Entry, Empty, IsMap
<1>13. object.participants \in [DOMAIN object.participants -> People]
  BY <1>1, ParticipantsShape DEF IsComponent
<1>14. object.alerts \in [DOMAIN object.alerts -> Alerts]
  BY <1>1, AlertsShape DEF IsComponent
<1>15. AreRules(object.rules) /\ AreRules(object.excluded)
  BY <1>1, RulesShape DEF IsComponent
<1>16. IsObject(object) /\ (object.kind = "Event" => object.due = Absent /\ object.percent = Absent)
  BY <1>1 DEF IsObject
<1>17. QED
  BY <1>1, <1>5, <1>7, <1>8, <1>9, <1>10, <1>11, <1>12, <1>13, <1>14, <1>15, <1>16
  DEF IsReturned, IsCalendarObject, object

-----------------------------------------------------------------------------
(***************************************************************************)
(* The properties of an exported component, and their types.               *)
(***************************************************************************)
LEMMA SortedIDsShape ==
  ASSUME NEW ids
  PROVE  /\ SortedIDs(ids) \in Seq(ids)
         /\ Len(SortedIDs(ids)) \in Nat /\ DOMAIN SortedIDs(ids) = 1 .. Len(SortedIDs(ids))
         /\ \A i \in DOMAIN SortedIDs(ids) : SortedIDs(ids)[i] \in ids
         /\ SortedIDs(ids) # <<>> => Head(SortedIDs(ids)) \in ids
<1> DEFINE at == {i \in DOMAIN IdOrder : IdOrder[i] \in ids}
<1>1. Len(IdOrder) \in Nat /\ at \in SUBSET (1 .. Len(IdOrder)) /\ \A i \in at : IdOrder[i] \in ids
  BY ICalExportAssumption
<1>2. Subsequence(IdOrder, at) \in Seq(ids)
  BY <1>1, SubsequenceIsSequence
<1>3. SortedIDs(ids) \in Seq(ids)
  BY <1>2 DEF SortedIDs
<1>4. QED
  BY <1>3

IsExported(comp, object) ==
  /\ comp.name = IF object.kind = "Task" THEN "VTODO" ELSE "VEVENT"
  /\ comp.uid = object.uid
  /\ comp.title = object.title
  /\ comp.sequence = IF object.sequence = 0 THEN Absent ELSE object.sequence
  /\ comp.created = object.created
  /\ comp.modified = object.updated
  /\ comp.stamp = Stamp(object)
  /\ comp.class = Class(object)
  /\ comp.categories = {k \in DOMAIN object.keywords : object.keywords[k]}
  /\ comp.location = FirstValue(object.locations)
  /\ comp.url = FirstValue(object.links)
  /\ comp.organizer = Organizer(object.participants)
  /\ comp.attendees = Attendees(object.participants)
  /\ comp.alarms = Alarms(object.alerts)
  /\ comp.rrules = Strings(object.rules)
  /\ comp.exrules = Strings(object.excluded)
  /\ comp.start = DateTimeOf(object, object.start)
  /\ comp.end = Absent
  /\ comp.due = IF object.kind = "Task" THEN DateTimeOf(object, object.due) ELSE Absent
  /\ comp.duration = DurationOf(object)
  /\ comp.percent = IF object.kind = "Task" THEN object.percent ELSE Absent
  /\ comp.status = StatusOf(object)

LEMMA ExportedFields ==
  ASSUME NEW object, IsObject(object)
  PROVE  IsExported(Exported(object), object)
<1> DEFINE comp == Exported(object)
<1> HIDE DEF comp
<1> SUFFICES IsExported(comp, object)
  BY DEF comp
<1>1. CASE object.kind = "Task"
  <2>1. comp = VTodoFromTask(object)
    BY <1>1 DEF Exported, comp
  <2>2. QED
    BY <1>1, <2>1 DEF IsExported, VTodoFromTask, CommonPropsToComp, RecurrenceToProps, Over
<1>2. CASE object.kind # "Task"
  <2>1. comp = VEventFromEvent(object)
    BY <1>2 DEF Exported, comp
  <2>2. QED
    BY <1>2, <2>1 DEF IsExported, VEventFromEvent, CommonPropsToComp, RecurrenceToProps, Over
<1>3. QED
  BY <1>1, <1>2

LEMMA CalAddressShape ==
  ASSUME NEW p \in People, Address(p) # Absent
  PROVE  CalAddress(p) \in CalAddresses /\ Address(p) \in Addresses
<1>1. p.imip \in Maybe(Addresses) /\ p.email \in Maybe(STRING) /\ p.name \in Maybe(STRING)
  BY DEF People
<1>2. \A email \in STRING : Mailto(email) \in Addresses
  BY DEF Mailto, Addresses, Text
<1>3. Address(p) \in Addresses
  BY <1>1, <1>2 DEF Address, Maybe
<1>4. QED
  BY <1>1, <1>3 DEF CalAddress, CalAddresses, Maybe

LEMMA PeopleShape ==
  ASSUME NEW people, people \in [DOMAIN people -> People]
  PROVE  Organizer(people) \in Maybe(CalAddresses) /\ Attendees(people) \in Seq(CalAddresses)
<1> DEFINE owners == Owners(people)
           rest == {id \in Addressed(people) : owners = <<>> \/ id # Head(owners)}
           ids == SortedIDs(rest)
<1>1. \A id \in Addressed(people) : CalAddress(people[id]) \in CalAddresses
  BY CalAddressShape DEF Addressed
<1>2. owners # <<>> => Head(owners) \in Addressed(people)
  BY SortedIDsShape DEF Owners
<1>3. Organizer(people) \in Maybe(CalAddresses)
  BY <1>1, <1>2 DEF Organizer, Maybe
<1>4. Len(ids) \in Nat /\ DOMAIN ids = 1 .. Len(ids) /\ \A i \in DOMAIN ids : ids[i] \in Addressed(people)
  BY SortedIDsShape
<1>5. Attendees(people) = [i \in DOMAIN ids |-> CalAddress(people[ids[i]])]
  BY DEF Attendees
<1> HIDE DEF ids
<1>6. Attendees(people) \in Seq(CalAddresses)
  BY <1>1, <1>4, <1>5
<1>7. QED
  BY <1>3, <1>6

LEMMA AlarmsShape ==
  ASSUME NEW alerts, alerts \in [DOMAIN alerts -> Alerts]
  PROVE  Alarms(alerts) \in Seq(AlarmComponents)
<1> DEFINE ids == SortedIDs(DOMAIN alerts)
<1>1. ASSUME NEW alert \in Alerts PROVE AlarmFrom(alert) \in AlarmComponents
  <2>1. alert.action \in Maybe(Tokens) /\ alert.trigger \in Maybe(Triggers) \cup {Raw}
    BY DEF Alerts
  <2>2. TriggerProp(alert.trigger) \in Maybe(Triggers)
    <3>1. ASSUME NEW trigger \in Triggers, NEW related \in Maybe(Text({"START", "END", "start", "end"}))
          PROVE  [trigger EXCEPT !.related = related] \in Triggers
      BY DEF Triggers
    <3>2. Absent \in Maybe(Text({"START", "END", "start", "end"}))
          /\ "END" \in Maybe(Text({"START", "END", "start", "end"}))
      BY DEF Maybe, Text
    <3>3. QED
      BY <2>1, <3>1, <3>2 DEF TriggerProp, Maybe
  <2>3. (IF alert.action = Absent THEN "DISPLAY" ELSE Quoted[Upper[alert.action]]) \in Maybe(Tokens)
    BY <2>1, TokensAssumption DEF Maybe
  <2>4. QED
    BY <2>2, <2>3 DEF AlarmFrom, AlarmComponents
<1>2. Len(ids) \in Nat /\ DOMAIN ids = 1 .. Len(ids) /\ \A i \in DOMAIN ids : ids[i] \in DOMAIN alerts
  BY SortedIDsShape
<1>3. Alarms(alerts) = [i \in DOMAIN ids |-> AlarmFrom(alerts[ids[i]])]
  BY DEF Alarms
<1> HIDE DEF ids
<1>4. QED
  BY <1>1, <1>2, <1>3

LEMMA ExportedShape ==
  ASSUME NEW object, IsReturned(object)
  PROVE  /\ IsComponent(Exported(object)) /\ IsConverted(Exported(object))
         /\ ~IsZone(Exported(object))
<1> DEFINE comp == Exported(object)
<1>0. IsExported(comp, object) /\ IsObject(object) /\ IsCalendarObject(object)
  BY ExportedFields DEF IsReturned
<1> HIDE DEF comp
<1>1. /\ comp.name = IF object.kind = "Task" THEN "VTODO" ELSE "VEVENT"
      /\ comp.sequence = IF object.sequence = 0 THEN Absent ELSE object.sequence
      /\ comp.class = Class(object)
      /\ comp.organizer = Organizer(object.participants)
      /\ comp.attendees = Attendees(object.participants)
      /\ comp.alarms = Alarms(object.alerts)
      /\ comp.rrules = Strings(object.rules)
      /\ comp.exrules = Strings(object.excluded)
      /\ comp.start = DateTimeOf(object, object.start)
      /\ comp.end = Absent
      /\ comp.due = IF object.kind = "Task" THEN DateTimeOf(object, object.due) ELSE Absent
      /\ comp.status = StatusOf(object)
  BY <1>0 DEF IsExported
<1>2. comp.sequence \in Maybe(Int) \cup {Malformed}
  BY <1>0, <1>1 DEF IsCalendarObject, Maybe
<1>3. comp.class \in Maybe(Tokens) /\ comp.status \in Maybe(Tokens)
  <2>1. object.privacy \in Maybe(Tokens) /\ object.status \in Maybe(Tokens)
    BY <1>0 DEF IsCalendarObject
  <2>2. \A t \in Tokens : ClassFromPrivacy(t) \in Tokens
    BY TokensAssumption DEF ClassFromPrivacy
  <2>3. QED
    BY <1>1, <2>1, <2>2, TokensAssumption DEF Maybe, Class, StatusOf
<1>4. {comp.start, comp.end, comp.due} \subseteq Maybe(DateProps)
  <2>1. \A local \in Maybe(Int) : DateTimeOf(object, local) \in Maybe(DateProps)
    BY <1>0, DateTimeShape DEF IsCalendarObject, DateTimeOf, Maybe
  <2>2. object.start \in Maybe(Int) /\ object.due \in Maybe(Int)
    BY <1>0 DEF IsCalendarObject
  <2>3. Absent \in Maybe(DateProps)
    BY DEF Maybe
  <2>4. QED
    BY <1>1, <2>1, <2>2, <2>3
<1>5. comp.organizer \in Maybe(CalAddresses) /\ comp.attendees \in Seq(CalAddresses)
  BY <1>0, <1>1, PeopleShape DEF IsCalendarObject
<1>6. comp.alarms \in Seq(AlarmComponents)
  BY <1>0, <1>1, AlarmsShape DEF IsCalendarObject
<1>7. AreTexts(comp.rrules) /\ AreTexts(comp.exrules)
  BY <1>0, <1>1, StringsShape DEF IsCalendarObject
<1>8. IsConverted(comp) /\ ~IsZone(comp)
  BY <1>1 DEF IsConverted, IsZone
<1>9. QED
  BY <1>2, <1>3, <1>4, <1>5, <1>6, <1>7, <1>8 DEF IsComponent, comp

-----------------------------------------------------------------------------
(***************************************************************************)
(* Lists as the steps build them up and take them apart.                   *)
(***************************************************************************)
LEMMA SubsequenceEmpty ==
  ASSUME NEW s
  PROVE  Subsequence(s, {}) = <<>>
<1> DEFINE f == [k \in 1 .. 0 |-> 0]
<1>1. Enumerates(f, 0, {})
  BY DEF Enumerates
<1>2. Subsequence(s, {}) = [k \in 1 .. 0 |-> s[f[k]]]
  BY <1>1, SubsequenceIs
<1>3. QED
  BY <1>2

LEMMA Appended ==
  ASSUME NEW s, IsList(s), NEW x
  PROVE  /\ IsList(Append(s, x)) /\ Len(Append(s, x)) = Len(s) + 1
         /\ DOMAIN Append(s, x) = 1 .. Len(s) + 1 /\ Append(s, x)[Len(s) + 1] = x
         /\ \A i \in 1 .. Len(s) : Append(s, x)[i] = s[i]
<1>1. s \in Seq(ToSet(s) \cup {x}) /\ x \in ToSet(s) \cup {x}
  <2>1. \A i \in DOMAIN s : s[i] \in ToSet(s) \cup {x}
    BY DEF ToSet
  <2>2. QED
    BY <2>1, ListIn
<1> DEFINE S == ToSet(s) \cup {x}
           t == Append(s, x)
<1> HIDE DEF S
<1>2. t \in Seq(S) /\ Len(t) = Len(s) + 1 /\ Len(s) \in Nat /\ t[Len(s) + 1] = x
      /\ \A i \in 1 .. Len(s) : t[i] = s[i]
  BY <1>1 DEF S
<1> HIDE DEF t
<1>3. t = [i \in 1 .. Len(s) + 1 |-> t[i]]
  BY <1>2
<1>4. IsList(t) /\ DOMAIN t = 1 .. Len(s) + 1
  BY <1>2, <1>3, ListOf
<1>5. QED
  BY <1>2, <1>4 DEF t

LEMMA WithoutFirst ==
  ASSUME NEW s, IsList(s), s # <<>>
  PROVE  /\ IsList(Tail(s)) /\ Len(Tail(s)) = Len(s) - 1 /\ Len(s) \in Nat \ {0}
         /\ DOMAIN Tail(s) = 1 .. Len(s) - 1 /\ Head(s) = s[1] /\ 1 \in DOMAIN s
         /\ \A i \in 1 .. Len(s) - 1 : Tail(s)[i] = s[i + 1] /\ i + 1 \in DOMAIN s
<1> DEFINE t == Tail(s)
<1>1. s \in Seq(ToSet(s)) /\ Len(s) \in Nat \ {0} /\ DOMAIN s = 1 .. Len(s)
  BY DEF IsList
<1>2. t \in Seq(ToSet(s)) /\ Len(t) = Len(s) - 1 /\ \A i \in 1 .. Len(s) - 1 : t[i] = s[i + 1]
  BY <1>1
<1> HIDE DEF t
<1>3. t = [i \in 1 .. Len(s) - 1 |-> t[i]] /\ Len(s) - 1 \in Nat
  BY <1>1, <1>2
<1>4. IsList(t) /\ DOMAIN t = 1 .. Len(s) - 1
  BY <1>3, ListOf
<1>5. QED
  BY <1>1, <1>2, <1>4 DEF t

LEMMA Joined ==
  ASSUME NEW s, NEW t, IsList(s), IsList(t)
  PROVE  /\ IsList(s \o t) /\ Len(s \o t) = Len(s) + Len(t) /\ DOMAIN (s \o t) = 1 .. Len(s) + Len(t)
         /\ \A i \in 1 .. Len(s) : (s \o t)[i] = s[i]
         /\ \A i \in 1 .. Len(t) : (s \o t)[Len(s) + i] = t[i]
         /\ \A i \in DOMAIN (s \o t) : \/ i \in DOMAIN s /\ (s \o t)[i] = s[i]
                                       \/ i - Len(s) \in DOMAIN t /\ (s \o t)[i] = t[i - Len(s)]
<1> DEFINE S == ToSet(s) \cup ToSet(t)
           r == s \o t
<1>1. s \in Seq(S) /\ t \in Seq(S)
  <2>1. (\A i \in DOMAIN s : s[i] \in S) /\ (\A i \in DOMAIN t : t[i] \in S)
    BY DEF ToSet
  <2> HIDE DEF S
  <2>2. QED
    BY <2>1, ListIn
<1> HIDE DEF S
<1>2. /\ r \in Seq(S) /\ Len(r) = Len(s) + Len(t) /\ Len(s) \in Nat /\ Len(t) \in Nat
      /\ DOMAIN s = 1 .. Len(s) /\ DOMAIN t = 1 .. Len(t)
      /\ \A i \in 1 .. Len(s) : r[i] = s[i]
      /\ \A i \in 1 .. Len(t) : r[Len(s) + i] = t[i]
  BY <1>1
<1> HIDE DEF r
<1>3. r = [i \in 1 .. Len(s) + Len(t) |-> r[i]]
  BY <1>2
<1>4. IsList(r) /\ DOMAIN r = 1 .. Len(s) + Len(t)
  BY <1>2, <1>3, ListOf
<1>5. \A i \in DOMAIN r : \/ i \in DOMAIN s /\ r[i] = s[i]
                          \/ i - Len(s) \in DOMAIN t /\ r[i] = t[i - Len(s)]
  <2> SUFFICES ASSUME NEW i \in 1 .. Len(s) + Len(t)
               PROVE  \/ i \in DOMAIN s /\ r[i] = s[i]
                      \/ i - Len(s) \in DOMAIN t /\ r[i] = t[i - Len(s)]
    BY <1>4
  <2>1. CASE i <= Len(s)
    BY <1>2, <2>1
  <2>2. CASE i > Len(s)
    <3>1. i - Len(s) \in 1 .. Len(t) /\ Len(s) + (i - Len(s)) = i
      BY <1>2, <2>2
    <3>2. QED
      BY <1>2, <3>1
  <2>3. QED
    BY <1>2, <2>1, <2>2
<1>6. QED
  BY <1>2, <1>4, <1>5 DEF r

(***************************************************************************)
(* The converted components of a longer calendar.                          *)
(***************************************************************************)
ConvertedOf(s) == Subsequence(s, {i \in DOMAIN s : IsConverted(s[i])})

LEMMA ConvertedWithLast ==
  ASSUME NEW s, IsList(s), NEW x
  PROVE  ConvertedOf(Append(s, x))
           = IF IsConverted(x) THEN Append(ConvertedOf(s), x) ELSE ConvertedOf(s)
<1> DEFINE t == Append(s, x)
           m == Len(s)
           at == {i \in DOMAIN s : IsConverted(s[i])}
           to == {i \in DOMAIN t : IsConverted(t[i])}
<1>1. /\ m \in Nat /\ DOMAIN s = 1 .. m /\ DOMAIN t = 1 .. m + 1 /\ t[m + 1] = x
      /\ \A i \in 1 .. m : t[i] = s[i]
  BY Appended, ListFacts
<1>2. at \in SUBSET (1 .. m)
  BY <1>1
<1>3. to = IF IsConverted(x) THEN at \cup {m + 1} ELSE at
  <2>1. \A i \in 1 .. m + 1 : i \in 1 .. m \/ i = m + 1
    BY <1>1
  <2>2. m + 1 \in 1 .. m + 1 /\ \A i \in 1 .. m : i \in 1 .. m + 1
    BY <1>1
  <2> HIDE DEF t, m
  <2>3. QED
    BY <1>1, <2>1, <2>2
<1>4. ConvertedOf(s) = Subsequence(s, at) /\ ConvertedOf(t) = Subsequence(t, to)
  BY DEF ConvertedOf
<1> HIDE DEF t, m, at, to
<1>5. Subsequence(t, at) = Subsequence(s, at)
  BY <1>1, <1>2, SubsequenceOfMore
<1>6. Subsequence(t, at \cup {m + 1}) = Append(Subsequence(t, at), t[m + 1])
  BY <1>1, <1>2, SubsequenceWithLast
<1>7. QED
  BY <1>1, <1>3, <1>4, <1>5, <1>6 DEF t

LEMMA ConvertedWithFirst ==
  ASSUME NEW s, IsList(s), NEW x, ~IsConverted(x)
  PROVE  ConvertedOf(<<x>> \o s) = ConvertedOf(s)
<1> DEFINE t == <<x>> \o s
           m == Len(s)
           at == {i \in DOMAIN s : IsConverted(s[i])}
           to == {i \in DOMAIN t : IsConverted(t[i])}
<1>1. IsList(<<x>>) /\ Len(<<x>>) = 1
  BY DEF IsList, ToSet
<1>2. /\ m \in Nat /\ DOMAIN s = 1 .. m /\ DOMAIN t = 1 .. 1 + m /\ t[1] = x
      /\ \A i \in 1 .. m : t[1 + i] = s[i]
  BY <1>1, Joined, ListFacts
<1>3. at \in SUBSET (1 .. m)
  BY <1>2
<1>4. to = {i + 1 : i \in at}
  <2> HIDE DEF t, m
  <2>1. ASSUME NEW i \in to PROVE i - 1 \in at /\ i = (i - 1) + 1
    <3>1. i \in 1 .. 1 + m /\ IsConverted(t[i])
      BY <1>2
    <3>2. i # 1
      BY <1>2, <3>1
    <3>3. i - 1 \in 1 .. m /\ i = 1 + (i - 1)
      BY <1>2, <3>1, <3>2
    <3>4. t[i] = s[i - 1]
      BY <1>2, <3>3
    <3>5. QED
      BY <1>2, <3>1, <3>3, <3>4
  <2>2. ASSUME NEW i \in at PROVE i + 1 \in to
    <3>1. i \in 1 .. m /\ IsConverted(s[i]) /\ 1 + i = i + 1 /\ i + 1 \in 1 .. 1 + m
      BY <1>2
    <3>2. QED
      BY <1>2, <3>1
  <2> HIDE DEF at, to
  <2>3. QED
    BY <2>1, <2>2
<1>5. ConvertedOf(s) = Subsequence(s, at) /\ ConvertedOf(t) = Subsequence(t, to)
  BY DEF ConvertedOf
<1>6. \A i \in 1 .. m : t[i + 1] = s[i]
  <2> HIDE DEF t, m
  <2>1. \A i \in 1 .. m : i + 1 = 1 + i
    BY <1>2
  <2>2. QED
    BY <1>2, <2>1
<1> HIDE DEF t, m, at, to
<1>7. Subsequence(t, to) = Subsequence(s, at)
  <2> DEFINE b == 1
  <2>1. b \in Int /\ (\A j : j \in to <=> \E i \in at : j = i + b) /\ \A i \in 1 .. m : t[i + b] = s[i]
    BY <1>4, <1>6
  <2> HIDE DEF b
  <2>2. Shifted(s, m, at, t, to, b)
    BY <1>2, <1>3, <2>1 DEF Shifted
  <2>3. QED
    BY <2>2, SubsequenceShifted
<1>8. QED
  BY <1>5, <1>7 DEF t
-----------------------------------------------------------------------------
(***************************************************************************)
(* The invariant at the start and the objects of a call that returned.     *)
(***************************************************************************)
LEMMA ConvertedShape ==
  ASSUME NEW s, IsList(s)
  PROVE  /\ IsList(ConvertedOf(s))
         /\ \A k \in DOMAIN ConvertedOf(s) :
              \E i \in DOMAIN s : IsConverted(s[i]) /\ ConvertedOf(s)[k] = s[i]
<1> DEFINE at == {i \in DOMAIN s : IsConverted(s[i])}
           t == ConvertedOf(s)
<1>1. Len(s) \in Nat /\ at \in SUBSET (1 .. Len(s)) /\ \A i \in at : s[i] \in ToSet(s)
  BY ListFacts DEF ToSet
<1>2. t = Subsequence(s, at)
  BY DEF ConvertedOf
<1>3. t \in Seq(ToSet(s)) /\ \A k \in DOMAIN t : \E i \in at : t[k] = s[i]
  <2>1. /\ Subsequence(s, at) \in Seq(ToSet(s))
        /\ \A k \in DOMAIN Subsequence(s, at) : \E i \in at : Subsequence(s, at)[k] = s[i]
    <3> HIDE DEF at
    <3>1. QED
      BY <1>1, SubsequenceIsSequence
  <2> HIDE DEF at, t
  <2>2. QED
    BY <1>2, <2>1
<1> HIDE DEF t
<1>4. IsList(t)
  <2>1. Len(t) \in Nat /\ t = [i \in 1 .. Len(t) |-> t[i]]
    BY <1>3
  <2>2. QED
    BY <2>1, ListOf
<1>5. QED
  BY <1>3, <1>4 DEF t

LEMMA ConvertedAll ==
  ASSUME IsList(calendar)
  PROVE  ConvertedUpTo(Len(calendar)) = Converted /\ Converted = ConvertedOf(calendar)
<1>1. DOMAIN calendar = 1 .. Len(calendar)
  BY ListFacts
<1>2. QED
  BY <1>1 DEF ConvertedUpTo, Converted, ConvertedOf

LEMMA ZonesTyped ==
  ASSUME CalendarShaped, Gathered(Len(calendar))
  PROVE  \A id \in DOMAIN zones : IsTimeZone(zones[id])
<1> SUFFICES ASSUME NEW id \in DOMAIN zones PROVE IsTimeZone(zones[id])
  OBVIOUS
<1>1. PICK j \in 1 .. Len(calendar) : IsZone(calendar[j]) /\ zones[id] = ZoneFrom(calendar[j])
  BY DEF Gathered
<1>2. IsZoneComponent(calendar[j])
  BY <1>1, ListFacts DEF CalendarShaped, Shaped
<1>3. QED
  BY <1>1, <1>2, ZoneShape

LEMMA ReturnedObjects ==
  ASSUME BridgeInv, phase = "objects"
  PROVE  /\ IsList(objects) /\ \A i \in DOMAIN objects : IsReturned(objects[i])
         /\ objects = [i \in DOMAIN Converted |-> Imported(Converted[i], zones)]
         /\ IsList(Converted)
         /\ \A i \in DOMAIN Converted : IsConverted(Converted[i]) /\ IsComponent(Converted[i])
                                        /\ Imports(Converted[i])
         /\ \A id \in DOMAIN zones : IsTimeZone(zones[id])
<1>1. CalendarShaped /\ Gathered(Len(calendar)) /\ Made(Len(calendar))
  BY DEF BridgeInv, Finished, Importing
<1>2. ConvertedUpTo(Len(calendar)) = Converted /\ Converted = ConvertedOf(calendar) /\ IsList(calendar)
  BY <1>1, ConvertedAll DEF CalendarShaped
<1>3. IsList(Converted) /\ \A k \in DOMAIN Converted :
        \E i \in DOMAIN calendar : IsConverted(calendar[i]) /\ Converted[k] = calendar[i]
  BY <1>2, ConvertedShape
<1>4. objects = [i \in DOMAIN Converted |-> Imported(Converted[i], zones)]
  BY <1>1, <1>2 DEF Made
<1>5. \A i \in DOMAIN Converted : IsConverted(Converted[i]) /\ IsComponent(Converted[i])
                                  /\ Imports(Converted[i])
  <2> SUFFICES ASSUME NEW k \in DOMAIN Converted
               PROVE  IsConverted(Converted[k]) /\ IsComponent(Converted[k]) /\ Imports(Converted[k])
    OBVIOUS
  <2>1. PICK i \in DOMAIN calendar : IsConverted(calendar[i]) /\ Converted[k] = calendar[i]
    BY <1>3
  <2>2. i \in 1 .. Len(calendar)
    BY <1>2, ListFacts
  <2>3. QED
    BY <1>1, <2>1, <2>2 DEF CalendarShaped, Shaped, Made
<1>6. \A id \in DOMAIN zones : IsTimeZone(zones[id])
  BY <1>1, ZonesTyped
<1>7. \A i \in DOMAIN Converted : IsReturned(Imported(Converted[i], zones))
  BY <1>5, <1>6, ImportedShape
<1>8. IsList(objects) /\ DOMAIN objects = DOMAIN Converted
  <2>1. Len(Converted) \in Nat /\ DOMAIN Converted = 1 .. Len(Converted)
    BY <1>3, ListFacts
  <2>2. objects = [i \in 1 .. Len(Converted) |-> objects[i]]
    BY <1>4, <2>1
  <2>3. QED
    BY <2>1, <2>2, ListOf
<1>9. \A i \in DOMAIN objects : IsReturned(objects[i])
  BY <1>4, <1>7, <1>8
<1>10. QED
  BY <1>3, <1>4, <1>5, <1>6, <1>8, <1>9

LEMMA BridgeInit ==
  ASSUME Init
  PROVE  BridgeInv
BY DEF Init, BridgeInv, Exporting, Finished, Importing

LEMMA BridgeFail ==
  ASSUME BridgeInv, Fail
  PROVE  BridgeInv'
BY DEF Fail, BridgeInv, Exporting, Finished, Importing

LEMMA ItemShape ==
  ASSUME NEW v, Exportable(v)
  PROVE  /\ IsObject(v) => IsReturned(v)
         /\ v.kind = "Group" => IsList(v.entries) /\ \A i \in DOMAIN v.entries : Exportable(v.entries[i])
<1>1. CASE v \in Items
  <2>0. /\ IsObject(v) => IsCalendarObject(v)
        /\ v.kind = "Group" => v.entries \in Seq(Items)
    BY <1>1, ICalendarAssumption, Zenon
  <2>1. IsObject(v) => IsReturned(v)
    BY <2>0 DEF IsReturned
  <2>2. ASSUME v.kind = "Group"
        PROVE  IsList(v.entries) /\ \A i \in DOMAIN v.entries : Exportable(v.entries[i])
    <3>1. v.entries \in Seq(Items)
      BY <2>0, <2>2
    <3>2. IsList(v.entries)
      BY <3>1 DEF IsList, ToSet
    <3>3. QED
      BY <3>1, <3>2 DEF Exportable
  <2>3. QED
    BY <2>1, <2>2
<1>2. CASE IsReturned(v)
  BY <1>2 DEF IsReturned, IsObject
<1>3. QED
  BY <1>1, <1>2 DEF Exportable

LEMMA BridgeToICal ==
  ASSUME BridgeInv, NEW objs, ToICal(objs),
         IsList(objs), \A i \in DOMAIN objs : Exportable(objs[i])
  PROVE  BridgeInv'
<1>1. /\ phase' = "exporting" /\ pending' = objs /\ zones' = <<>>
      /\ calendar' = <<>> /\ objects' = <<>> /\ given' = <<>>
  BY DEF ToICal, Empty
<1>2. IsList(<<>>)
  BY DEF IsList
<1>3. Converted' = <<>>
  <2>1. Converted' = Subsequence(<<>>, {})
    BY <1>1 DEF Converted
  <2>2. QED
    BY <2>1, SubsequenceEmpty
<1>4. Built'
  BY <1>1, <1>2, <1>3 DEF Built
<1>5. CalendarShaped' /\ ZonesOfGiven'
  BY <1>1, <1>2 DEF CalendarShaped, ZonesOfGiven, IsMap
<1>6. Exporting'
  BY <1>1, <1>4, <1>5 DEF Exporting
<1>7. QED
  BY <1>1, <1>6 DEF BridgeInv, Finished, Importing

(***************************************************************************)
(* The steps of ToICal.                                                    *)
(***************************************************************************)
LEMMA BridgeAppendObject ==
  ASSUME BridgeInv, AppendObject
  PROVE  BridgeInv'
<1> DEFINE object == Head(pending)
           comp == Exported(object)
           n == Len(given)
           m == Len(calendar)
<1>1. /\ phase = "exporting" /\ pending # <<>> /\ IsObject(object)
      /\ calendar' = Append(calendar, comp) /\ given' = Append(given, object)
      /\ zones' = Over(object.timeZones, zones)
      /\ pending' = Tail(pending) /\ phase' = phase /\ objects' = objects
  BY DEF AppendObject
<1>2. /\ CalendarShaped /\ Built /\ ZonesOfGiven
      /\ IsList(pending) /\ \A i \in DOMAIN pending : Exportable(pending[i])
      /\ \A k \in DOMAIN given : \A id \in DOMAIN given[k].timeZones :
           id \in DOMAIN zones \/ Emitted(id)
  BY <1>1 DEF BridgeInv, Exporting
<1>3. IsReturned(object)
  <2>1. Exportable(object)
    BY <1>1, <1>2, WithoutFirst
  <2>2. QED
    BY <1>1, <2>1, ItemShape
<1>4. IsComponent(comp) /\ IsConverted(comp) /\ ~IsZone(comp)
  BY <1>3, ExportedShape
<1> HIDE DEF object, comp
<1>5. /\ IsList(given') /\ DOMAIN given' = 1 .. n + 1 /\ given'[n + 1] = object /\ n \in Nat
      /\ DOMAIN given = 1 .. n /\ \A k \in 1 .. n : given'[k] = given[k]
  BY <1>1, <1>2, Appended, ListFacts DEF Built
<1>6. /\ IsList(calendar') /\ DOMAIN calendar' = 1 .. m + 1 /\ calendar'[m + 1] = comp /\ m \in Nat
      /\ DOMAIN calendar = 1 .. m /\ \A j \in 1 .. m : calendar'[j] = calendar[j]
  BY <1>1, <1>2, Appended, ListFacts DEF CalendarShaped
<1> HIDE DEF n, m
<1>7. /\ \A k \in 1 .. n + 1 : k \in 1 .. n \/ k = n + 1
      /\ \A j \in 1 .. m + 1 : j \in 1 .. m \/ j = m + 1
      /\ 1 .. n \subseteq 1 .. n + 1 /\ 1 .. m \subseteq 1 .. m + 1 /\ n + 1 \in 1 .. n + 1
  BY <1>5, <1>6
<1>8. CalendarShaped'
  BY <1>2, <1>4, <1>6, <1>7 DEF CalendarShaped, Shaped
<1>9. Built'
  <2>1. \A k \in DOMAIN given' : IsReturned(given'[k])
    BY <1>2, <1>3, <1>5, <1>7 DEF Built
  <2>2. Converted' = [i \in DOMAIN given' |-> Exported(given'[i])]
    <3>1. Converted' = Append(Converted, comp)
      <4>1. ConvertedOf(Append(calendar, comp)) = Append(ConvertedOf(calendar), comp)
        BY <1>2, <1>4, ConvertedWithLast DEF CalendarShaped
      <4>2. Converted = ConvertedOf(calendar) /\ Converted' = ConvertedOf(calendar')
        BY DEF Converted, ConvertedOf
      <4>3. QED
        BY <1>1, <4>1, <4>2
    <3>2. Converted = [i \in 1 .. n |-> Exported(given[i])]
      BY <1>2, <1>5 DEF Built
    <3>3. Append([i \in 1 .. n |-> Exported(given[i])], comp)
            = [i \in 1 .. n + 1 |-> IF i = n + 1 THEN comp ELSE Exported(given[i])]
      BY <1>5
    <3>4. QED
      BY <1>5, <1>7, <3>1, <3>2, <3>3 DEF comp
  <2>3. \A j \in DOMAIN calendar' : IsZone(calendar'[j]) =>
          \E k \in DOMAIN given' : \E id \in DOMAIN given'[k].timeZones :
            calendar'[j] = ZoneComponent(given'[k].timeZones[id])
    <3> SUFFICES ASSUME NEW j \in DOMAIN calendar', IsZone(calendar'[j])
                 PROVE  \E k \in DOMAIN given' : \E id \in DOMAIN given'[k].timeZones :
                          calendar'[j] = ZoneComponent(given'[k].timeZones[id])
      OBVIOUS
    <3>1. j \in 1 .. m /\ calendar'[j] = calendar[j]
      BY <1>4, <1>6, <1>7
    <3>2. PICK k \in DOMAIN given : \E id \in DOMAIN given[k].timeZones :
            calendar[j] = ZoneComponent(given[k].timeZones[id])
      BY <1>2, <1>6, <3>1 DEF Built
    <3>3. k \in DOMAIN given' /\ given'[k] = given[k]
      BY <1>5, <1>7
    <3>4. QED
      BY <3>1, <3>2, <3>3
  <2>4. QED
    BY <1>5, <2>1, <2>2, <2>3 DEF Built
<1>10. ZonesOfGiven'
  <2>1. IsMap(zones')
    BY <1>1 DEF Over, IsMap
  <2>2. ASSUME NEW id \in DOMAIN zones'
        PROVE  \E k \in DOMAIN given' : id \in DOMAIN given'[k].timeZones
                                        /\ zones'[id] = given'[k].timeZones[id]
    <3>1. CASE id \in DOMAIN object.timeZones
      BY <1>1, <1>5, <1>7, <3>1 DEF Over
    <3>2. CASE id \notin DOMAIN object.timeZones
      <4>1. id \in DOMAIN zones /\ zones'[id] = zones[id]
        BY <1>1, <2>2, <3>2 DEF Over
      <4>2. PICK k \in DOMAIN given : id \in DOMAIN given[k].timeZones
                                      /\ zones[id] = given[k].timeZones[id]
        BY <1>2, <4>1 DEF ZonesOfGiven
      <4>3. QED
        BY <1>5, <1>7, <4>1, <4>2
    <3>3. QED
      BY <3>1, <3>2
  <2>3. QED
    BY <2>1, <2>2 DEF ZonesOfGiven
<1>11. IsList(pending') /\ \A i \in DOMAIN pending' : Exportable(pending'[i])
  BY <1>1, <1>2, WithoutFirst
<1>12. ASSUME NEW k \in DOMAIN given', NEW id \in DOMAIN given'[k].timeZones
       PROVE  id \in DOMAIN zones' \/ Emitted(id)'
  <2>1. CASE k = n + 1
    BY <1>1, <1>5, <1>12, <2>1 DEF Over
  <2>2. CASE k \in 1 .. n
    <3>1. given'[k] = given[k] /\ k \in DOMAIN given /\ id \in DOMAIN given[k].timeZones
      BY <1>5, <1>12, <2>2
    <3>2. CASE id \in DOMAIN zones
      BY <1>1, <3>2 DEF Over
    <3>3. CASE Emitted(id)
      <4>1. PICK j \in DOMAIN calendar, l \in DOMAIN given :
              id \in DOMAIN given[l].timeZones /\ calendar[j] = ZoneComponent(given[l].timeZones[id])
        BY <3>3 DEF Emitted
      <4>2. j \in DOMAIN calendar' /\ l \in DOMAIN given' /\ calendar'[j] = calendar[j]
            /\ given'[l] = given[l]
        BY <1>5, <1>6, <1>7
      <4>3. QED
        BY <4>1, <4>2 DEF Emitted
    <3>4. QED
      BY <1>2, <3>1, <3>2, <3>3
  <2>3. QED
    BY <1>5, <1>7, <2>1, <2>2
<1>13. Exporting'
  BY <1>8, <1>9, <1>10, <1>11, <1>12 DEF Exporting
<1>14. QED
  BY <1>1, <1>13 DEF BridgeInv, Finished, Importing

LEMMA BridgeAppendGroup ==
  ASSUME BridgeInv, AppendGroup
  PROVE  BridgeInv'
<1>1. /\ phase = "exporting" /\ pending # <<>> /\ Head(pending).kind = "Group"
      /\ pending' = Head(pending).entries \o Tail(pending)
      /\ phase' = phase /\ zones' = zones /\ calendar' = calendar /\ objects' = objects /\ given' = given
  BY DEF AppendGroup
<1>2. IsList(pending) /\ \A i \in DOMAIN pending : Exportable(pending[i])
  BY <1>1 DEF BridgeInv, Exporting
<1>3. IsList(Tail(pending)) /\ Exportable(Head(pending))
      /\ \A i \in DOMAIN Tail(pending) : Exportable(Tail(pending)[i])
  BY <1>1, <1>2, WithoutFirst
<1>4. IsList(Head(pending).entries)
      /\ \A i \in DOMAIN Head(pending).entries : Exportable(Head(pending).entries[i])
  BY <1>1, <1>3, ItemShape
<1>5. IsList(pending') /\ \A i \in DOMAIN pending' : Exportable(pending'[i])
  BY <1>1, <1>3, <1>4, Joined
<1>6. Exporting'
  BY <1>1, <1>5 DEF BridgeInv, Exporting, CalendarShaped, Built, Converted, ZonesOfGiven, Emitted
<1>7. QED
  BY <1>1, <1>6 DEF BridgeInv, Finished, Importing

LEMMA BridgeEmitZone ==
  ASSUME BridgeInv, EmitZone
  PROVE  BridgeInv'
<1>1. PICK id \in DOMAIN zones :
        IF ZoneExports(zones[id])
        THEN /\ calendar' = <<ZoneComponent(zones[id])>> \o calendar
             /\ zones' = [other \in DOMAIN zones \ {id} |-> zones[other]]
             /\ UNCHANGED <<phase, pending, objects, given, round>>
        ELSE Fail
  BY DEF EmitZone
<1>2. phase = "exporting" /\ pending = <<>>
  BY DEF EmitZone
<1>3. CASE ~ZoneExports(zones[id])
  BY <1>1, <1>3, BridgeFail
<1>4. CASE ZoneExports(zones[id])
  <2> DEFINE comp == ZoneComponent(zones[id])
             m == Len(calendar)
  <2>1. /\ calendar' = <<comp>> \o calendar
        /\ zones' = [other \in DOMAIN zones \ {id} |-> zones[other]]
        /\ phase' = phase /\ pending' = pending /\ objects' = objects /\ given' = given
    BY <1>1, <1>4
  <2>2. /\ CalendarShaped /\ Built /\ ZonesOfGiven
        /\ \A k \in DOMAIN given : \A i \in DOMAIN given[k].timeZones :
             i \in DOMAIN zones \/ Emitted(i)
    BY <1>2 DEF BridgeInv, Exporting
  <2>3. PICK k \in DOMAIN given : id \in DOMAIN given[k].timeZones
                                  /\ zones[id] = given[k].timeZones[id]
    BY <2>2 DEF ZonesOfGiven
  <2>4. IsTimeZone(zones[id])
    BY <2>2, <2>3 DEF Built, IsReturned, IsCalendarObject
  <2>5. IsZoneComponent(comp) /\ IsZone(comp) /\ ~IsConverted(comp)
    BY <2>4, ZoneComponentShape
  <2> HIDE DEF comp
  <2>6. /\ IsList(calendar') /\ DOMAIN calendar' = 1 .. 1 + m /\ calendar'[1] = comp
        /\ m \in Nat /\ DOMAIN calendar = 1 .. m
        /\ \A i \in 1 .. m : calendar'[1 + i] = calendar[i]
    <3>1. IsList(<<comp>>) /\ Len(<<comp>>) = 1 /\ <<comp>>[1] = comp /\ IsList(calendar)
      BY <2>2 DEF IsList, ToSet, CalendarShaped
    <3>2. 1 \in 1 .. 1
      OBVIOUS
    <3>3. QED
      BY <2>1, <3>1, <3>2, Joined, ListFacts
  <2> HIDE DEF m
  <2>7. /\ \A j \in 1 .. 1 + m : j = 1 \/ (j - 1 \in 1 .. m /\ j = 1 + (j - 1))
        /\ \A j \in 1 .. m : 1 + j \in 1 .. 1 + m /\ 1 \in 1 .. 1 + m
        /\ 1 \in 1 .. 1 + m
    BY <2>6
  <2>8. \A j \in DOMAIN calendar' : j = 1 \/ (j - 1 \in DOMAIN calendar /\ calendar'[j] = calendar[j - 1])
    BY <2>6, <2>7
  <2>9. CalendarShaped'
    BY <2>2, <2>5, <2>6, <2>8 DEF CalendarShaped, Shaped
  <2>10. Converted' = Converted
    <3>1. ConvertedOf(<<comp>> \o calendar) = ConvertedOf(calendar)
      BY <2>2, <2>5, ConvertedWithFirst DEF CalendarShaped
    <3>2. Converted = ConvertedOf(calendar) /\ Converted' = ConvertedOf(calendar')
      BY DEF Converted, ConvertedOf
    <3>3. QED
      BY <2>1, <3>1, <3>2
  <2>11. Built'
    <3>1. \A j \in DOMAIN calendar' : IsZone(calendar'[j]) =>
            \E l \in DOMAIN given : \E i \in DOMAIN given[l].timeZones :
              calendar'[j] = ZoneComponent(given[l].timeZones[i])
      <4> SUFFICES ASSUME NEW j \in DOMAIN calendar', IsZone(calendar'[j])
                   PROVE  \E l \in DOMAIN given : \E i \in DOMAIN given[l].timeZones :
                            calendar'[j] = ZoneComponent(given[l].timeZones[i])
        OBVIOUS
      <4>1. CASE j = 1
        BY <2>3, <2>6, <4>1 DEF comp
      <4>2. CASE j # 1
        BY <2>2, <2>8, <4>2 DEF Built
      <4>3. QED
        BY <4>1, <4>2
    <3>2. QED
      BY <2>1, <2>2, <2>10, <3>1 DEF Built
  <2>12. ZonesOfGiven'
    BY <2>1, <2>2 DEF ZonesOfGiven, IsMap
  <2>13. ASSUME NEW l \in DOMAIN given', NEW i \in DOMAIN given'[l].timeZones
         PROVE  i \in DOMAIN zones' \/ Emitted(i)'
    <3>1. CASE i = id
      <4>1. calendar'[1] = ZoneComponent(given'[k].timeZones[id]) /\ 1 \in DOMAIN calendar'
            /\ k \in DOMAIN given' /\ id \in DOMAIN given'[k].timeZones
        BY <2>1, <2>3, <2>6, <2>7 DEF comp
      <4>2. QED
        BY <3>1, <4>1 DEF Emitted
    <3>2. CASE i # id /\ i \in DOMAIN zones
      BY <2>1, <3>2
    <3>3. CASE Emitted(i)
      <4>1. PICK j \in DOMAIN calendar, q \in DOMAIN given :
              i \in DOMAIN given[q].timeZones /\ calendar[j] = ZoneComponent(given[q].timeZones[i])
        BY <3>3 DEF Emitted
      <4>2. 1 + j \in DOMAIN calendar' /\ calendar'[1 + j] = calendar[j]
        BY <2>6, <2>7
      <4>3. q \in DOMAIN given' /\ given'[q] = given[q]
        BY <2>1
      <4>4. QED
        BY <4>1, <4>2, <4>3 DEF Emitted
    <3>4. QED
      BY <2>1, <2>2, <2>13, <3>1, <3>2, <3>3
  <2>14. IsList(pending') /\ \A i \in DOMAIN pending' : Exportable(pending'[i])
    BY <1>2, <2>1 DEF BridgeInv, Exporting
  <2>15. Exporting'
    BY <2>9, <2>11, <2>12, <2>13, <2>14 DEF Exporting
  <2>16. QED
    BY <1>2, <2>1, <2>15 DEF BridgeInv, Finished, Importing
<1>5. QED
  BY <1>3, <1>4

LEMMA BridgeFinish ==
  ASSUME BridgeInv, Finish
  PROVE  BridgeInv'
<1>1. CASE Fail
  BY <1>1, BridgeFail
<1>2. CASE ~Fail
  <2>1. /\ phase = "exporting" /\ zones = <<>> /\ phase' = "calendar" /\ pending' = pending
        /\ zones' = zones /\ calendar' = calendar /\ objects' = objects /\ given' = given /\ round' = round
    BY <1>2 DEF Finish, Empty
  <2>2. /\ CalendarShaped /\ Built
        /\ \A k \in DOMAIN given : \A id \in DOMAIN given[k].timeZones :
             id \in DOMAIN zones \/ Emitted(id)
    BY <2>1 DEF BridgeInv, Exporting
  <2>3. \A k \in DOMAIN given : \A id \in DOMAIN given[k].timeZones : Emitted(id)
    BY <2>1, <2>2
  <2>4. Finished'
    BY <2>1, <2>2, <2>3 DEF Finished, Ours, CalendarShaped, Built, Converted, Emitted
  <2>5. QED
    BY <2>1, <2>4 DEF BridgeInv, Exporting, Importing
<1>3. QED
  BY <1>1, <1>2
(***************************************************************************)
(* The steps of FromICal.                                                  *)
(***************************************************************************)
LEMMA BridgeReceive ==
  ASSUME BridgeInv, NEW cal \in Calendars, Receive(cal)
  PROVE  BridgeInv'
<1>1. /\ phase = "none" /\ phase' = "calendar" /\ calendar' = cal /\ given' = given /\ round' = round
      /\ objects' = objects
  BY DEF Receive
<1>2. given = Absent /\ round = 0 /\ objects = <<>>
  BY <1>1 DEF BridgeInv, Finished, Importing
<1>3. IsList(cal) /\ \A j \in DOMAIN cal : Shaped(cal[j])
  <2>1. /\ IsList(cal)
        /\ \A i \in DOMAIN cal :
             /\ IsConverted(cal[i]) => IsComponent(cal[i])
             /\ IsZone(cal[i]) => IsZoneComponent(cal[i])
    BY ICalendarAssumption, Zenon
  <2>2. QED
    BY <2>1 DEF Shaped
<1>4. CalendarShaped'
  BY <1>1, <1>3 DEF CalendarShaped
<1>5. QED
  BY <1>1, <1>2, <1>4 DEF BridgeInv, Exporting, Finished, Ours, Importing

LEMMA BridgeFromICal ==
  ASSUME BridgeInv, FromICal
  PROVE  BridgeInv'
<1>1. /\ phase = "calendar" /\ phase' = "collecting" /\ pending' = calendar /\ zones' = <<>>
      /\ calendar' = calendar /\ objects' = objects /\ given' = given /\ round' = round
  BY DEF FromICal, Empty
<1>2. CalendarShaped /\ objects = <<>>
  BY <1>1 DEF BridgeInv, Finished, Importing
<1>3. Len(calendar) \in Nat
  BY <1>2, ListFacts DEF CalendarShaped
<1>4. Done' = 0
  BY <1>1, <1>3 DEF Done
<1>5. Remaining'
  BY <1>1, <1>2, <1>3, <1>4, ListFacts DEF Remaining, CalendarShaped
<1>6. Gathered(Done)'
  <2>1. 1 .. 0 = {}
    OBVIOUS
  <2>2. QED
    BY <1>1, <1>4, <2>1 DEF Gathered, IsMap
<1>7. Finished'
  BY <1>1 DEF BridgeInv, Finished, Ours, CalendarShaped, Built, Converted, Emitted
<1>8. QED
  BY <1>1, <1>2, <1>5, <1>6, <1>7 DEF BridgeInv, Exporting, Importing

LEMMA NextChild ==
  ASSUME CalendarShaped, Remaining, pending # <<>>,
         calendar' = calendar, pending' = Tail(pending)
  PROVE  /\ Remaining' /\ Done \in Nat /\ Done' = Done + 1 /\ Done + 1 \in DOMAIN calendar
         /\ Head(pending) = calendar[Done + 1]
         /\ \A j \in 1 .. Done + 1 : j \in 1 .. Done \/ j = Done + 1
         /\ 1 .. Done \subseteq 1 .. Done + 1 /\ Done + 1 \in 1 .. Done + 1
<1> DEFINE m == Len(calendar)
           n == Len(pending)
<1>1. m \in Nat /\ DOMAIN calendar = 1 .. m
  BY ListFacts DEF CalendarShaped
<1>2. IsList(pending) /\ n <= m /\ \A i \in DOMAIN pending : pending[i] = calendar[(m - n) + i]
  BY DEF Remaining, Done
<1>3. /\ IsList(pending') /\ Len(pending') = n - 1 /\ n \in Nat \ {0}
      /\ DOMAIN pending' = 1 .. n - 1 /\ Head(pending) = pending[1] /\ 1 \in DOMAIN pending
      /\ \A i \in 1 .. n - 1 : pending'[i] = pending[i + 1] /\ i + 1 \in DOMAIN pending
  BY <1>2, WithoutFirst
<1>4. Done = m - n /\ Done' = m - (n - 1)
  BY <1>3 DEF Done
<1>5. Len(calendar') = m
  OBVIOUS
<1> HIDE DEF m, n
<1>6. Done \in Nat /\ Done' = Done + 1 /\ Done + 1 \in 1 .. m
  BY <1>1, <1>2, <1>3, <1>4
<1>7. Head(pending) = calendar[Done + 1]
  BY <1>2, <1>3, <1>4
<1>8. \A i \in DOMAIN pending' : pending'[i] = calendar'[Done' + i]
  <2> SUFFICES ASSUME NEW i \in 1 .. n - 1 PROVE pending'[i] = calendar'[Done' + i]
    BY <1>3
  <2>1. pending'[i] = calendar[(m - n) + (i + 1)]
    BY <1>2, <1>3
  <2>2. (m - n) + (i + 1) = Done' + i
    BY <1>1, <1>3, <1>4
  <2>3. QED
    BY <2>1, <2>2
<1>9. Remaining'
  BY <1>1, <1>2, <1>3, <1>5, <1>8 DEF Remaining
<1>10. /\ \A j \in 1 .. Done + 1 : j \in 1 .. Done \/ j = Done + 1
       /\ 1 .. Done \subseteq 1 .. Done + 1 /\ Done + 1 \in 1 .. Done + 1
  BY <1>6
<1>11. QED
  BY <1>1, <1>6, <1>7, <1>9, <1>10

LEMMA BridgeCollectZone ==
  ASSUME BridgeInv, CollectZone
  PROVE  BridgeInv'
<1> DEFINE comp == Head(pending)
           d == Done
<1>1. CASE IsZone(comp) /\ ~ZoneParses(comp)
  BY <1>1, BridgeFail DEF CollectZone
<1>2. CASE ~(IsZone(comp) /\ ~ZoneParses(comp))
  <2>1. /\ phase = "collecting" /\ pending # <<>> /\ pending' = Tail(pending)
        /\ phase' = phase /\ calendar' = calendar /\ objects' = objects /\ given' = given /\ round' = round
        /\ zones' = IF IsZone(comp)
                    THEN Over(Entry(CustomTimeZoneID(comp.tzid), ZoneFrom(comp)), zones) ELSE zones
    BY <1>2 DEF CollectZone
  <2>2. CalendarShaped /\ objects = <<>> /\ Remaining /\ Gathered(d)
    BY <2>1 DEF BridgeInv, Finished, Importing
  <2>3. /\ Remaining' /\ d \in Nat /\ Done' = d + 1 /\ comp = calendar[d + 1]
        /\ \A j \in 1 .. d + 1 : j \in 1 .. d \/ j = d + 1
        /\ 1 .. d \subseteq 1 .. d + 1 /\ d + 1 \in 1 .. d + 1
    BY <2>1, <2>2, NextChild
  <2> HIDE DEF comp, d
  <2>4. Gathered(Done)'
    <3>1. CASE IsZone(comp)
      <4> DEFINE key == CustomTimeZoneID(comp.tzid)
      <4>1. /\ DOMAIN zones' = {key} \cup DOMAIN zones /\ zones'[key] = ZoneFrom(comp)
            /\ \A id \in DOMAIN zones \ {key} : zones'[id] = zones[id]
            /\ IsMap(zones')
        BY <2>1, <3>1 DEF Over, Entry, IsMap
      <4> HIDE DEF key
      <4>2. \A j \in 1 .. d + 1 :
              IsZone(calendar[j]) => CustomTimeZoneID(calendar[j].tzid) \in DOMAIN zones'
        BY <2>2, <2>3, <4>1 DEF Gathered, key
      <4>3. ASSUME NEW id \in DOMAIN zones'
            PROVE  \E j \in 1 .. d + 1 :
                     /\ IsZone(calendar[j]) /\ id = CustomTimeZoneID(calendar[j].tzid)
                     /\ zones'[id] = ZoneFrom(calendar[j])
        <5>1. CASE id = key
          BY <2>3, <3>1, <4>1, <5>1 DEF key
        <5>2. CASE id # key
          <6>1. id \in DOMAIN zones /\ zones'[id] = zones[id]
            BY <4>1, <4>3, <5>2
          <6>2. PICK j \in 1 .. d : /\ IsZone(calendar[j]) /\ id = CustomTimeZoneID(calendar[j].tzid)
                                    /\ zones[id] = ZoneFrom(calendar[j])
            BY <2>2, <6>1 DEF Gathered
          <6>3. QED
            BY <2>3, <6>1, <6>2
        <5>3. QED
          BY <5>1, <5>2
      <4>4. QED
        BY <2>1, <2>3, <4>1, <4>2, <4>3 DEF Gathered
    <3>2. CASE ~IsZone(comp)
      <4>1. zones' = zones
        BY <2>1, <3>2
      <4>2. QED
        BY <2>1, <2>2, <2>3, <3>2, <4>1 DEF Gathered
    <3>3. QED
      BY <3>1, <3>2
  <2>5. Finished'
    BY <2>1 DEF BridgeInv, Finished, Ours, CalendarShaped, Built, Converted, Emitted
  <2>6. QED
    BY <2>1, <2>2, <2>3, <2>4, <2>5 DEF BridgeInv, Exporting, Importing
<1>3. QED
  BY <1>1, <1>2

LEMMA BridgeCollected ==
  ASSUME BridgeInv, Collected
  PROVE  BridgeInv'
<1>1. /\ phase = "collecting" /\ pending = <<>> /\ phase' = "importing" /\ pending' = calendar
      /\ zones' = zones /\ calendar' = calendar /\ objects' = objects /\ given' = given /\ round' = round
  BY DEF Collected
<1>2. CalendarShaped /\ objects = <<>> /\ Gathered(Done)
  BY <1>1 DEF BridgeInv, Finished, Importing
<1>3. Len(calendar) \in Nat
  BY <1>2, ListFacts DEF CalendarShaped
<1>4. Done' = 0 /\ Done = Len(calendar)
  BY <1>1, <1>3 DEF Done
<1>5. Remaining'
  BY <1>1, <1>2, <1>3, <1>4, ListFacts DEF Remaining, CalendarShaped
<1>6. Made(Done)'
  <2>1. 1 .. 0 = {}
    OBVIOUS
  <2>2. ConvertedUpTo(0)' = <<>>
    BY <2>1, SubsequenceEmpty DEF ConvertedUpTo
  <2>3. QED
    BY <1>1, <1>2, <1>4, <2>1, <2>2 DEF Made
<1>7. Gathered(Len(calendar))'
  BY <1>1, <1>2, <1>4 DEF Gathered
<1>8. Finished'
  BY <1>1 DEF BridgeInv, Finished, Ours, CalendarShaped, Built, Converted, Emitted
<1>9. QED
  BY <1>1, <1>5, <1>6, <1>7, <1>8 DEF BridgeInv, Exporting, Importing

LEMMA ConvertedUpToNext ==
  ASSUME CalendarShaped, NEW d \in Nat, d + 1 \in DOMAIN calendar
  PROVE  /\ IsList(ConvertedUpTo(d))
         /\ ConvertedUpTo(d + 1) = IF IsConverted(calendar[d + 1])
                                   THEN Append(ConvertedUpTo(d), calendar[d + 1])
                                   ELSE ConvertedUpTo(d)
<1> DEFINE at == {j \in 1 .. d : IsConverted(calendar[j])}
           to == {j \in 1 .. d + 1 : IsConverted(calendar[j])}
           t == ConvertedUpTo(d)
<1>1. to = IF IsConverted(calendar[d + 1]) THEN at \cup {d + 1} ELSE at
  <2>1. \A j : j \in 1 .. d + 1 <=> j \in 1 .. d \/ j = d + 1
    OBVIOUS
  <2>2. QED
    BY <2>1
<1>2. t = Subsequence(calendar, at) /\ ConvertedUpTo(d + 1) = Subsequence(calendar, to)
  BY DEF ConvertedUpTo
<1>3. at \in SUBSET (1 .. d) /\ \A i \in at : calendar[i] \in {calendar[j] : j \in 1 .. d}
  OBVIOUS
<1> HIDE DEF at, to, t
<1>4. Subsequence(calendar, at \cup {d + 1}) = Append(Subsequence(calendar, at), calendar[d + 1])
  BY <1>3, SubsequenceWithLast
<1>5. IsList(t)
  <2> DEFINE S == {calendar[j] : j \in 1 .. d}
  <2>1. t \in Seq(S)
    BY <1>2, <1>3, SubsequenceIsSequence
  <2>2. Len(t) \in Nat /\ t = [i \in 1 .. Len(t) |-> t[i]]
    BY <2>1
  <2>3. QED
    BY <2>2, ListOf
<1>6. QED
  BY <1>1, <1>2, <1>4, <1>5 DEF t

LEMMA BridgeImportChild ==
  ASSUME BridgeInv, ImportChild
  PROVE  BridgeInv'
<1> DEFINE comp == Head(pending)
           d == Done
           before == ConvertedUpTo(d)
<1>1. CASE IsConverted(comp) /\ ~Imports(comp)
  BY <1>1, BridgeFail DEF ImportChild
<1>2. CASE ~(IsConverted(comp) /\ ~Imports(comp))
  <2>1. /\ phase = "importing" /\ pending # <<>> /\ pending' = Tail(pending)
        /\ phase' = phase /\ calendar' = calendar /\ zones' = zones /\ given' = given /\ round' = round
        /\ objects' = IF IsConverted(comp) THEN Append(objects, Imported(comp, zones)) ELSE objects
    BY <1>2 DEF ImportChild
  <2>2. CalendarShaped /\ Remaining /\ Gathered(Len(calendar)) /\ Made(d)
    BY <2>1 DEF BridgeInv, Finished, Importing
  <2>3. /\ Remaining' /\ d \in Nat /\ Done' = d + 1 /\ d + 1 \in DOMAIN calendar
        /\ comp = calendar[d + 1]
        /\ \A j \in 1 .. d + 1 : j \in 1 .. d \/ j = d + 1
    BY <2>1, <2>2, NextChild
  <2> HIDE DEF comp, d
  <2>4. /\ IsList(before)
        /\ ConvertedUpTo(d + 1) = IF IsConverted(comp) THEN Append(before, comp) ELSE before
    BY <2>2, <2>3, ConvertedUpToNext
  <2>5. objects = [i \in DOMAIN before |-> Imported(before[i], zones)]
    BY <2>2 DEF Made
  <2>6. ConvertedUpTo(Done)' = ConvertedUpTo(d + 1)
    BY <2>1, <2>3 DEF ConvertedUpTo
  <2>7. Made(Done)'
    <3> HIDE DEF before
    <3> DEFINE after == ConvertedUpTo(d + 1)
    <3>1. objects' = [i \in DOMAIN after |-> Imported(after[i], zones)]
      <4>1. CASE IsConverted(comp)
        <5> DEFINE n == Len(before)
        <5>1. /\ n \in Nat /\ DOMAIN before = 1 .. n
              /\ DOMAIN after = 1 .. n + 1 /\ after[n + 1] = comp
              /\ \A i \in 1 .. n : after[i] = before[i]
          BY <2>4, <4>1, ListFacts, Appended
        <5> HIDE DEF n, after
        <5>2. objects = [i \in 1 .. n |-> Imported(before[i], zones)]
          BY <2>5, <5>1
        <5>3. Append([i \in 1 .. n |-> Imported(before[i], zones)], Imported(comp, zones))
                = [i \in 1 .. n + 1 |-> IF i = n + 1 THEN Imported(comp, zones)
                                        ELSE Imported(before[i], zones)]
          BY <5>1
        <5>4. \A i \in 1 .. n + 1 : i \in 1 .. n \/ i = n + 1
          BY <5>1
        <5>5. QED
          BY <2>1, <4>1, <5>1, <5>2, <5>3, <5>4
      <4>2. CASE ~IsConverted(comp)
        <5>1. after = before /\ objects' = objects
          BY <2>1, <2>4, <4>2
        <5> HIDE DEF after
        <5>2. QED
          BY <2>5, <5>1
      <4>3. QED
        BY <4>1, <4>2
    <3>2. \A j \in 1 .. d + 1 : IsConverted(calendar[j]) => Imports(calendar[j])
      BY <1>2, <2>2, <2>3 DEF Made
    <3>3. QED
      BY <2>1, <2>3, <2>6, <3>1, <3>2 DEF Made
  <2>8. Gathered(Len(calendar))'
    BY <2>1, <2>2 DEF Gathered
  <2>9. Finished'
    BY <2>1 DEF BridgeInv, Finished, Ours, CalendarShaped, Built, Converted, Emitted
  <2>10. QED
    BY <2>1, <2>3, <2>7, <2>8, <2>9 DEF BridgeInv, Exporting, Importing
<1>3. QED
  BY <1>1, <1>2

LEMMA BridgeReturn ==
  ASSUME BridgeInv, Return
  PROVE  BridgeInv'
<1>1. /\ phase = "importing" /\ pending = <<>> /\ phase' = "objects"
      /\ pending' = pending /\ zones' = zones /\ calendar' = calendar /\ objects' = objects
      /\ given' = given /\ round' = round
  BY DEF Return
<1>2. CalendarShaped /\ Gathered(Len(calendar)) /\ Made(Done)
  BY <1>1 DEF BridgeInv, Finished, Importing
<1>3. Done = Len(calendar)
  BY <1>1, <1>2, ListFacts DEF Done, CalendarShaped
<1>4. Gathered(Len(calendar))' /\ Made(Len(calendar))'
  <2>1. Len(calendar)' = Done
    BY <1>1, <1>3
  <2>2. Made(Len(calendar))
    BY <1>2, <1>3
  <2>3. QED
    BY <1>1, <1>2, <2>1, <2>2 DEF Gathered, Made, ConvertedUpTo
<1>5. Finished'
  BY <1>1 DEF BridgeInv, Finished, Ours, CalendarShaped, Built, Converted, Emitted
<1>6. QED
  BY <1>1, <1>4, <1>5 DEF BridgeInv, Exporting, Importing

-----------------------------------------------------------------------------
(***************************************************************************)
(* In every state, the calendar under construction is the components of    *)
(* the objects given so far and the definitions of their zones, each of    *)
(* which is still to come or there; a calendar that was returned has them  *)
(* all; and what an import has collected and made is the definitions and   *)
(* the conversions of the children it has passed (appendObject, ToICal,    *)
(* collectTimeZones, FromICal).                                            *)
(***************************************************************************)
THEOREM BridgeCorrect ==
  Spec => []BridgeInv
<1>1. Init => BridgeInv
  BY BridgeInit
<1>2. BridgeInv /\ [Next]_vars => BridgeInv'
  <2> SUFFICES ASSUME BridgeInv, [Next]_vars PROVE BridgeInv'
    OBVIOUS
  <2>1. ASSUME NEW objs \in Arguments, ToICal(objs) PROVE BridgeInv'
    <3>1. objs \in Seq(Items)
      BY ICalendarAssumption, Zenon
    <3>2. IsList(objs) /\ \A i \in DOMAIN objs : Exportable(objs[i])
      BY <3>1 DEF IsList, ToSet, Exportable
    <3>3. QED
      BY <2>1, <3>2, BridgeToICal
  <2>2. ASSUME phase = "objects", ToICal(objects) PROVE BridgeInv'
    <3>1. IsList(objects) /\ \A i \in DOMAIN objects : Exportable(objects[i])
      BY <2>2, ReturnedObjects DEF Exportable
    <3>2. QED
      BY <2>2, <3>1, BridgeToICal
  <2>3. ASSUME NEW cal \in Calendars, Receive(cal) PROVE BridgeInv'
    BY <2>3, BridgeReceive
  <2>4. CASE AppendObject
    BY <2>4, BridgeAppendObject
  <2>5. CASE AppendGroup
    BY <2>5, BridgeAppendGroup
  <2>6. CASE RejectObject
    BY <2>6, BridgeFail DEF RejectObject
  <2>7. CASE EmitZone
    BY <2>7, BridgeEmitZone
  <2>8. CASE Finish
    BY <2>8, BridgeFinish
  <2>9. CASE FromICal
    BY <2>9, BridgeFromICal
  <2>10. CASE CollectZone
    BY <2>10, BridgeCollectZone
  <2>11. CASE Collected
    BY <2>11, BridgeCollected
  <2>12. CASE ImportChild
    BY <2>12, BridgeImportChild
  <2>13. CASE Return
    BY <2>13, BridgeReturn
  <2>14. CASE UNCHANGED vars
    BY <2>14 DEF vars, BridgeInv, Exporting, Finished, Ours, Importing, CalendarShaped, Built, Converted,
      ZonesOfGiven, Emitted, Remaining, Done, Gathered, Made, ConvertedUpTo
  <2>15. QED
    BY <2>1, <2>2, <2>3, <2>4, <2>5, <2>6, <2>7, <2>8, <2>9, <2>10, <2>11, <2>12, <2>13, <2>14
    DEF Next
<1>3. QED
  BY <1>1, <1>2, PTL DEF Spec

-----------------------------------------------------------------------------
(***************************************************************************)
(* What an object says of the component it was made from.                  *)
(***************************************************************************)
LEMMA SplitOfDate ==
  ASSUME NEW prop \in Maybe(DateProps), PropParses(prop)
  PROVE  /\ SplitOf(prop) = NoSplit <=> prop = Absent
         /\ prop # Absent => prop \in DateProps /\ prop.wall \in Int /\ SplitOf(prop) = Split(prop)
         /\ SplitOf(prop).kind = "date" =>
              /\ prop # Absent /\ SplitOf(prop).instant = {}
              /\ SplitOf(prop).local = Midnight(prop.wall)
         /\ SplitOf(prop).kind = "zoned" => SplitOf(prop).zone # Floating
         /\ SplitOf(prop).instant # {} =>
              /\ SplitOf(prop).local \in Int /\ LoadsLocation(SplitOf(prop).zone)
              /\ SplitOf(prop).instant = InstantOf(SplitOf(prop).zone, SplitOf(prop).local)
<1>1. CASE prop = Absent
  BY <1>1 DEF SplitOf, NoSplit
<1>2. CASE prop # Absent
  <2>1. prop \in DateProps /\ prop.wall \in Int /\ prop.tzid \in Seq(Chars)
        /\ prop.date \in BOOLEAN /\ prop.z \in BOOLEAN
    BY <1>2 DEF Maybe, DateProps, PropParses, Parses
  <2>2. SplitOf(prop) = Split(prop)
    BY <1>2 DEF SplitOf
  <2>3. Floating = <<>> /\ LoadsLocation(EtcUTC)
    BY ICalTimeAssumption DEF LoadsLocation
  <2>4. InstantOf(EtcUTC, prop.wall) = {prop.wall}
    <3>1. TzDatabase[EtcUTC] = UTC
      BY ICalTimeAssumption
    <3>2. Place(UTC, prop.wall) = prop.wall
      BY <2>1 DEF Place, UTC, FixedZone, Offset
    <3>3. QED
      BY <2>3, <3>1, <3>2 DEF InstantOf
  <2> DEFINE split == SplitOf(prop)
  <2>5. /\ split.kind \in {"date", "utc", "zoned", "local"}
        /\ split.kind = "date" => split.instant = {} /\ split.local = Midnight(prop.wall)
        /\ split.kind = "zoned" => split.zone # Floating
        /\ split.instant # {} =>
             /\ split.local \in Int /\ LoadsLocation(split.zone)
             /\ split.instant = InstantOf(split.zone, split.local)
    <3> HIDE DEF split
    <3>1. CASE prop.date
      <4>1. split = [local |-> Midnight(prop.wall), zone |-> Floating, kind |-> "date", instant |-> {}]
        BY <2>2, <3>1 DEF Split, split
      <4>2. QED
        BY <4>1
    <3>2. CASE ~prop.date /\ prop.z
      <4>1. split = [local |-> prop.wall, zone |-> EtcUTC, kind |-> "utc", instant |-> {prop.wall}]
        BY <2>2, <3>2 DEF Split, split
      <4>2. QED
        BY <2>1, <2>3, <2>4, <4>1
    <3>3. CASE ~prop.date /\ ~prop.z /\ prop.tzid # <<>>
      <4>1. split = [local |-> prop.wall, zone |-> prop.tzid, kind |-> "zoned",
                     instant |-> InstantOf(prop.tzid, prop.wall)]
        BY <2>2, <3>3 DEF Split, split, InstantOf
      <4>2. InstantOf(prop.tzid, prop.wall) # {} => LoadsLocation(prop.tzid)
        BY DEF InstantOf
      <4>3. QED
        BY <2>1, <2>3, <3>3, <4>1, <4>2
    <3>4. CASE ~prop.date /\ ~prop.z /\ prop.tzid = <<>>
      <4>1. split = [local |-> prop.wall, zone |-> Floating, kind |-> "local", instant |-> {}]
        BY <2>2, <3>4 DEF Split, split
      <4>2. QED
        BY <4>1
    <3>5. QED
      BY <2>1, <3>1, <3>2, <3>3, <3>4
  <2>6. QED
    BY <1>2, <2>1, <2>2, <2>5 DEF NoSplit
<1>3. QED
  BY <1>1, <1>2

LEMMA ZoneLoads ==
  ASSUME NEW zone, LoadsLocation(zone), NEW available
  PROVE  /\ zone # Floating /\ ~IsCustom(zone) /\ AttachedZone(zone, available) = zone
         /\ Attached(zone, available) = Empty
<1>1. zone # Floating
  BY ZoneAssumption DEF LoadsLocation
<1>2. ~IsCustom(zone)
  BY ICalTimeAssumption DEF LoadsLocation
<1>3. QED
  BY <1>1, <1>2 DEF AttachedZone, Attached

LEMMA InstantsOfImported ==
  ASSUME NEW comp, IsComponent(comp), Imports(comp),
         NEW available
  PROVE  LET object == Imported(comp, available)
             start  == SplitOf(comp.start)
             due    == IF comp.name = "VTODO" THEN SplitOf(comp.due) ELSE NoSplit
         IN  /\ start.instant # {} => InstantOf(object.timeZone, object.start) = start.instant
             /\ due.instant # {}
                /\ start.zone \in {due.zone} \cup (IF start = NoSplit THEN {Floating} ELSE {})
                => InstantOf(object.timeZone, object.due) = due.instant
<1> DEFINE object == Imported(comp, available)
<1>0. IsImported(object, comp, available)
  BY ImportedFields
<1> HIDE DEF object
<1>1. /\ HasFields(object)
      /\ object.start = SplitOf(comp.start).local
      /\ object.due = IF comp.name = "VTODO" THEN SplitOf(comp.due).local ELSE Absent
      /\ object.timeZone = AttachedZone(ZoneOfComponent(comp), available)
  BY <1>0 DEF IsImported
<1> DEFINE start == SplitOf(comp.start)
           due == IF comp.name = "VTODO" THEN SplitOf(comp.due) ELSE NoSplit
           zone == ZoneOfComponent(comp)
<1>2. /\ comp.start \in Maybe(DateProps) /\ PropParses(comp.start)
      /\ comp.name = "VTODO" => comp.due \in Maybe(DateProps) /\ PropParses(comp.due)
  BY DEF IsComponent, Imports
<1>3. ASSUME start.instant # {}
      PROVE  InstantOf(object.timeZone, object.start) = start.instant
  <2>1. LoadsLocation(start.zone) /\ start.instant = InstantOf(start.zone, start.local)
    BY <1>2, <1>3, SplitOfDate
  <2> HIDE DEF start
  <2>2. start.zone # Floating /\ AttachedZone(start.zone, available) = start.zone
    BY <2>1, ZoneLoads
  <2>3. zone = start.zone
    BY <2>2 DEF ZoneOfComponent, ZoneOf, start
  <2>4. QED
    BY <1>1, <2>1, <2>2, <2>3 DEF start
<1>4. ASSUME due.instant # {},
             start.zone \in {due.zone} \cup (IF start = NoSplit THEN {Floating} ELSE {})
      PROVE  InstantOf(object.timeZone, object.due) = due.instant
  <2>1. comp.name = "VTODO" /\ due = SplitOf(comp.due)
    BY <1>4 DEF NoSplit
  <2>2. LoadsLocation(due.zone) /\ due.instant = InstantOf(due.zone, due.local)
    BY <1>2, <1>4, <2>1, SplitOfDate
  <2>3. AttachedZone(due.zone, available) = due.zone
    BY <2>2, ZoneLoads
  <2>4. zone = due.zone
    BY <1>4, <2>1 DEF ZoneOfComponent, ZoneOf
  <2>5. object.due = due.local /\ object.timeZone = AttachedZone(zone, available)
    BY <1>1, <2>1
  <2> HIDE DEF due, zone
  <2>6. QED
    BY <2>2, <2>3, <2>4, <2>5
<1>5. QED
  BY <1>3, <1>4 DEF object

(***************************************************************************)
(* An imported object stands for the instants of its component: applyZone, *)
(* eventFromVEvent, taskFromVTodo and attachTimeZones, together, for every *)
(* calendar and every database of zones.                                   *)
(***************************************************************************)
THEOREM InstantsKept ==
  Spec => []SameInstants
<1>1. BridgeInv => SameInstants
  <2> SUFFICES ASSUME BridgeInv, phase = "objects", NEW i \in DOMAIN Converted
               PROVE  LET object == objects[i]
                          start  == SplitOf(Converted[i].start)
                          due    == IF Converted[i].name = "VTODO" THEN SplitOf(Converted[i].due)
                                    ELSE NoSplit
                      IN  /\ start.instant # {} => InstantOf(object.timeZone, object.start) = start.instant
                          /\ due.instant # {}
                             /\ start.zone \in {due.zone} \cup (IF start = NoSplit THEN {Floating} ELSE {})
                             => InstantOf(object.timeZone, object.due) = due.instant
    BY DEF SameInstants
  <2>1. /\ objects[i] = Imported(Converted[i], zones)
        /\ IsComponent(Converted[i]) /\ Imports(Converted[i])
    BY ReturnedObjects
  <2>2. QED
    BY <2>1, InstantsOfImported
<1>2. QED
  BY <1>1, BridgeCorrect, PTL
LEMMA DaysOf ==
  ASSUME NEW s \in Int, NEW t \in Int
  PROVE  Midnight(s) + (Clamped(Midnight(t) - Midnight(s)) \div Day) * Day = Latest(Midnight(s), Midnight(t))
<1>1. Day \in Nat \ {0}
  BY ICalTimeAssumption
<1>2. ASSUME NEW w \in Int PROVE Midnight(w) = Day * (w \div Day) /\ w \div Day \in Int
  <2>1. \A d \in Nat \ {0} : w = (d * (w \div d)) + (w % d) /\ w \div d \in Int /\ w % d \in Int
    OBVIOUS
  <2>2. w = (Day * (w \div Day)) + (w % Day) /\ w \div Day \in Int /\ w % Day \in Int
    BY <1>1, <2>1
  <2>3. Day * (w \div Day) \in Int
    BY <1>1, <2>2
  <2>4. QED
    BY <2>2, <2>3 DEF Midnight
<1> DEFINE a == s \div Day
           b == t \div Day
<1>3. a \in Int /\ b \in Int /\ Midnight(s) = Day * a /\ Midnight(t) = Day * b
  BY <1>2
<1> HIDE DEF a, b
<1>4. Midnight(t) - Midnight(s) = Day * (b - a)
  BY <1>1, <1>3
<1>5. CASE b < a
  <2>1. Day * (b - a) < 0
    <3>1. \A d \in Nat \ {0}, c \in Int : c < 0 => d * c < 0
      <4> SUFFICES ASSUME NEW d \in Nat \ {0}, NEW c \in Int, c < 0 PROVE d * c < 0
        OBVIOUS
      <4>1. PICK e \in Nat : c = -1 - e
        <5>1. -1 - c \in Nat /\ c = -1 - (-1 - c)
          OBVIOUS
        <5>2. QED
          BY <5>1
      <4>2. d * c = -d - d * e /\ d * e \in Nat
        BY <4>1
      <4>3. QED
        BY <4>2
    <3>2. b - a \in Int /\ b - a < 0
      BY <1>3, <1>5
    <3>3. QED
      BY <1>1, <3>1, <3>2
  <2>2. Midnight(s) \in Int /\ Midnight(t) \in Int
    BY <1>1, <1>3
  <2>3. Clamped(Midnight(t) - Midnight(s)) = 0
    BY <1>4, <2>1 DEF Clamped
  <2>4. 0 \div Day = 0 /\ 0 * Day = 0
    BY <1>1
  <2>5. ~(Midnight(s) < Midnight(t))
    BY <1>4, <2>1, <2>2
  <2>6. QED
    BY <2>2, <2>3, <2>4, <2>5 DEF Latest
<1>6. CASE a <= b
  <2> DEFINE n == b - a
  <2>1. n \in Nat /\ Midnight(t) - Midnight(s) = Day * n /\ Day * n \in Nat
    BY <1>1, <1>3, <1>4, <1>6
  <2> HIDE DEF n
  <2>2. Clamped(Midnight(t) - Midnight(s)) = Day * n
    BY <2>1 DEF Clamped
  <2>3. (Day * n) \div Day = n
    <3>1. \A m \in Nat, c \in Nat \ {0} :
            m \div c \in Nat /\ m % c \in 0 .. c - 1 /\ m = (c * (m \div c)) + (m % c)
      OBVIOUS
    <3>2. PICK q \in Nat, r \in 0 .. Day - 1 : (Day * n) \div Day = q /\ Day * n = (Day * q) + r
      BY <1>1, <2>1, <3>1
    <3>3. \A x, y \in Nat : x < y => Day * x + Day <= Day * y
      <4> SUFFICES ASSUME NEW x \in Nat, NEW y \in Nat, x < y PROVE Day * x + Day <= Day * y
        OBVIOUS
      <4>1. PICK z \in Nat : y = x + 1 + z
        <5>1. y - x - 1 \in Nat /\ y = x + 1 + (y - x - 1)
          OBVIOUS
        <5>2. QED
          BY <5>1
      <4>2. Day * y = Day * x + Day + Day * z /\ Day * z \in Nat /\ Day * x \in Nat
        BY <1>1, <4>1
      <4>3. QED
        BY <1>1, <4>2
    <3>4. ~(n < q) /\ ~(q < n)
      BY <1>1, <2>1, <3>2, <3>3
    <3>5. QED
      BY <2>1, <3>2, <3>4
  <2>4. n * Day = Day * n
    BY <1>1, <2>1
  <2>5. Midnight(s) \in Int /\ Midnight(t) \in Int
    BY <1>1, <1>3
  <2>6. Midnight(s) + Day * n = Midnight(t) /\ Midnight(s) <= Midnight(t)
    BY <2>1, <2>5
  <2>7. QED
    BY <2>2, <2>3, <2>4, <2>5, <2>6 DEF Latest
<1>7. QED
  BY <1>3, <1>5, <1>6

LEMMA EndOfImported ==
  ASSUME NEW comp, IsComponent(comp), Imports(comp), IsConverted(comp), NEW available,
         comp.name = "VEVENT", comp.duration = Absent,
         SplitOf(comp.start) # NoSplit, SplitOf(comp.end) # NoSplit
  PROVE  LET object == Imported(comp, available)
             start  == SplitOf(comp.start)
             end    == SplitOf(comp.end)
         IN  /\ start.kind = "date" /\ end.kind = "date" =>
                  object.start + object.duration.days * Day = Latest(start.local, end.local)
             /\ \A s \in start.instant, t \in end.instant :
                  s + object.duration.seconds = Latest(s, t)
<1> DEFINE object == Imported(comp, available)
           start == SplitOf(comp.start)
           end == SplitOf(comp.end)
<1>0. IsImported(object, comp, available)
  BY ImportedFields
<1> HIDE DEF object
<1>1. comp.start # Absent /\ comp.end # Absent
  BY DEF SplitOf
<1>2. /\ comp.start \in Maybe(DateProps) /\ PropParses(comp.start)
      /\ comp.end \in Maybe(DateProps) /\ PropParses(comp.end)
  BY <1>1 DEF IsComponent, Imports
<1>3. /\ comp.start.wall \in Int /\ start = Split(comp.start)
      /\ comp.end.wall \in Int /\ end = Split(comp.end)
      /\ start.kind = "date" => start.instant = {} /\ start.local = Midnight(comp.start.wall)
      /\ end.kind = "date" => end.instant = {} /\ end.local = Midnight(comp.end.wall)
  BY <1>1, <1>2, SplitOfDate
<1>4. start.instant \in SUBSET Int /\ end.instant \in SUBSET Int
  BY <1>2, SplitShape
<1>5. /\ object.start = start.local
      /\ object.duration = DeriveDuration(start, comp.end, Absent)
  BY <1>0, <1>1, <1>3 DEF IsImported, EventDuration
<1>6. ASSUME NEW s \in start.instant PROVE start.instant = {s}
  <2>1. start.instant = InstantOf(start.zone, start.local)
    BY <1>2, <1>6, SplitOfDate
  <2> HIDE DEF start
  <2>2. QED
    BY <1>6, <2>1 DEF InstantOf
<1>7. ASSUME NEW t \in end.instant PROVE end.instant = {t}
  <2>1. end.instant = InstantOf(end.zone, end.local)
    BY <1>2, <1>7, SplitOfDate
  <2> HIDE DEF end
  <2>2. QED
    BY <1>7, <2>1 DEF InstantOf
<1> HIDE DEF start, end
<1>8. object.duration = IF start.kind = "date" \/ end.kind = "date"
                        THEN Duration(Clamped(end.local - start.local) \div Day, 0)
                        ELSE Duration(0, Clamped(Elapsed(start, end)))
  BY <1>1, <1>3, <1>5 DEF DeriveDuration
<1>9. ASSUME start.kind = "date", end.kind = "date"
      PROVE  object.start + object.duration.days * Day = Latest(start.local, end.local)
  <2>1. object.duration.days = Clamped(end.local - start.local) \div Day
    BY <1>8, <1>9 DEF Duration
  <2>2. QED
    BY <1>3, <1>5, <1>9, <2>1, DaysOf
<1>10. ASSUME NEW s \in start.instant, NEW t \in end.instant
       PROVE  s + object.duration.seconds = Latest(s, t)
  <2>1. start.instant = {s} /\ end.instant = {t} /\ s \in Int /\ t \in Int
    BY <1>4, <1>6, <1>7
  <2>2. start.kind # "date" /\ end.kind # "date"
    BY <1>3, <2>1
  <2>3. Elapsed(start, end) = t - s
    BY <2>1 DEF Elapsed
  <2>4. object.duration.seconds = Clamped(t - s)
    BY <1>8, <2>2, <2>3 DEF Duration
  <2>5. QED
    BY <2>1, <2>4 DEF Clamped, Latest
<1>11. QED
  BY <1>9, <1>10 DEF object, start, end

(***************************************************************************)
(* An imported event ends where its component does, for every calendar:    *)
(* deriveDuration takes what lies between the two instants, or between the *)
(* two dates, and never less than nothing.                                 *)
(***************************************************************************)
THEOREM EndsKept ==
  Spec => []EndsAtEnd
<1>1. BridgeInv => EndsAtEnd
  <2> SUFFICES ASSUME BridgeInv, phase = "objects", NEW i \in DOMAIN Converted,
                      Converted[i].name = "VEVENT", Converted[i].duration = Absent,
                      SplitOf(Converted[i].start) # NoSplit, SplitOf(Converted[i].end) # NoSplit
               PROVE  LET object == objects[i]
                          start  == SplitOf(Converted[i].start)
                          end    == SplitOf(Converted[i].end)
                      IN  /\ start.kind = "date" /\ end.kind = "date" =>
                               object.start + object.duration.days * Day = Latest(start.local, end.local)
                          /\ \A s \in start.instant, t \in end.instant :
                               s + object.duration.seconds = Latest(s, t)
    BY DEF EndsAtEnd
  <2>1. /\ objects[i] = Imported(Converted[i], zones)
        /\ IsComponent(Converted[i]) /\ Imports(Converted[i]) /\ IsConverted(Converted[i])
    BY ReturnedObjects
  <2>2. QED
    BY <2>1, EndOfImported
<1>2. QED
  BY <1>1, BridgeCorrect, PTL

(***************************************************************************)
(* The property that names the zone of a component.                        *)
(***************************************************************************)
Named(comp) ==
  IF comp.name = "VTODO" /\ SplitOf(comp.start).zone = Floating
  THEN SplitOf(comp.due) ELSE SplitOf(comp.start)

(***************************************************************************)
(* The zone of an imported object is the one its TZID named, whichever     *)
(* definitions the calendar holds and in whatever order (attachTimeZones   *)
(* after collectTimeZones).                                                *)
(***************************************************************************)
THEOREM ZonesResolved ==
  Spec => []ZoneResolved
<1>1. BridgeInv => ZoneResolved
  <2> SUFFICES ASSUME BridgeInv, phase = "objects", NEW i \in DOMAIN Converted,
                      Named(Converted[i]).kind = "zoned"
               PROVE  LET object      == objects[i]
                          tzid        == Named(Converted[i]).zone
                          definitions == {z \in ZoneComponents : z.tzid = tzid}
                          alike       == {z \in ZoneComponents :
                                            CustomTimeZoneID(z.tzid) = CustomTimeZoneID(tzid)}
                      IN  /\ LoadsLocation(tzid) => object.timeZone = tzid /\ object.timeZones = Empty
                          /\ definitions # {} /\ ~LoadsLocation(tzid) =>
                               /\ object.timeZone = CustomTimeZoneID(tzid)
                               /\ object.timeZone \in DOMAIN object.timeZones
                               /\ object.timeZones[object.timeZone] \in {ZoneFrom(z) : z \in alike}
                          /\ alike = {} => object.timeZone = tzid /\ object.timeZones = Empty
    BY DEF ZoneResolved, Named
  <2> DEFINE comp == Converted[i]
             object == objects[i]
             tzid == Named(comp).zone
             definitions == {z \in ZoneComponents : z.tzid = tzid}
             alike == {z \in ZoneComponents : CustomTimeZoneID(z.tzid) = CustomTimeZoneID(tzid)}
             key == CustomTimeZoneID(tzid)
  <2>1. object = Imported(comp, zones) /\ IsComponent(comp) /\ Imports(comp)
    BY ReturnedObjects
  <2>2. IsImported(object, comp, zones)
    BY <2>1, ImportedFields
  <2> HIDE DEF comp, object
  <2>3. tzid # Floating
    <3>1. Imports(comp) /\ IsComponent(comp) /\ (comp.name = "VTODO" => PropParses(comp.due))
      BY <2>1 DEF Imports
    <3>2. PropParses(comp.start) /\ comp.start \in Maybe(DateProps) /\ comp.due \in Maybe(DateProps)
      BY <3>1 DEF IsComponent, Imports
    <3>3. Named(comp).kind = "zoned"
      BY DEF comp
    <3>4. CASE comp.name = "VTODO" /\ SplitOf(comp.start).zone = Floating
      <4>1. Named(comp) = SplitOf(comp.due) /\ PropParses(comp.due)
        BY <3>1, <3>4 DEF Named
      <4>2. QED
        BY <3>2, <3>3, <4>1, SplitOfDate
    <3>5. CASE ~(comp.name = "VTODO" /\ SplitOf(comp.start).zone = Floating)
      <4>1. Named(comp) = SplitOf(comp.start)
        BY <3>5 DEF Named
      <4>2. QED
        BY <3>2, <3>3, <4>1, SplitOfDate
    <3>6. QED
      BY <3>4, <3>5
  <2>4. ZoneOfComponent(comp) = tzid
    BY <2>3 DEF ZoneOfComponent, ZoneOf, Named
  <2>5. /\ object.timeZone = AttachedZone(tzid, zones)
        /\ object.timeZones = Attached(AttachedZone(tzid, zones), zones)
    BY <2>2, <2>4 DEF IsImported
  <2> HIDE DEF tzid
  <2>6. /\ IsList(calendar)
        /\ \A j \in 1 .. Len(calendar) :
             IsZone(calendar[j]) => CustomTimeZoneID(calendar[j].tzid) \in DOMAIN zones
        /\ \A id \in DOMAIN zones : \E j \in 1 .. Len(calendar) :
             /\ IsZone(calendar[j]) /\ id = CustomTimeZoneID(calendar[j].tzid)
             /\ zones[id] = ZoneFrom(calendar[j])
    BY DEF BridgeInv, Finished, Importing, CalendarShaped, Gathered
  <2>7. ZoneComponents = {calendar[j] : j \in {j \in 1 .. Len(calendar) : IsZone(calendar[j])}}
    BY <2>6, ListFacts DEF ZoneComponents, ToSet
  <2>8. key \in DOMAIN zones <=> alike # {}
    <3>1. ASSUME key \in DOMAIN zones PROVE alike # {}
      <4>1. PICK j \in 1 .. Len(calendar) :
              IsZone(calendar[j]) /\ key = CustomTimeZoneID(calendar[j].tzid)
        BY <2>6, <3>1
      <4>2. calendar[j] \in alike
        BY <2>7, <4>1
      <4>3. QED
        BY <4>2
    <3>2. ASSUME alike # {} PROVE key \in DOMAIN zones
      BY <2>6, <2>7, <3>2
    <3>3. QED
      BY <3>1, <3>2
  <2>9. ASSUME LoadsLocation(tzid) PROVE object.timeZone = tzid /\ object.timeZones = Empty
    BY <2>5, <2>9, ZoneLoads
  <2>10. ASSUME definitions # {}, ~LoadsLocation(tzid)
         PROVE  /\ object.timeZone = key
                /\ object.timeZone \in DOMAIN object.timeZones
                /\ object.timeZones[object.timeZone] \in {ZoneFrom(z) : z \in alike}
    <3>1. key \in DOMAIN zones
      BY <2>8, <2>10
    <3>2. IsCustom(key)
      BY DEF CustomTimeZoneID, IsCustom
    <3>3. AttachedZone(tzid, zones) = key
      BY <2>3, <2>10, <3>1 DEF AttachedZone, CustomTimeZoneID
    <3>4. object.timeZones = Entry(key, zones[key])
      BY <2>5, <3>1, <3>2, <3>3 DEF Attached
    <3>5. PICK j \in 1 .. Len(calendar) : /\ IsZone(calendar[j]) /\ key = CustomTimeZoneID(calendar[j].tzid)
                                          /\ zones[key] = ZoneFrom(calendar[j])
      BY <2>6, <3>1
    <3>6. calendar[j] \in alike
      BY <2>7, <3>5
    <3> HIDE DEF key, alike
    <3>7. QED
      BY <2>5, <3>3, <3>4, <3>5, <3>6 DEF Entry
  <2>11. ASSUME alike = {} PROVE object.timeZone = tzid /\ object.timeZones = Empty
    <3>1. key \notin DOMAIN zones
      BY <2>8, <2>11
    <3>2. AttachedZone(tzid, zones) = tzid
      BY <3>1 DEF AttachedZone
    <3>3. Attached(tzid, zones) = Empty
      BY <3>1 DEF Attached, CustomTimeZoneID
    <3>4. QED
      BY <2>5, <3>2, <3>3
  <2>12. QED
    BY <2>9, <2>10, <2>11 DEF comp, object, tzid
<1>2. QED
  BY <1>1, BridgeCorrect, PTL

(***************************************************************************)
(* A calendar that ToICal returns defines the zones that the starts and    *)
(* dues of its components refer to and the objects embedded under their    *)
(* own tzId, whatever characters their ids have and however many share     *)
(* them.                                                                   *)
(***************************************************************************)
THEOREM ReferencesKept ==
  Spec => []ReferencesDefined
<1>1. BridgeInv => ReferencesDefined
  <2> SUFFICES ASSUME BridgeInv, phase = "calendar", given # Absent, AgreeOnZones(given),
                      NEW i \in DOMAIN Converted,
                      NEW prop \in {Converted[i].start, Converted[i].due} \ {Absent},
                      given[i].timeZone \in DOMAIN given[i].timeZones,
                      given[i].timeZone = <<Slash>> \o given[i].timeZones[given[i].timeZone].tzId
               PROVE  \E j \in DOMAIN calendar :
                        IsZone(calendar[j]) /\ calendar[j].tzid = Escaped(prop.tzid)
    BY DEF ReferencesDefined
  <2> DEFINE object == given[i]
             zone == object.timeZone
             tz == object.timeZones[zone]
  <2>1. /\ Built /\ \A k \in DOMAIN given : \A id \in DOMAIN given[k].timeZones : Emitted(id)
    BY DEF BridgeInv, Finished, Ours
  <2>2. i \in DOMAIN given /\ Converted[i] = Exported(object) /\ IsReturned(object)
    BY <2>1 DEF Built
  <2>3. PICK j \in DOMAIN calendar, k \in DOMAIN given :
          zone \in DOMAIN given[k].timeZones /\ calendar[j] = ZoneComponent(given[k].timeZones[zone])
    BY <2>1, <2>2 DEF Emitted
  <2>4. given[k].timeZones[zone] = tz
    BY <2>2, <2>3 DEF AgreeOnZones
  <2> HIDE DEF object
  <2>5. IsTimeZone(tz) /\ zone = <<Slash>> \o tz.tzId
    BY <2>2 DEF IsReturned, IsCalendarObject, object
  <2>6. IsZone(calendar[j]) /\ calendar[j].tzid = Escaped(tz.tzId)
    BY <2>3, <2>4 DEF ZoneComponent, IsZone
  <2>7. PICK local : prop = DateTimeProp(local, zone, object.allDay)
    <3>1. IsExported(Converted[i], object)
      BY <2>2, ExportedFields DEF IsReturned
    <3>2. QED
      BY <3>1 DEF IsExported, DateTimeOf
  <2> HIDE DEF zone, tz
  <2>8. IsCustom(zone) /\ Tail(zone) = tz.tzId
    BY <2>5 DEF IsCustom, IsTimeZone
  <2>9. zone # Floating /\ zone # EtcUTC
    BY <2>8, ICalTimeAssumption DEF IsCustom
  <2>10. prop.tzid = tz.tzId
    BY <2>7, <2>8, <2>9 DEF DateTimeProp, DateProp, BareTZID
  <2>11. QED
    BY <2>6, <2>10
<1>2. QED
  BY <1>1, BridgeCorrect, PTL
-----------------------------------------------------------------------------
(***************************************************************************)
(* What is written and read again: a recurrence rule, an observance of a   *)
(* zone, a zone, a class.                                                  *)
(***************************************************************************)
LEMMA RuleReturns ==
  ASSUME NEW rule, IsRule(rule), PlainRule(rule)
  PROVE  RuleFrom(RuleString(rule)) = rule
<1> DEFINE keys == {key \in RuleKeys : rule[key] # Unset}
           at == {i \in DOMAIN RuleOrder : RuleOrder[i] \in keys}
           set == Subsequence(RuleOrder, at)
           text == RuleString(rule)
<1>1. at \in SUBSET (1 .. 16) /\ \A i \in at : RuleOrder[i] \in keys
  BY RuleKeysIn
<1>2. /\ set \in Seq(keys)
      /\ \A i \in at : \E k \in DOMAIN set : set[k] = RuleOrder[i]
  <2>1. 16 \in Nat
    OBVIOUS
  <2> HIDE DEF at, keys
  <2>2. /\ Subsequence(RuleOrder, at) \in Seq(keys)
        /\ \A i \in at : \E k \in DOMAIN Subsequence(RuleOrder, at) :
             Subsequence(RuleOrder, at)[k] = RuleOrder[i]
    BY <1>1, <2>1, SubsequenceIsSequence
  <2>3. QED
    BY <2>2
<1>3. \A key \in keys : \E k \in DOMAIN set : set[k] = key
  <2> SUFFICES ASSUME NEW key \in keys PROVE \E k \in DOMAIN set : set[k] = key
    OBVIOUS
  <2>1. PICK i \in at : RuleOrder[i] = key
    BY RuleKeysIn
  <2> HIDE DEF set, at
  <2>2. QED
    BY <1>2, <2>1
<1>4. text = [i \in DOMAIN set |-> Field(rule, set[i])]
  BY DEF RuleString, Fields
<1> HIDE DEF set, text
<1>5. Len(set) \in Nat /\ DOMAIN set = 1 .. Len(set) /\ \A i \in DOMAIN set : set[i] \in keys
  BY <1>2
<1>6. DOMAIN text = DOMAIN set /\ \A i \in DOMAIN set : text[i] = Field(rule, set[i])
                                                        /\ text[i].key = set[i]
  BY <1>4 DEF Field, Part
<1>7. ASSUME NEW key \in RuleKeys PROVE RuleFrom(text)[key] = rule[key]
  <2> DEFINE all == {i \in DOMAIN text : text[i].key = key}
  <2>1. RuleFrom(text)[key] = IF all = {} THEN Unset ELSE FieldValue(text[Max(all)])
    BY <1>7 DEF RuleFrom, NoRule
  <2>2. CASE rule[key] = Unset
    <3>1. all = {}
      BY <1>5, <1>6, <2>2
    <3>2. QED
      BY <2>1, <2>2, <3>1
  <2>3. CASE rule[key] # Unset
    <3>1. all # {}
      BY <1>3, <1>6, <2>3
    <3>2. Max(all) \in all
      BY <1>5, <1>6, <3>1, MaxOf
    <3> HIDE DEF all
    <3>3. text[Max(all)] = Field(rule, key)
      BY <1>6, <3>2 DEF all
    <3>4. FieldValue(Field(rule, key)) = rule[key]
      <4>1. CASE key \in TokenKeys
        <5>1. /\ rule[key] \in Tokens /\ Lower[rule[key]] = rule[key] /\ Upper[rule[key]] # Unset
              /\ Lower[Upper[rule[key]]] = rule[key]
          BY <2>3, <4>1, TokensAssumption DEF IsRule, PlainRule
        <5>2. QED
          BY <4>1, <5>1 DEF FieldValue, Field, Part
      <4>2. CASE key \notin TokenKeys
        BY <4>2 DEF FieldValue, Field, Part, PlainRule
      <4>3. QED
        BY <4>1, <4>2
    <3>5. QED
      BY <2>1, <3>1, <3>3, <3>4
  <2>4. QED
    BY <2>2, <2>3
<1>8. RuleFrom(text) = [key \in RuleKeys |-> RuleFrom(text)[key]] /\ rule = [key \in RuleKeys |-> rule[key]]
  BY DEF RuleFrom, IsRule
<1>9. QED
  BY <1>7, <1>8 DEF text

LEMMA RulesReturn ==
  ASSUME NEW rules, AreRules(rules), PlainRules(rules)
  PROVE  [i \in DOMAIN Strings(rules) |-> RuleFrom(Strings(rules)[i])] = rules
<1>1. DOMAIN Strings(rules) = DOMAIN rules /\ rules = [i \in DOMAIN rules |-> rules[i]]
  BY ListFacts DEF Strings, AreRules
<1>2. \A i \in DOMAIN rules : RuleFrom(Strings(rules)[i]) = rules[i]
  BY RuleReturns DEF Strings, AreRules, PlainRules
<1>3. QED
  BY <1>1, <1>2

PlainZoneRule(rule) ==
  /\ Len(rule.rules) <= 1 /\ PlainRules(rule.rules)
  /\ rule.offset # Absent => rule.offset.form = "extended"

LEMMA ZoneRuleReturns ==
  ASSUME NEW name, NEW rule, IsZoneRule(rule), PlainZoneRule(rule)
  PROVE  ZoneRuleFrom(ZoneRuleComponent(name, rule)) = rule
<1> DEFINE texts == Strings(rule.rules)
           back == IF texts = <<>> THEN <<>> ELSE <<RuleFrom(Head(texts))>>
<1>1. OffsetValue(ICalOffset(rule.offset)) = rule.offset
  <2>1. CASE rule.offset = Absent
    BY <2>1 DEF OffsetValue, ICalOffset
  <2>2. CASE rule.offset # Absent
    <3>1. rule.offset \in Offsets /\ rule.offset.form = "extended"
      BY <2>2 DEF IsZoneRule, PlainZoneRule, Maybe
    <3>2. [rule.offset EXCEPT !.form = "basic"] \in Offsets
      BY <3>1 DEF Offsets, Text
    <3>3. [rule.offset EXCEPT !.form = "basic"] # Absent
      BY <3>2, PartsAssumption
    <3>4. [[rule.offset EXCEPT !.form = "basic"] EXCEPT !.form = "extended"] = rule.offset
          /\ [rule.offset EXCEPT !.form = "basic"].form = "basic"
      BY <3>1 DEF Offsets
    <3>5. QED
      BY <2>2, <3>3, <3>4 DEF OffsetValue, ICalOffset
  <2>3. QED
    BY <2>1, <2>2
<1>2. back = rule.rules
  <2>1. /\ IsList(rule.rules) /\ Len(rule.rules) \in Nat /\ DOMAIN rule.rules = 1 .. Len(rule.rules)
        /\ rule.rules = [i \in 1 .. Len(rule.rules) |-> rule.rules[i]]
    BY ListFacts DEF IsZoneRule, AreRules
  <2>2. AreTexts(texts) /\ DOMAIN texts = DOMAIN rule.rules
    BY StringsShape DEF IsZoneRule
  <2>3. CASE Len(rule.rules) = 0
    <3>1. texts = <<>>
      BY <2>1, <2>2, <2>3, ListFacts DEF AreTexts
    <3>2. QED
      BY <2>1, <2>3, <3>1
  <2>4. CASE Len(rule.rules) = 1
    <3>1. 1 \in DOMAIN rule.rules /\ rule.rules = <<rule.rules[1]>>
      BY <2>1, <2>4
    <3>2. texts # <<>> /\ Head(texts) = texts[1]
      BY <2>2, <3>1, ListFacts DEF AreTexts
    <3>3. texts[1] = RuleString(rule.rules[1])
      BY <3>1 DEF Strings
    <3>4. RuleFrom(RuleString(rule.rules[1])) = rule.rules[1]
      BY <3>1, RuleReturns DEF IsZoneRule, AreRules, PlainZoneRule, PlainRules
    <3>5. QED
      BY <3>1, <3>2, <3>3, <3>4
  <2>5. QED
    BY <2>1, <2>3, <2>4 DEF PlainZoneRule
<1>3. ZoneRuleFrom(ZoneRuleComponent(name, rule))
        = [start |-> rule.start, offset |-> rule.offset, rules |-> rule.rules]
  BY <1>1, <1>2 DEF ZoneRuleFrom, ZoneRuleComponent
<1>4. QED
  BY <1>3 DEF IsZoneRule

LEMMA ZoneReturns ==
  ASSUME NEW tz, IsTimeZone(tz), ToSet(tz.tzId) \cap Special = {},
         \A rule \in ToSet(tz.standard) \cup ToSet(tz.daylight) : PlainZoneRule(rule)
  PROVE  ZoneFrom(ZoneComponent(tz)) = tz
<1> DEFINE subs == ZoneComponent(tz).subs
           m == Len(tz.standard)
           n == Len(tz.daylight)
           at(name) == {i \in DOMAIN subs : subs[i].name = name}
           part(name) == LET some == Subsequence(subs, at(name))
                         IN  [i \in DOMAIN some |-> ZoneRuleFrom(some[i])]
<1>1. /\ m \in Nat /\ n \in Nat /\ DOMAIN subs = 1 .. m + n
      /\ \A i \in 1 .. m : subs[i] = ZoneRuleComponent("STANDARD", tz.standard[i])
      /\ \A i \in 1 .. n : subs[m + i] = ZoneRuleComponent("DAYLIGHT", tz.daylight[i])
      /\ DOMAIN tz.standard = 1 .. m /\ DOMAIN tz.daylight = 1 .. n
  BY ZoneSubs
<1>2. ZoneFrom(ZoneComponent(tz))
        = [tzId |-> ZoneComponent(tz).tzid, standard |-> part("STANDARD"), daylight |-> part("DAYLIGHT")]
  BY DEF ZoneFrom
<1>3. ZoneComponent(tz).tzid = tz.tzId
  BY EscapedShape DEF IsTimeZone, ZoneComponent
<1>4. tz.standard = [i \in 1 .. m |-> tz.standard[i]] /\ tz.daylight = [i \in 1 .. n |-> tz.daylight[i]]
  BY ListFacts DEF IsTimeZone, AreZoneRules
<1>5. /\ \A i \in 1 .. m : ZoneRuleFrom(ZoneRuleComponent("STANDARD", tz.standard[i])) = tz.standard[i]
      /\ \A i \in 1 .. n : ZoneRuleFrom(ZoneRuleComponent("DAYLIGHT", tz.daylight[i])) = tz.daylight[i]
  <2>1. /\ \A i \in 1 .. m : IsZoneRule(tz.standard[i]) /\ PlainZoneRule(tz.standard[i])
        /\ \A i \in 1 .. n : IsZoneRule(tz.daylight[i]) /\ PlainZoneRule(tz.daylight[i])
    BY <1>1 DEF IsTimeZone, AreZoneRules, ToSet
  <2>2. QED
    BY <2>1, ZoneRuleReturns
<1> HIDE DEF subs, m, n
<1>6. /\ \A i \in 1 .. m : subs[i].name = "STANDARD"
      /\ \A i \in 1 .. n : subs[m + i].name = "DAYLIGHT"
  <2>1. \A name, rule : ZoneRuleComponent(name, rule).name = name
    BY DEF ZoneRuleComponent
  <2>2. ASSUME NEW i \in 1 .. m PROVE subs[i].name = "STANDARD"
    BY <1>1, <2>1
  <2>3. ASSUME NEW i \in 1 .. n PROVE subs[m + i].name = "DAYLIGHT"
    <3>1. subs[m + i] = ZoneRuleComponent("DAYLIGHT", tz.daylight[i])
      BY <1>1
    <3>2. QED
      BY <2>1, <3>1
  <2>4. QED
    BY <2>2, <2>3
<1>7. /\ \A i \in 1 .. m + n : i \in 1 .. m \/ (i - m \in 1 .. n /\ i = m + (i - m))
      /\ (\A i \in 1 .. m : i \in 1 .. m + n) /\ \A i \in 1 .. n : m + i \in 1 .. m + n
  BY <1>1
<1>8. part("STANDARD") = tz.standard
  <2> DEFINE f == [i \in 1 .. m |-> i]
             all == at("STANDARD")
  <2>1. all = {f[i] : i \in 1 .. m}
    <3>1. all = 1 .. m
      BY <1>1, <1>6, <1>7
    <3>2. {f[i] : i \in 1 .. m} = 1 .. m
      OBVIOUS
    <3>3. QED
      BY <3>1, <3>2
  <2>2. Enumerates(f, m, all)
    <3> HIDE DEF all
    <3>1. QED
      BY <1>1, <2>1 DEF Enumerates
  <2> HIDE DEF all, f
  <2>3. Subsequence(subs, all) = [i \in 1 .. m |-> subs[f[i]]]
    BY ONLY <2>2, SubsequenceIs
  <2> USE DEF f
  <2>4. [i \in 1 .. m |-> subs[f[i]]] = [i \in 1 .. m |-> ZoneRuleComponent("STANDARD", tz.standard[i])]
    BY <1>1
  <2>5. part("STANDARD") = [i \in 1 .. m |-> ZoneRuleFrom(ZoneRuleComponent("STANDARD", tz.standard[i]))]
    BY <2>3, <2>4 DEF all
  <2>6. QED
    BY <1>4, <1>5, <2>5
<1>9. part("DAYLIGHT") = tz.daylight
  <2> DEFINE f == [i \in 1 .. n |-> m + i]
             all == at("DAYLIGHT")
  <2>1. all = {f[i] : i \in 1 .. n}
    <3>1. all = {m + i : i \in 1 .. n}
      <4>1. ASSUME NEW j \in all PROVE j \in {m + i : i \in 1 .. n}
        <5>1. j \in 1 .. m + n /\ subs[j].name = "DAYLIGHT"
          BY <1>1
        <5>2. j \notin 1 .. m
          BY <1>6, <5>1
        <5>3. QED
          BY <1>7, <5>1, <5>2
      <4>2. ASSUME NEW i \in 1 .. n PROVE m + i \in all
        BY <1>1, <1>6, <1>7
      <4>3. QED
        BY <4>1, <4>2
    <3>2. {f[i] : i \in 1 .. n} = {m + i : i \in 1 .. n}
      OBVIOUS
    <3>3. QED
      BY <3>1, <3>2
  <2>2. Enumerates(f, n, all)
    <3>1. f \in [1 .. n -> Int] /\ \A i, j \in 1 .. n : i < j => f[i] < f[j]
      BY <1>1
    <3> HIDE DEF all, f
    <3>2. QED
      BY <1>1, <2>1, <3>1 DEF Enumerates
  <2> HIDE DEF all, f
  <2>3. Subsequence(subs, all) = [i \in 1 .. n |-> subs[f[i]]]
    BY ONLY <2>2, SubsequenceIs
  <2> USE DEF f
  <2>4. [i \in 1 .. n |-> subs[f[i]]] = [i \in 1 .. n |-> ZoneRuleComponent("DAYLIGHT", tz.daylight[i])]
    BY <1>1
  <2>5. part("DAYLIGHT") = [i \in 1 .. n |-> ZoneRuleFrom(ZoneRuleComponent("DAYLIGHT", tz.daylight[i]))]
    BY <2>3, <2>4 DEF all
  <2>6. QED
    BY <1>4, <1>5, <2>5
<1> HIDE DEF part
<1>10. QED
  BY <1>2, <1>3, <1>8, <1>9 DEF IsTimeZone

LEMMA TokenReturns ==
  ASSUME NEW token \in Tokens, Lowered(token), Verbatim(token)
  PROVE  /\ Quoted[Upper[token]] = Upper[token]
         /\ Lower[Upper[token]] = token /\ Upper[token] \in Tokens /\ Upper[token] # Absent
BY TokensAssumption DEF Lowered, Verbatim

LEMMA PrivacyReturns ==
  ASSUME NEW privacy \in Tokens, Lowered(privacy), Verbatim(privacy), privacy # "confidential"
  PROVE  /\ PrivacyFromClass(Quoted[ClassFromPrivacy(privacy)]) = privacy
         /\ Quoted[ClassFromPrivacy(privacy)] # Absent
<1>1. Quoted[Upper[privacy]] = Upper[privacy] /\ Lower[privacy] = privacy /\ Lower[Upper[privacy]] = privacy /\ Upper[privacy] \in Tokens
  BY TokenReturns, TokensAssumption DEF Lowered
<1>2. /\ {"PUBLIC", "PRIVATE", "CONFIDENTIAL"} \subseteq Tokens
      /\ Upper["PUBLIC"] = "PUBLIC" /\ Upper["PRIVATE"] = "PRIVATE"
      /\ Upper["CONFIDENTIAL"] = "CONFIDENTIAL"
      /\ \A t \in {"PUBLIC", "PRIVATE", "CONFIDENTIAL"} : Quoted[t] = t
      /\ Lower["PUBLIC"] = "public" /\ Lower["PRIVATE"] = "private"
      /\ Lower["CONFIDENTIAL"] = "confidential" /\ Absent \notin Tokens
  BY TokensAssumption
<1>3. CASE privacy = "public"
  BY <1>1, <1>2, <1>3 DEF ClassFromPrivacy, PrivacyFromClass
<1>4. CASE privacy = "private"
  BY <1>1, <1>2, <1>4 DEF ClassFromPrivacy, PrivacyFromClass
<1>5. CASE privacy = "secret"
  BY <1>1, <1>2, <1>5 DEF ClassFromPrivacy, PrivacyFromClass
<1>6. CASE privacy \notin {"public", "private", "secret"}
  <2>1. ClassFromPrivacy(privacy) = Upper[privacy]
    BY <1>1, <1>6 DEF ClassFromPrivacy
  <2>2. Lower[Upper[Upper[privacy]]] = privacy
    BY <1>1, TokensAssumption
  <2>3. Upper[Upper[privacy]] \notin {"PUBLIC", "PRIVATE", "CONFIDENTIAL"}
    BY <1>2, <1>6, <2>2
  <2>4. PrivacyFromClass(Upper[privacy]) = Lower[Upper[privacy]]
    BY <2>3 DEF PrivacyFromClass
  <2>5. QED
    BY <1>1, <1>2, <2>1, <2>4
<1>7. QED
  BY <1>3, <1>4, <1>5, <1>6

(***************************************************************************)
(* Ordinals whose order by bytes is that of their numbers: the ids from    *)
(* one to another are sorted when their places in IdOrder go up.           *)
(***************************************************************************)
InOrder(first, last) ==
  SortedIDs({Ordinals[i] : i \in first .. last}) = SubSeq(Ordinals, first, last)

Placed(f, first, last) ==
  /\ f \in [first .. last -> DOMAIN IdOrder]
  /\ \A i \in first .. last : IdOrder[f[i]] = Ordinals[i]
  /\ \A i, j \in first .. last : i < j => f[i] < f[j]

LEMMA OrdinalsFacts ==
  /\ Len(Ordinals) \in Nat \ {0} /\ DOMAIN Ordinals = 1 .. Len(Ordinals)
  /\ \A i, j \in 1 .. Len(Ordinals) : Ordinals[i] = Ordinals[j] => i = j
  /\ Len(IdOrder) \in Nat /\ DOMAIN IdOrder = 1 .. Len(IdOrder)
  /\ \A i, j \in 1 .. Len(IdOrder) : IdOrder[i] = IdOrder[j] => i = j
  /\ \A i \in 1 .. Len(Ordinals) : \E j \in 1 .. Len(IdOrder) : IdOrder[j] = Ordinals[i]
<1>1. /\ IdOrder \in Seq(ToSet(IdOrder)) /\ Ordinals \in Seq(ToSet(IdOrder)) /\ Ordinals # <<>>
      /\ IsInjective(IdOrder) /\ IsInjective(Ordinals)
  BY ICalExportAssumption, Zenon
<1>2. /\ Len(Ordinals) \in Nat /\ DOMAIN Ordinals = 1 .. Len(Ordinals) /\ Len(Ordinals) # 0
      /\ Len(IdOrder) \in Nat /\ DOMAIN IdOrder = 1 .. Len(IdOrder)
      /\ \A i \in 1 .. Len(Ordinals) : Ordinals[i] \in ToSet(IdOrder)
  BY <1>1
<1>3. /\ \A i, j \in DOMAIN Ordinals : Ordinals[i] = Ordinals[j] => i = j
      /\ \A i, j \in DOMAIN IdOrder : IdOrder[i] = IdOrder[j] => i = j
  BY <1>1 DEF IsInjective
<1>4. ToSet(IdOrder) = {IdOrder[j] : j \in DOMAIN IdOrder}
  BY DEF ToSet
<1>5. QED
  BY <1>2, <1>3, <1>4

LEMMA OrderPlaces ==
  ASSUME NEW first \in Nat \ {0}, NEW last \in first - 1 .. Len(Ordinals), InOrder(first, last)
  PROVE  \E f : Placed(f, first, last)
<1> DEFINE ids == {Ordinals[i] : i \in first .. last}
           at == {j \in DOMAIN IdOrder : IdOrder[j] \in ids}
<1>1. at \in SUBSET (1 .. Len(IdOrder)) /\ Len(IdOrder) \in Nat /\ Len(Ordinals) \in Nat
  BY OrdinalsFacts
<1>2. PICK n, g : Enumerates(g, n, at)
  <2> HIDE DEF at
  <2>1. QED
    BY <1>1, Enumerated
<1>3. /\ n \in Nat /\ g \in [1 .. n -> Int] /\ at = {g[k] : k \in 1 .. n}
      /\ \A j, k \in 1 .. n : j < k => g[j] < g[k]
  BY <1>2 DEF Enumerates
<1>4. SortedIDs(ids) = [k \in 1 .. n |-> IdOrder[g[k]]]
  <2>1. SortedIDs(ids) = Subsequence(IdOrder, at)
    BY DEF SortedIDs
  <2> HIDE DEF at, ids
  <2>2. QED
    BY <1>2, <2>1, SubsequenceIs
<1>5. [k \in 1 .. n |-> IdOrder[g[k]]] = [k \in 1 .. last - first + 1 |-> Ordinals[k + first - 1]]
  <2>1. SubSeq(Ordinals, first, last) = [k \in 1 .. last - first + 1 |-> Ordinals[k + first - 1]]
    BY <1>1 DEF SubSeq
  <2> HIDE DEF ids
  <2>2. SubSeq(Ordinals, first, last) = SortedIDs(ids)
    BY DEF InOrder, ids
  <2>3. QED
    BY <1>4, <2>1, <2>2
<1>6. n = last - first + 1
  <2>1. 1 .. n = 1 .. last - first + 1
    BY <1>5
  <2>2. last - first + 1 \in Nat /\ last \in Int
    BY <1>1
  <2>3. QED
    BY <1>3, <2>1, <2>2
<1>7. \A k \in 1 .. n : IdOrder[g[k]] = Ordinals[k + first - 1] /\ g[k] \in DOMAIN IdOrder
  BY <1>3, <1>5, <1>6
<1> DEFINE f == [i \in first .. last |-> g[i - first + 1]]
<1>8. \A i \in first .. last : i - first + 1 \in 1 .. n /\ (i - first + 1) + first - 1 = i
  BY <1>1, <1>6
<1>9. \A i \in first .. last : f[i] \in DOMAIN IdOrder /\ IdOrder[f[i]] = Ordinals[i]
  BY <1>7, <1>8
<1>10. ASSUME NEW i \in first .. last, NEW j \in first .. last, i < j PROVE f[i] < f[j]
  <2>1. i - first + 1 < j - first + 1
    BY <1>10
  <2>2. QED
    BY <1>3, <1>8, <2>1
<1>11. Placed(f, first, last)
  BY <1>9, <1>10 DEF Placed
<1>12. QED
  BY <1>11

LEMMA PlacesOrder ==
  ASSUME NEW first \in Nat \ {0}, NEW last \in first - 1 .. Len(Ordinals), NEW f, Placed(f, first, last)
  PROVE  InOrder(first, last)
<1> DEFINE ids == {Ordinals[i] : i \in first .. last}
           at == {j \in DOMAIN IdOrder : IdOrder[j] \in ids}
           n == last - first + 1
           g == [k \in 1 .. n |-> f[k + first - 1]]
<1>1. Len(Ordinals) \in Nat /\ last \in Int /\ n \in Nat
  BY OrdinalsFacts
<1>2. \A k \in 1 .. n : k + first - 1 \in first .. last
  BY <1>1
<1>3. /\ f \in [first .. last -> DOMAIN IdOrder]
      /\ \A i \in first .. last : IdOrder[f[i]] = Ordinals[i]
      /\ \A i, j \in first .. last : i < j => f[i] < f[j]
      /\ DOMAIN IdOrder \subseteq Int
  BY OrdinalsFacts DEF Placed
<1>4. /\ g \in [1 .. n -> Int] /\ \A k \in 1 .. n : g[k] = f[k + first - 1]
  BY <1>2, <1>3
<1>5. \A j, k \in 1 .. n : j < k => g[j] < g[k]
  <2> SUFFICES ASSUME NEW j \in 1 .. n, NEW k \in 1 .. n, j < k PROVE g[j] < g[k]
    OBVIOUS
  <2>1. j + first - 1 < k + first - 1
    OBVIOUS
  <2>2. QED
    BY <1>2, <1>3, <1>4, <2>1
<1>6. \A i \in first .. last : i - first + 1 \in 1 .. n /\ (i - first + 1) + first - 1 = i
  BY <1>1
<1>7. at = {g[k] : k \in 1 .. n}
  <2>1. ASSUME NEW j \in at PROVE j \in {g[k] : k \in 1 .. n}
    <3>1. PICK i \in first .. last : IdOrder[j] = Ordinals[i]
      OBVIOUS
    <3>2. j = f[i]
      BY <1>3, <3>1, OrdinalsFacts
    <3>3. j = g[i - first + 1]
      BY <1>4, <1>6, <3>2
    <3> HIDE DEF g
    <3>4. QED
      BY <1>6, <3>3
  <2>2. ASSUME NEW k \in 1 .. n PROVE g[k] \in at
    <3>1. f[k + first - 1] \in DOMAIN IdOrder /\ IdOrder[f[k + first - 1]] = Ordinals[k + first - 1]
      BY <1>2, <1>3
    <3>2. QED
      BY <1>2, <1>4, <3>1
  <2>3. QED
    BY <2>1, <2>2
<1>8. Enumerates(g, n, at)
  <2> HIDE DEF g, at, n
  <2>1. QED
    BY <1>1, <1>4, <1>5, <1>7 DEF Enumerates
<1>9. SortedIDs(ids) = [k \in 1 .. n |-> IdOrder[g[k]]]
  <2>1. SortedIDs(ids) = Subsequence(IdOrder, at)
    BY DEF SortedIDs
  <2> HIDE DEF at, ids, n, g
  <2>2. QED
    BY <1>8, <2>1, SubsequenceIs
<1>10. \A k \in 1 .. n : IdOrder[g[k]] = Ordinals[k + first - 1]
  BY <1>2, <1>3, <1>4
<1>11. SubSeq(Ordinals, first, last) = [k \in 1 .. n |-> Ordinals[k + first - 1]]
  BY DEF SubSeq
<1>12. QED
  BY <1>9, <1>10, <1>11 DEF InOrder

LEMMA OrderWithin ==
  ASSUME NEW first \in Nat \ {0}, NEW last \in first - 1 .. Len(Ordinals), InOrder(first, last),
         NEW from \in Nat \ {0}, NEW to \in from - 1 .. last, first <= from
  PROVE  InOrder(from, to)
<1>1. Len(Ordinals) \in Nat
  BY OrdinalsFacts
<1>2. PICK f : Placed(f, first, last)
  BY OrderPlaces
<1> DEFINE g == [i \in from .. to |-> f[i]]
<1>3. from .. to \subseteq first .. last /\ to \in from - 1 .. Len(Ordinals)
  BY <1>1
<1>4. Placed(g, from, to)
  BY <1>2, <1>3 DEF Placed
<1> HIDE DEF g
<1>5. QED
  BY <1>3, <1>4, PlacesOrder

LEMMA SortedOne ==
  /\ InOrder(1, 1) /\ SortedIDs({Ordinals[1]}) = <<Ordinals[1]>> /\ SortedIDs({}) = <<>>
<1>1. 1 \in 1 .. Len(Ordinals) /\ 1 \in Nat \ {0} /\ 1 \in 1 - 1 .. Len(Ordinals)
  BY OrdinalsFacts
<1>2. PICK j \in DOMAIN IdOrder : IdOrder[j] = Ordinals[1]
  BY <1>1, OrdinalsFacts
<1> DEFINE f == [i \in 1 .. 1 |-> j]
<1>3. Placed(f, 1, 1)
  BY <1>2 DEF Placed
<1> HIDE DEF f
<1>4. InOrder(1, 1)
  BY <1>1, <1>3, PlacesOrder
<1>5. {Ordinals[i] : i \in 1 .. 1} = {Ordinals[1]}
  OBVIOUS
<1>6. SubSeq(Ordinals, 1, 1) = <<Ordinals[1]>>
  <2>1. SubSeq(Ordinals, 1, 1) = [k \in 1 .. 1 |-> Ordinals[k]]
    <3>1. SubSeq(Ordinals, 1, 1) = [k \in 1 .. 1 + 1 - 1 |-> Ordinals[k + 1 - 1]]
      BY DEF SubSeq
    <3>2. QED
      BY <3>1
  <2>2. \A x : <<x>> = [k \in 1 .. 1 |-> x]
    OBVIOUS
  <2>3. \A k \in 1 .. 1 : Ordinals[k] = Ordinals[1]
    OBVIOUS
  <2>4. QED
    BY <2>1, <2>2, <2>3
<1>7. SortedIDs({}) = <<>>
  BY SubsequenceEmpty DEF SortedIDs
<1>8. QED
  BY <1>4, <1>5, <1>6, <1>7 DEF InOrder

LEMMA SingleReturns ==
  ASSUME NEW map, IsMap(map), SinglePlain(map)
  PROVE  Single(FirstValue(map)) = map
<1> DEFINE ids == {id \in DOMAIN map : map[id] # Absent}
<1>1. FirstValue(map) = IF SortedIDs(ids) = <<>> THEN Absent ELSE map[Head(SortedIDs(ids))]
  BY DEF FirstValue
<1>2. CASE map = Empty
  <2>1. ids = {}
    BY <1>2 DEF Empty
  <2>2. QED
    BY <1>1, <1>2, <2>1, SortedOne DEF Single
<1>3. CASE DOMAIN map = {Ordinals[1]} /\ map[Ordinals[1]] # Absent
  <2>1. ids = {Ordinals[1]}
    BY <1>3
  <2>2. SortedIDs(ids) = <<Ordinals[1]>>
    BY <2>1, SortedOne
  <2> HIDE DEF ids
  <2>3. SortedIDs(ids) # <<>> /\ Head(SortedIDs(ids)) = Ordinals[1]
    BY <2>2
  <2>4. FirstValue(map) = map[Ordinals[1]]
    BY <1>1, <2>3
  <2>5. Entry(Ordinals[1], map[Ordinals[1]]) = map
    BY <1>3 DEF IsMap, Entry
  <2>6. QED
    BY <1>3, <2>4, <2>5 DEF Single
<1>4. QED
  BY <1>2, <1>3 DEF SinglePlain

LEMMA AlertReturns ==
  ASSUME NEW alert \in Alerts, AlertPlain(alert), Verbatim(alert.action)
  PROVE  AlertFrom(AlarmFrom(alert)) = alert
<1>1. alert.action \in Tokens /\ Lowered(alert.action) /\ alert.trigger \in Maybe(Triggers)
  BY DEF Alerts, AlertPlain, Maybe
<1>2. Lower[Upper[alert.action]] = alert.action /\ Upper[alert.action] # Absent
  BY <1>1, TokenReturns
<1>3. TriggerFrom(TriggerProp(alert.trigger)) = alert.trigger
  <2>1. CASE alert.trigger = Absent
    BY <2>1 DEF TriggerProp, TriggerFrom
  <2>2. CASE alert.trigger # Absent /\ alert.trigger.absolute
    BY <2>2 DEF TriggerProp, TriggerFrom, AlertPlain
  <2>3. CASE alert.trigger # Absent /\ ~alert.trigger.absolute
    <3> DEFINE trigger == alert.trigger
               prop == [trigger EXCEPT !.related = IF trigger.related = "end" THEN "END" ELSE Absent]
    <3>1. trigger \in Triggers /\ trigger.related \in {Absent, "end"} /\ Absent # "END" /\ Absent \notin Triggers
      BY <1>1, <2>3, PartsAssumption DEF AlertPlain, Maybe
    <3>2. TriggerProp(trigger) = prop
      BY <2>3 DEF TriggerProp, AlertPlain
    <3>3. prop \in Triggers
      <4>1. "END" \in Maybe(Text({"START", "END", "start", "end"}))
            /\ Absent \in Maybe(Text({"START", "END", "start", "end"}))
        BY DEF Maybe, Text
      <4>2. QED
        BY <3>1, <4>1 DEF Triggers
    <3>4. ~prop.absolute /\ prop.related = (IF trigger.related = "end" THEN "END" ELSE Absent)
      BY <2>3, <3>1 DEF Triggers
    <3>5. TriggerFrom(prop) = [prop EXCEPT !.related = IF prop.related = "END" THEN "end" ELSE Absent]
      BY <3>1, <3>3, <3>4 DEF TriggerFrom
    <3>6. [prop EXCEPT !.related = trigger.related] = trigger
      BY <3>1 DEF Triggers
    <3>7. (IF prop.related = "END" THEN "end" ELSE Absent) = trigger.related
      BY <3>1, <3>4
    <3> HIDE DEF prop
    <3>8. QED
      BY <3>2, <3>5, <3>6, <3>7
  <2>4. QED
    BY <2>1, <2>2, <2>3
<1>4. AlarmFrom(alert).action = Upper[alert.action] /\ AlarmFrom(alert).trigger = TriggerProp(alert.trigger)
  BY <1>1, TokenReturns, TokensAssumption DEF AlarmFrom
<1>5. AlertFrom(AlarmFrom(alert)) = [action |-> alert.action, trigger |-> alert.trigger]
  BY <1>2, <1>3, <1>4 DEF AlertFrom
<1>6. QED
  BY <1>5 DEF Alerts

LEMMA AlertsReturn ==
  ASSUME NEW alerts, alerts \in [DOMAIN alerts -> Alerts], HasIds(alerts, 1),
         \A id \in DOMAIN alerts : AlertPlain(alerts[id]) /\ Verbatim(alerts[id].action),
         NEW comp, comp.alarms = Alarms(alerts)
  PROVE  AlertsFrom(comp) = alerts
<1>1. PICK n \in 1 - 1 .. Len(Ordinals) : /\ DOMAIN alerts = {Ordinals[i] : i \in 1 .. n}
                                          /\ SortedIDs(DOMAIN alerts) = SubSeq(Ordinals, 1, n)
  BY DEF HasIds
<1>2. n \in Nat /\ n <= Len(Ordinals)
  BY OrdinalsFacts
<1>3. SubSeq(Ordinals, 1, n) = [i \in 1 .. n |-> Ordinals[i]]
  <2>1. SubSeq(Ordinals, 1, n) = [i \in 1 .. n + 1 - 1 |-> Ordinals[i + 1 - 1]]
    BY <1>2
  <2>2. QED
    BY <1>2, <2>1
<1>4. Alarms(alerts) = [i \in 1 .. n |-> AlarmFrom(alerts[Ordinals[i]])]
  BY <1>1, <1>3 DEF Alarms
<1>5. Len(comp.alarms) = n
  BY <1>2, <1>4
<1>6. AlertsFrom(comp) = [id \in DOMAIN alerts |->
                            AlertFrom(comp.alarms[CHOOSE i \in 1 .. n : Ordinals[i] = id])]
  BY <1>1, <1>5 DEF AlertsFrom
<1>7. ASSUME NEW id \in DOMAIN alerts
      PROVE  AlertFrom(comp.alarms[CHOOSE i \in 1 .. n : Ordinals[i] = id]) = alerts[id]
  <2> DEFINE k == CHOOSE i \in 1 .. n : Ordinals[i] = id
  <2>1. k \in 1 .. n /\ Ordinals[k] = id
    BY <1>1
  <2> HIDE DEF k
  <2>2. comp.alarms[k] = AlarmFrom(alerts[id])
    BY <1>4, <2>1
  <2>3. AlertFrom(comp.alarms[k]) = alerts[id]
    BY <2>2, AlertReturns
  <2>4. QED
    BY <2>3 DEF k
<1>8. QED
  BY <1>6, <1>7

LEMMA ParticipantReturns ==
  ASSUME NEW p \in People, NEW role, ParticipantPlain(p, role)
  PROVE  ParticipantFrom(CalAddress(p), role) = p /\ Address(p) # Absent /\ CalAddress(p) # Absent
<1>1. Address(p) = p.imip /\ p.imip # Absent
  BY DEF ParticipantPlain, Address
<1>2. CalAddress(p) # Absent
  BY <1>1, CalAddressShape, PartsAssumption
<1>3. ParticipantFrom(CalAddress(p), role)
        = [imip |-> p.imip, email |-> p.email, name |-> p.name, roles |-> p.roles]
  BY <1>1 DEF ParticipantPlain, ParticipantFrom, CalAddress
<1>4. QED
  BY <1>1, <1>2, <1>3 DEF People

LEMMA HeadOfOne == \A x : <<x>> # <<>> /\ Head(<<x>>) = x
OBVIOUS

LEMMA ParticipantsReturn ==
  ASSUME NEW people, people \in [DOMAIN people -> People], ParticipantsPlain(people),
         NEW comp, comp.organizer = Organizer(people), comp.attendees = Attendees(people)
  PROVE  ParticipantsFrom(comp) = people
<1> DEFINE first == IF Ordinals[1] \in DOMAIN people THEN 1 ELSE 2
           role(id) == IF id = Ordinals[1] THEN "owner" ELSE "attendee"
<1>1. PICK n \in first - 1 .. Len(Ordinals) : /\ DOMAIN people = {Ordinals[i] : i \in first .. n}
                                              /\ SortedIDs(DOMAIN people) = SubSeq(Ordinals, first, n)
  BY DEF ParticipantsPlain, HasIds
<1>2. \A id \in DOMAIN people :
        /\ people[id] \in People /\ people[id].roles = {role(id)}
        /\ ParticipantFrom(CalAddress(people[id]), role(id)) = people[id]
        /\ Address(people[id]) # Absent /\ CalAddress(people[id]) # Absent
  BY ParticipantReturns DEF ParticipantsPlain, ParticipantPlain
<1>3. Addressed(people) = DOMAIN people
  BY <1>2 DEF Addressed
<1> DEFINE owners == {id \in Addressed(people) : "owner" \in people[id].roles}
           rest == DOMAIN people \ {Ordinals[1]}
<1>4. owners = DOMAIN people \cap {Ordinals[1]}
  BY <1>2, <1>3
<1>5. /\ Ordinals[1] \in DOMAIN people => Owners(people) = <<Ordinals[1]>>
      /\ Ordinals[1] \notin DOMAIN people => Owners(people) = <<>>
  <2>1. Owners(people) = SortedIDs(owners)
    BY DEF Owners
  <2>2. Ordinals[1] \in DOMAIN people => owners = {Ordinals[1]}
    BY <1>4
  <2>3. Ordinals[1] \notin DOMAIN people => owners = {}
    BY <1>4
  <2> HIDE DEF owners
  <2>4. QED
    BY <2>1, <2>2, <2>3, SortedOne
<1>6. n \in Nat /\ n <= Len(Ordinals) /\ Len(Ordinals) \in Nat /\ first \in {1, 2} /\ first - 1 <= n
  BY OrdinalsFacts
<1> DEFINE last == IF n = 0 THEN 1 ELSE n
<1>7. rest = {Ordinals[i] : i \in 2 .. last}
  <2>1. \A i \in 2 .. last : i \in first .. n /\ Ordinals[i] # Ordinals[1]
    <3> SUFFICES ASSUME NEW i \in 2 .. last PROVE i \in first .. n /\ Ordinals[i] # Ordinals[1]
      OBVIOUS
    <3>1. i \in first .. n /\ i \in 1 .. Len(Ordinals) /\ 1 \in 1 .. Len(Ordinals) /\ i # 1
      BY <1>6
    <3>2. QED
      BY <3>1, OrdinalsFacts
  <2>2. \A i \in first .. n : Ordinals[i] # Ordinals[1] => i \in 2 .. last
    BY <1>6
  <2> HIDE DEF last, first
  <2>3. QED
    BY <1>1, <2>1, <2>2
<1>8. SortedIDs(rest) = SubSeq(Ordinals, 2, last)
  <2>1. InOrder(first, n)
    BY <1>1 DEF InOrder
  <2>2. CASE first = 2
    <3>1. last = n /\ rest = DOMAIN people
      BY <1>6, <2>2
    <3>2. QED
      BY <1>1, <2>2, <3>1
  <2>3. CASE first = 1
    <3>1. /\ first \in Nat \ {0} /\ n \in first - 1 .. Len(Ordinals)
          /\ 2 \in Nat \ {0} /\ first <= 2
          /\ n # 0 => last \in 2 - 1 .. n
      BY <1>6, <2>3
    <3>2. n # 0
      BY <1>1, <1>6, <2>3
    <3>3. last \in 2 - 1 .. n
      BY <3>1, <3>2
    <3> HIDE DEF first, last, rest
    <3>4. InOrder(2, last)
      BY <2>1, <3>1, <3>3, OrderWithin
    <3>5. QED
      BY <1>7, <3>4 DEF InOrder
  <2>4. QED
    BY <2>2, <2>3
<1>9. last \in Nat \ {0} /\ last <= Len(Ordinals)
  BY <1>6, OrdinalsFacts
<1>10. SubSeq(Ordinals, 2, last) = [i \in 1 .. last - 1 |-> Ordinals[i + 1]]
  <2>1. SubSeq(Ordinals, 2, last) = [i \in 1 .. last + 1 - 2 |-> Ordinals[i + 2 - 1]]
    BY <1>9
  <2>2. last + 1 - 2 = last - 1 /\ \A i \in 1 .. last - 1 : i + 2 - 1 = i + 1
    BY <1>9
  <2> HIDE DEF last
  <2>3. QED
    BY <2>1, <2>2
<1> HIDE DEF last, rest, owners
<1>11. Attendees(people) = [i \in 1 .. last - 1 |-> CalAddress(people[Ordinals[i + 1]])]
  <2>1. {id \in Addressed(people) : Owners(people) = <<>> \/ id # Head(Owners(people))} = rest
    <3>1. CASE Ordinals[1] \in DOMAIN people
      <4>1. Owners(people) # <<>> /\ Head(Owners(people)) = Ordinals[1]
        BY <1>5, <3>1, HeadOfOne
      <4>2. QED
        BY <1>3, <4>1 DEF rest
    <3>2. CASE Ordinals[1] \notin DOMAIN people
      BY <1>3, <1>5, <3>2 DEF rest
    <3>3. QED
      BY <3>1, <3>2
  <2>2. Attendees(people) = [i \in DOMAIN SortedIDs(rest) |-> CalAddress(people[SortedIDs(rest)[i]])]
    BY <2>1 DEF Attendees
  <2> DEFINE sorted == SortedIDs(rest)
  <2>3. DOMAIN sorted = 1 .. last - 1 /\ \A i \in 1 .. last - 1 : sorted[i] = Ordinals[i + 1]
    BY <1>8, <1>10
  <2> HIDE DEF sorted
  <2>4. Attendees(people) = [i \in DOMAIN sorted |-> CalAddress(people[sorted[i]])]
    BY <2>2 DEF sorted
  <2>5. QED
    BY <2>3, <2>4
<1> DEFINE organizer == IF comp.organizer = Absent THEN Empty
                        ELSE Entry(Ordinals[1], ParticipantFrom(comp.organizer, "owner"))
           ids == {Ordinals[i + 1] : i \in DOMAIN comp.attendees}
           at(id) == CHOOSE i \in DOMAIN comp.attendees : Ordinals[i + 1] = id
           others == [id \in ids |-> ParticipantFrom(comp.attendees[at(id)], "attendee")]
<1>12. DOMAIN comp.attendees = 1 .. last - 1
  BY <1>11
<1>13. ids = rest
  <2>1. \A i \in 1 .. last - 1 : i + 1 \in 2 .. last
    BY <1>9
  <2>2. \A i \in 2 .. last : i - 1 \in 1 .. last - 1 /\ (i - 1) + 1 = i
    BY <1>9
  <2>3. QED
    BY <1>7, <1>12, <2>1, <2>2
<1>14. ASSUME NEW id \in rest PROVE others[id] = people[id]
  <2> DEFINE k == at(id)
  <2>1. k \in 1 .. last - 1 /\ Ordinals[k + 1] = id
    BY <1>12, <1>13
  <2> HIDE DEF k
  <2>2. comp.attendees[k] = CalAddress(people[id])
    BY <1>11, <2>1
  <2>3. id \in DOMAIN people /\ id # Ordinals[1]
    BY DEF rest
  <2>4. ParticipantFrom(comp.attendees[k], "attendee") = people[id]
    BY <1>2, <2>2, <2>3
  <2>5. others[id] = ParticipantFrom(comp.attendees[k], "attendee")
    BY <1>13 DEF k
  <2>6. QED
    BY <2>4, <2>5
<1>15. organizer = [id \in DOMAIN people \cap {Ordinals[1]} |-> people[id]]
  <2>1. CASE Ordinals[1] \in DOMAIN people
    <3>1. Owners(people) # <<>> /\ Head(Owners(people)) = Ordinals[1]
      BY <1>5, <2>1, HeadOfOne
    <3>2. comp.organizer = CalAddress(people[Ordinals[1]])
      BY <3>1 DEF Organizer
    <3>3. organizer = Entry(Ordinals[1], people[Ordinals[1]])
      BY <1>2, <2>1, <3>2
    <3>4. DOMAIN people \cap {Ordinals[1]} = {Ordinals[1]}
      BY <2>1
    <3> HIDE DEF organizer
    <3>5. QED
      BY <3>3, <3>4 DEF Entry
  <2>2. CASE Ordinals[1] \notin DOMAIN people
    <3>1. organizer = Empty
      BY <1>5, <2>2 DEF Organizer
    <3>2. DOMAIN people \cap {Ordinals[1]} = {}
      BY <2>2
    <3> HIDE DEF organizer
    <3>3. QED
      BY <3>1, <3>2 DEF Empty
  <2>3. QED
    BY <2>1, <2>2
<1>16. ParticipantsFrom(comp) = Over(organizer, others)
  BY DEF ParticipantsFrom
<1>17. DOMAIN others = rest
  BY <1>13
<1> HIDE DEF organizer, others
<1>18. /\ DOMAIN organizer = DOMAIN people \cap {Ordinals[1]}
       /\ \A id \in DOMAIN organizer : organizer[id] = people[id]
  BY <1>15
<1>19. DOMAIN organizer \cup DOMAIN others = DOMAIN people
  BY <1>17, <1>18 DEF rest
<1>20. Over(organizer, others) = [id \in DOMAIN people |-> people[id]]
  <2>1. \A id \in DOMAIN people :
          (IF id \in DOMAIN organizer THEN organizer[id] ELSE others[id]) = people[id]
    BY <1>14, <1>17, <1>18, <1>19
  <2>2. QED
    BY <1>19, <2>1 DEF Over
<1>21. QED
  BY <1>16, <1>20

(***************************************************************************)
(* The wall clocks and the zone of an object, from its component.          *)
(***************************************************************************)
LEMMA MidnightTwice ==
  ASSUME NEW w \in Int
  PROVE  Midnight(w) \in Int /\ Midnight(Midnight(w)) = Midnight(w)
<1>1. Day \in Nat \ {0}
  BY ICalTimeAssumption
<1>2. ASSUME NEW v \in Int
      PROVE  /\ v = (Day * (v \div Day)) + (v % Day) /\ v \div Day \in Int /\ v % Day \in 0 .. Day - 1
             /\ Midnight(v) = Day * (v \div Day) /\ Midnight(v) = v - (v % Day) /\ Midnight(v) \in Int
  <2>1. \A d \in Nat \ {0} : v = (d * (v \div d)) + (v % d) /\ v \div d \in Int /\ v % d \in 0 .. d - 1
    OBVIOUS
  <2>2. v = (Day * (v \div Day)) + (v % Day) /\ v \div Day \in Int /\ v % Day \in 0 .. Day - 1
    BY <1>1, <2>1
  <2>3. Day * (v \div Day) \in Int
    BY <1>1, <2>2
  <2>4. QED
    BY <1>1, <2>2, <2>3 DEF Midnight
<1>3. \A x, y \in Int : x < y => Day * x + Day <= Day * y
  <2> SUFFICES ASSUME NEW x \in Int, NEW y \in Int, x < y PROVE Day * x + Day <= Day * y
    OBVIOUS
  <2>1. PICK z \in Nat : y = x + 1 + z
    <3>1. y - x - 1 \in Nat /\ y = x + 1 + (y - x - 1)
      OBVIOUS
    <3>2. QED
      BY <3>1
  <2>2. Day * y = Day * x + Day + Day * z /\ Day * z \in Nat /\ Day * x \in Int
    BY <1>1, <2>1
  <2>3. QED
    BY <1>1, <2>2
<1> DEFINE a == w \div Day
           v == Midnight(w)
           q == v \div Day
           r == v % Day
<1>4. a \in Int /\ v = Day * a /\ v \in Int
  BY <1>2
<1>5. q \in Int /\ r \in 0 .. Day - 1 /\ v = Day * q + r /\ Midnight(v) = v - r
  BY <1>2, <1>4
<1> HIDE DEF a, v, q, r
<1>6. Day * a \in Int /\ Day * q \in Int
  BY <1>1, <1>4, <1>5
<1>7. ~(a < q) /\ ~(q < a)
  BY <1>1, <1>3, <1>4, <1>5, <1>6
<1>8. r = 0
  BY <1>1, <1>4, <1>5, <1>6, <1>7
<1>9. QED
  BY <1>4, <1>5, <1>8 DEF v

LEMMA SplitOfDateTime ==
  ASSUME NEW object, IsReturned(object), NEW local \in Maybe(Int)
  PROVE  LET split == SplitOf(DateTimeOf(object, local))
             date  == object.allDay /\ object.timeZone = Floating
         IN  /\ DateTimeOf(object, local) = Absent <=> local = Absent
             /\ local = Absent => split = NoSplit
             /\ split.kind = "date" <=> local # Absent /\ date
             /\ split.local = IF local # Absent /\ date THEN Midnight(local) ELSE local
             /\ split.zone = IF local = Absent THEN Floating ELSE BareTZID(object.timeZone)
<1> DEFINE prop == DateTimeOf(object, local)
           zone == object.timeZone
           split == SplitOf(prop)
           date == object.allDay /\ zone = Floating
<1>1. zone \in Seq(Chars) /\ object.allDay \in BOOLEAN /\ Absent \notin Int
  BY ICalTimeAssumption DEF IsReturned, IsCalendarObject
<1>2. Floating = <<>> /\ BareTZID(Floating) = Floating /\ BareTZID(EtcUTC) = EtcUTC /\ EtcUTC # Floating
  <2>1. ~IsCustom(EtcUTC) /\ Floating = <<>>
    BY ICalTimeAssumption
  <2>2. ~IsCustom(Floating)
    BY <2>1 DEF IsCustom
  <2>3. EtcUTC # Floating
    BY ICalTimeAssumption, ZoneAssumption
  <2>4. QED
    BY <2>1, <2>2, <2>3 DEF BareTZID
<1>3. CASE local = Absent
  <2>1. prop = Absent /\ split = NoSplit
    BY <1>3 DEF DateTimeOf, SplitOf
  <2>2. QED
    BY <1>3, <2>1 DEF NoSplit
<1>4. CASE local # Absent
  <2>1. local \in Int /\ prop = DateTimeProp(local, zone, object.allDay)
    BY <1>4 DEF DateTimeOf, Maybe
  <2>2. prop \in DateProps /\ prop # Absent
    BY <1>1, <2>1, DateTimeShape, PartsAssumption
  <2>3. split = Split(prop)
    BY <2>2 DEF SplitOf
  <2>4. CASE date
    <3>1. prop = DateProp(Midnight(local), TRUE, FALSE, <<>>)
      BY <2>1, <2>4 DEF DateTimeProp
    <3>2. split = [local |-> Midnight(Midnight(local)), zone |-> Floating, kind |-> "date", instant |-> {}]
      <4> HIDE DEF prop, split
      <4>1. prop.date /\ prop.wall = Midnight(local)
        BY <3>1 DEF DateProp
      <4>2. QED
        BY <2>3, <4>1 DEF Split
    <3> HIDE DEF split, prop
    <3>3. Midnight(Midnight(local)) = Midnight(local)
      BY <2>1, MidnightTwice
    <3>4. split.kind = "date" /\ split.local = Midnight(local) /\ split.zone = Floating
      BY <3>2, <3>3
    <3> USE DEF split, prop
    <3>5. QED
      BY <1>2, <1>4, <2>2, <2>4, <3>4
  <2>5. CASE ~date /\ zone = EtcUTC
    <3>1. prop = DateProp(local, FALSE, TRUE, <<>>)
      BY <2>1, <2>5 DEF DateTimeProp
    <3>2. split = [local |-> local, zone |-> EtcUTC, kind |-> "utc", instant |-> {local}]
      <4> HIDE DEF prop, split
      <4>1. ~prop.date /\ prop.z /\ prop.wall = local
        BY <3>1 DEF DateProp
      <4>2. QED
        BY <2>3, <4>1 DEF Split
    <3>3. QED
      BY <1>2, <1>4, <2>2, <2>5, <3>2
  <2>6. CASE ~date /\ zone # EtcUTC /\ BareTZID(zone) # <<>>
    <3>1. prop = DateProp(local, FALSE, FALSE, BareTZID(zone))
      BY <2>1, <2>6 DEF DateTimeProp
    <3>2. split.local = local /\ split.zone = BareTZID(zone) /\ split.kind = "zoned"
      <4> HIDE DEF prop, split
      <4>1. ~prop.date /\ ~prop.z /\ prop.wall = local /\ prop.tzid = BareTZID(zone)
        BY <3>1 DEF DateProp
      <4>2. QED
        BY <2>3, <2>6, <4>1 DEF Split
    <3>3. QED
      BY <1>4, <2>2, <2>6, <3>2
  <2>7. CASE ~date /\ zone # EtcUTC /\ BareTZID(zone) = <<>>
    <3>1. prop = DateProp(local, FALSE, FALSE, BareTZID(zone))
      BY <2>1, <2>7 DEF DateTimeProp
    <3>2. split = [local |-> local, zone |-> Floating, kind |-> "local", instant |-> {}]
      <4> HIDE DEF prop, split
      <4>1. ~prop.date /\ ~prop.z /\ prop.wall = local /\ prop.tzid = <<>>
        BY <2>7, <3>1 DEF DateProp
      <4>2. QED
        BY <2>3, <4>1 DEF Split
    <3>3. QED
      BY <1>2, <1>4, <2>2, <2>7, <3>2
  <2>8. QED
    BY <2>4, <2>5, <2>6, <2>7
<1>5. QED
  BY <1>3, <1>4

(***************************************************************************)
(* An object comes back as it was when its zone does.                      *)
(***************************************************************************)
ZoneKept(object, available) ==
  /\ AttachedZone(BareTZID(object.timeZone), available) = object.timeZone
  /\ Attached(object.timeZone, available) = object.timeZones

LEMMA TimesReturn ==
  ASSUME NEW object, IsReturned(object), TimesPlain(object)
  PROVE  LET start == SplitOf(DateTimeOf(object, object.start))
             due   == SplitOf(DateTimeOf(object, object.due))
         IN  /\ start.local = object.start /\ due.local = object.due
             /\ object.kind = "Event" => start.zone = BareTZID(object.timeZone)
                                         /\ object.allDay = (start.kind = "date")
             /\ ZoneOf(start, due) = BareTZID(object.timeZone)
             /\ object.allDay = AllDay(start, due)
             /\ DateTimeOf(object, object.start) = Absent <=> object.start = Absent
<1> DEFINE start == SplitOf(DateTimeOf(object, object.start))
           due == SplitOf(DateTimeOf(object, object.due))
           bare == BareTZID(object.timeZone)
           date == object.allDay /\ object.timeZone = Floating
<1>1. /\ object.start \in Maybe(Int) /\ object.due \in Maybe(Int) /\ object.allDay \in BOOLEAN
      /\ object.kind = "Event" => object.due = Absent
  BY DEF IsReturned, IsCalendarObject
<1>2. /\ start.kind = "date" <=> object.start # Absent /\ date
      /\ start.local = IF object.start # Absent /\ date THEN Midnight(object.start) ELSE object.start
      /\ start.zone = IF object.start = Absent THEN Floating ELSE bare
      /\ DateTimeOf(object, object.start) = Absent <=> object.start = Absent
  BY <1>1, SplitOfDateTime
<1>3. /\ due.kind = "date" <=> object.due # Absent /\ date
      /\ due.local = IF object.due # Absent /\ date THEN Midnight(object.due) ELSE object.due
      /\ due.zone = IF object.due = Absent THEN Floating ELSE bare
  BY <1>1, SplitOfDateTime
<1>4. /\ object.timeZone # Floating \/ object.allDay => {object.start, object.due} # {Absent}
      /\ object.allDay => object.timeZone = Floating
           /\ \A t \in {object.start, object.due} \ {Absent} : t = Midnight(t)
  BY DEF TimesPlain
<1>5. bare # Floating => object.timeZone # Floating
  <2>1. ~IsCustom(Floating)
    BY ICalTimeAssumption DEF IsCustom
  <2>2. QED
    BY <2>1 DEF BareTZID
<1>6. date = object.allDay
  BY <1>1, <1>4
<1> HIDE DEF start, due, bare, date
<1>7. start.local = object.start /\ due.local = object.due
  BY <1>2, <1>3, <1>4, <1>6
<1>8. object.kind = "Event" => start.zone = bare /\ object.allDay = (start.kind = "date")
  BY <1>1, <1>2, <1>4, <1>5, <1>6
<1>9. ZoneOf(start, due) = bare
  BY <1>2, <1>3, <1>4, <1>5 DEF ZoneOf
<1>10. object.allDay = AllDay(start, due)
  <2>1. CASE object.allDay
    <3>1. object.timeZone = Floating /\ bare = Floating
      <4>1. ~IsCustom(Floating)
        BY ICalTimeAssumption DEF IsCustom
      <4>2. QED
        BY <1>4, <2>1, <4>1 DEF BareTZID, bare
    <3>2. start.zone = Floating /\ (start.kind = "date" \/ due.kind = "date")
      BY <1>2, <1>3, <1>4, <1>6, <2>1, <3>1
    <3>3. QED
      BY <2>1, <3>2 DEF AllDay
  <2>2. CASE ~object.allDay
    BY <1>1, <1>2, <1>3, <1>6, <2>2 DEF AllDay
  <2>3. QED
    BY <1>1, <2>1, <2>2
<1>11. QED
  BY <1>2, <1>7, <1>8, <1>9, <1>10 DEF start, due, bare

LEMMA ObjectReturns ==
  ASSUME NEW object, IsReturned(object), FieldsPlain(object),
         NEW available, ZoneKept(object, available)
  PROVE  Imported(Exported(object), available) = object
<1> DEFINE comp == Exported(object)
           back == Imported(comp, available)
<1>1. IsExported(comp, object) /\ IsImported(back, comp, available)
  BY ExportedFields, ImportedFields DEF IsReturned
<1> HIDE DEF comp, back
<1>2. HasFields(object) /\ HasFields(back)
  BY <1>1 DEF IsReturned, IsCalendarObject, IsImported
<1>3. object.kind \in {"Event", "Task"} /\ (object.kind = "Event" => object.due = Absent /\ object.percent = Absent)
  BY DEF IsReturned, IsObject, IsCalendarObject
<1>4. comp.name = "VTODO" <=> object.kind = "Task"
  BY <1>1 DEF IsExported
<1>5. /\ back.kind = object.kind /\ back.uid = object.uid /\ back.title = object.title
      /\ back.created = object.created /\ back.updated = object.updated
  BY <1>1, <1>3, <1>4 DEF IsExported, IsImported, Updated, FieldsPlain
<1>6. back.sequence = object.sequence
  <2>1. object.sequence \in Int /\ Absent \notin Int
    BY ICalTimeAssumption DEF IsReturned, IsCalendarObject
  <2>2. /\ comp.sequence = IF object.sequence = 0 THEN Absent ELSE object.sequence
        /\ back.sequence = IF comp.sequence = Absent THEN 0 ELSE comp.sequence
    BY <1>1 DEF IsExported, IsImported
  <2>3. QED
    BY <2>1, <2>2
<1>7. back.privacy = object.privacy
  <2>1. /\ object.privacy \in Maybe(Tokens) /\ Lowered(object.privacy) /\ object.privacy # "confidential"
        /\ Verbatim(object.privacy)
        /\ comp.class = IF object.privacy = Absent THEN Absent ELSE Quoted[ClassFromPrivacy(object.privacy)]
        /\ back.privacy = IF comp.class = Absent THEN Absent ELSE PrivacyFromClass(comp.class)
    BY <1>1 DEF IsReturned, IsCalendarObject, FieldsPlain, VerbatimTokens, IsExported, IsImported, Class
  <2>2. QED
    BY <2>1, PrivacyReturns DEF Maybe
<1>8. back.status = object.status
  <2>1. /\ object.status \in Maybe(Tokens) /\ Lowered(object.status) /\ Verbatim(object.status)
        /\ comp.status = StatusOf(object) /\ back.status = Status(comp)
    BY <1>1 DEF IsReturned, IsCalendarObject, FieldsPlain, VerbatimTokens, IsExported, IsImported
  <2>2. QED
    BY <2>1, TokenReturns DEF Maybe, Status, StatusOf
<1>9. back.keywords = object.keywords
  <2>1. /\ object.keywords \in [DOMAIN object.keywords -> BOOLEAN]
        /\ \A k \in DOMAIN object.keywords : object.keywords[k]
        /\ comp.categories = {k \in DOMAIN object.keywords : object.keywords[k]}
        /\ back.keywords = [k \in comp.categories |-> TRUE]
    BY <1>1 DEF IsReturned, IsCalendarObject, FieldsPlain, IsExported, IsImported
  <2>2. comp.categories = DOMAIN object.keywords /\ \A k \in DOMAIN object.keywords : object.keywords[k] = TRUE
    BY <2>1
  <2>3. object.keywords = [k \in DOMAIN object.keywords |-> TRUE]
    BY <2>1, <2>2
  <2>4. QED
    BY <2>1, <2>2, <2>3
<1>10. back.locations = object.locations /\ back.links = object.links
  <2>1. /\ IsMap(object.locations) /\ IsMap(object.links)
        /\ SinglePlain(object.locations) /\ SinglePlain(object.links)
        /\ comp.location = FirstValue(object.locations) /\ comp.url = FirstValue(object.links)
        /\ back.locations = Single(comp.location) /\ back.links = Single(comp.url)
    BY <1>1 DEF IsReturned, IsCalendarObject, FieldsPlain, IsExported, IsImported
  <2>2. QED
    BY <2>1, SingleReturns
<1>11. back.participants = object.participants
  <2>1. /\ object.participants \in [DOMAIN object.participants -> People]
        /\ ParticipantsPlain(object.participants)
        /\ comp.organizer = Organizer(object.participants) /\ comp.attendees = Attendees(object.participants)
        /\ back.participants = ParticipantsFrom(comp)
    BY <1>1 DEF IsReturned, IsCalendarObject, FieldsPlain, IsExported, IsImported
  <2>2. QED
    BY <2>1, ParticipantsReturn
<1>12. back.alerts = object.alerts
  <2>1. /\ object.alerts \in [DOMAIN object.alerts -> Alerts]
        /\ HasIds(object.alerts, 1)
        /\ \A id \in DOMAIN object.alerts :
             AlertPlain(object.alerts[id]) /\ Verbatim(object.alerts[id].action)
        /\ comp.alarms = Alarms(object.alerts) /\ back.alerts = AlertsFrom(comp)
    BY <1>1 DEF IsReturned, IsCalendarObject, FieldsPlain, VerbatimTokens, IsExported, IsImported
  <2>2. QED
    BY <2>1, AlertsReturn
<1>13. back.rules = object.rules /\ back.excluded = object.excluded
  <2>1. /\ AreRules(object.rules) /\ AreRules(object.excluded)
        /\ PlainRules(object.rules) /\ PlainRules(object.excluded)
        /\ comp.rrules = Strings(object.rules) /\ comp.exrules = Strings(object.excluded)
        /\ back.rules = [i \in DOMAIN comp.rrules |-> RuleFrom(comp.rrules[i])]
        /\ back.excluded = [i \in DOMAIN comp.exrules |-> RuleFrom(comp.exrules[i])]
    BY <1>1 DEF IsReturned, IsCalendarObject, FieldsPlain, IsExported, IsImported
  <2>2. QED
    BY <2>1, RulesReturn
<1>14. TimesPlain(object)
  BY DEF FieldsPlain
<1> DEFINE start == SplitOf(DateTimeOf(object, object.start))
           due == SplitOf(DateTimeOf(object, object.due))
<1>15. /\ start.local = object.start /\ due.local = object.due
       /\ object.kind = "Event" => start.zone = BareTZID(object.timeZone)
                                   /\ object.allDay = (start.kind = "date")
       /\ ZoneOf(start, due) = BareTZID(object.timeZone)
       /\ object.allDay = AllDay(start, due)
       /\ DateTimeOf(object, object.start) = Absent <=> object.start = Absent
  BY <1>14, TimesReturn
<1>16. /\ SplitOf(comp.start) = start
       /\ comp.name = "VTODO" => SplitOf(comp.due) = due
       /\ comp.start = DateTimeOf(object, object.start)
       /\ comp.end = Absent /\ comp.duration = DurationOf(object)
       /\ comp.percent = IF object.kind = "Task" THEN object.percent ELSE Absent
  BY <1>1, <1>4 DEF IsExported
<1> HIDE DEF start, due
<1>17. /\ back.start = SplitOf(comp.start).local
       /\ back.due = IF comp.name = "VTODO" THEN SplitOf(comp.due).local ELSE Absent
       /\ back.timeZone = AttachedZone(ZoneOfComponent(comp), available)
       /\ back.allDay = IF comp.name = "VTODO" THEN AllDay(SplitOf(comp.start), SplitOf(comp.due))
                        ELSE SplitOf(comp.start).kind = "date"
       /\ back.duration = IF comp.name = "VTODO" THEN comp.duration ELSE EventDuration(comp)
       /\ back.percent = IF comp.name = "VTODO" THEN comp.percent ELSE Absent
       /\ back.timeZones = Attached(AttachedZone(ZoneOfComponent(comp), available), available)
  BY <1>1 DEF IsImported
<1>18. back.start = object.start /\ back.due = object.due /\ back.percent = object.percent
  BY <1>3, <1>4, <1>15, <1>16, <1>17
<1>19. back.allDay = object.allDay
  <2>1. CASE comp.name = "VTODO"
    BY <1>15, <1>16, <1>17, <2>1
  <2>2. CASE comp.name # "VTODO"
    BY <1>3, <1>4, <1>15, <1>16, <1>17, <2>2
  <2>3. QED
    BY <2>1, <2>2
<1>20. ZoneOfComponent(comp) = BareTZID(object.timeZone)
  BY <1>3, <1>4, <1>15, <1>16 DEF ZoneOfComponent
<1>21. back.timeZone = object.timeZone /\ back.timeZones = object.timeZones
  BY <1>17, <1>20 DEF ZoneKept
<1>22. back.duration = object.duration
  <2>1. /\ object.duration # Absent => ~IsZero(object.duration)
        /\ object.kind = "Event" /\ object.duration # Absent => object.start # Absent
    BY <1>14 DEF TimesPlain
  <2>2. comp.duration = object.duration
    BY <1>16, <2>1 DEF DurationOf
  <2>3. comp.start = Absent => comp.name = "VTODO" \/ object.duration = Absent
    BY <1>3, <1>4, <1>15, <1>16, <2>1
  <2>4. comp.start # Absent => EventDuration(comp) = comp.duration
    BY <1>16 DEF EventDuration, DeriveDuration
  <2>5. comp.start = Absent => EventDuration(comp) = Absent
    BY DEF EventDuration
  <2>6. QED
    BY <1>17, <2>2, <2>3, <2>4, <2>5
<1>23. \A f \in FieldNames : back[f] = object[f]
  BY <1>5, <1>6, <1>7, <1>8, <1>9, <1>10, <1>11, <1>12, <1>13, <1>18, <1>19, <1>21, <1>22 DEF FieldNames
<1>24. back = object
  BY <1>2, <1>23 DEF HasFields
<1>25. QED
  BY <1>24 DEF back, comp

(***************************************************************************)
(* The zones of a calendar come back with their definitions when each id   *)
(* is that of its definition, and all the objects agree on them.           *)
(***************************************************************************)
KeptZone(id, tz) ==
  /\ ToSet(tz.tzId) \cap Special = {} /\ CustomTimeZoneID(tz.tzId) = id
  /\ \A rule \in ToSet(tz.standard) \cup ToSet(tz.daylight) : PlainZoneRule(rule)

LEMMA ZonesReturn ==
  ASSUME BridgeInv, phase = "objects", Ours, AgreeOnZones(given),
         \A k \in DOMAIN given : \A id \in DOMAIN given[k].timeZones : KeptZone(id, given[k].timeZones[id])
  PROVE  /\ \A id \in DOMAIN zones : \E k \in DOMAIN given : id \in DOMAIN given[k].timeZones
         /\ \A k \in DOMAIN given : \A id \in DOMAIN given[k].timeZones :
              id \in DOMAIN zones /\ zones[id] = given[k].timeZones[id]
<1>1. /\ CalendarShaped /\ Built /\ Gathered(Len(calendar))
      /\ \A k \in DOMAIN given : \A id \in DOMAIN given[k].timeZones : Emitted(id)
  BY DEF BridgeInv, Finished, Importing
<1>2. DOMAIN calendar = 1 .. Len(calendar)
  BY <1>1, ListFacts DEF CalendarShaped
<1>3. ASSUME NEW k \in DOMAIN given, NEW id \in DOMAIN given[k].timeZones
      PROVE  LET comp == ZoneComponent(given[k].timeZones[id])
             IN  /\ IsZone(comp) /\ CustomTimeZoneID(comp.tzid) = id
                 /\ ZoneFrom(comp) = given[k].timeZones[id]
  <2> DEFINE tz == given[k].timeZones[id]
  <2>1. IsTimeZone(tz) /\ KeptZone(id, tz)
    BY <1>1 DEF Built, IsReturned, IsCalendarObject
  <2> HIDE DEF tz
  <2>2. ZoneFrom(ZoneComponent(tz)) = tz
    BY <2>1, ZoneReturns DEF KeptZone
  <2>3. ZoneComponent(tz).tzid = tz.tzId
    BY <2>1, EscapedShape DEF ZoneComponent, KeptZone, IsTimeZone
  <2>4. IsZone(ZoneComponent(tz))
    BY DEF IsZone, ZoneComponent
  <2>5. QED
    BY <2>1, <2>2, <2>3, <2>4 DEF KeptZone, tz
<1>4. ASSUME NEW id \in DOMAIN zones
      PROVE  \E k \in DOMAIN given : id \in DOMAIN given[k].timeZones /\ zones[id] = given[k].timeZones[id]
  <2>1. PICK j \in 1 .. Len(calendar) : /\ IsZone(calendar[j]) /\ id = CustomTimeZoneID(calendar[j].tzid)
                                        /\ zones[id] = ZoneFrom(calendar[j])
    BY <1>1 DEF Gathered
  <2>2. PICK k \in DOMAIN given : \E own \in DOMAIN given[k].timeZones :
          calendar[j] = ZoneComponent(given[k].timeZones[own])
    BY <1>1, <1>2, <2>1 DEF Built
  <2>3. PICK own \in DOMAIN given[k].timeZones : calendar[j] = ZoneComponent(given[k].timeZones[own])
    BY <2>2
  <2>4. own = id /\ zones[id] = given[k].timeZones[own]
    BY <1>3, <2>1, <2>3
  <2>5. QED
    BY <2>4
<1>5. ASSUME NEW k \in DOMAIN given, NEW id \in DOMAIN given[k].timeZones
      PROVE  id \in DOMAIN zones /\ zones[id] = given[k].timeZones[id]
  <2>1. PICK j \in DOMAIN calendar, other \in DOMAIN given :
          id \in DOMAIN given[other].timeZones /\ calendar[j] = ZoneComponent(given[other].timeZones[id])
    BY <1>1 DEF Emitted
  <2>2. IsZone(calendar[j]) /\ CustomTimeZoneID(calendar[j].tzid) = id
    BY <1>3, <2>1
  <2>3. id \in DOMAIN zones
    BY <1>1, <1>2, <2>1, <2>2 DEF Gathered
  <2>4. PICK third \in DOMAIN given :
          id \in DOMAIN given[third].timeZones /\ zones[id] = given[third].timeZones[id]
    BY <1>4, <2>3
  <2>5. given[third].timeZones[id] = given[k].timeZones[id]
    BY <2>4 DEF AgreeOnZones
  <2>6. QED
    BY <2>3, <2>4, <2>5
<1>6. QED
  BY <1>4, <1>5

LEMMA ObjectsReturn ==
  ASSUME BridgeInv, phase = "objects", Ours,
         \A i \in DOMAIN given : FieldsPlain(given[i]) /\ ZoneKept(given[i], zones)
  PROVE  objects = given
<1>1. Built
  BY DEF BridgeInv, Finished
<1>2. /\ IsList(given) /\ \A i \in DOMAIN given : IsReturned(given[i])
      /\ Converted = [i \in DOMAIN given |-> Exported(given[i])]
  BY <1>1 DEF Built
<1>3. objects = [i \in DOMAIN Converted |-> Imported(Converted[i], zones)]
  BY ReturnedObjects
<1>4. \A i \in DOMAIN given : Imported(Exported(given[i]), zones) = given[i]
  BY <1>2, ObjectReturns
<1>5. objects = [i \in DOMAIN given |-> given[i]]
  BY <1>2, <1>3, <1>4
<1>6. given = [i \in DOMAIN given |-> given[i]]
  BY <1>2, ListFacts
<1>7. QED
  BY <1>5, <1>6

LEMMA CustomOf ==
  ASSUME NEW id \in Seq(Chars), IsCustom(id), PlainId(id)
  PROVE  /\ Tail(id) # Floating /\ BareTZID(id) = Tail(id) /\ CustomTimeZoneID(Tail(id)) = id
         /\ ToSet(Tail(id)) \subseteq ToSet(id)
<1>1. id # <<>> /\ Head(id) = Slash /\ Tail(id) # <<>> /\ ~IsCustom(Tail(id))
  BY DEF IsCustom, PlainId, PlainName
<1>2. Floating = <<>>
  BY ICalTimeAssumption
<1>3. <<Slash>> \o Tail(id) = id
  <2>1. Len(id) \in Nat \ {0} /\ id = [i \in 1 .. Len(id) |-> id[i]] /\ id[1] = Slash
    BY <1>1
  <2>2. Len(<<Slash>> \o Tail(id)) = Len(id) /\ <<Slash>> \o Tail(id) \in Seq(Chars)
    BY <1>1, <2>1, ICalTimeAssumption
  <2>3. ASSUME NEW i \in 1 .. Len(id) PROVE (<<Slash>> \o Tail(id))[i] = id[i]
    <3>1. CASE i = 1
      BY <2>1, <3>1
    <3>2. CASE i # 1
      <4>1. i - 1 \in 1 .. Len(id) - 1 /\ Tail(id)[i - 1] = id[(i - 1) + 1]
        BY <1>1, <2>1, <3>2
      <4>2. (<<Slash>> \o Tail(id))[i] = Tail(id)[i - 1]
        BY <1>1, <2>1, <3>2
      <4>3. QED
        BY <4>1, <4>2
    <3>3. QED
      BY <3>1, <3>2
  <2>4. QED
    BY <2>1, <2>2, <2>3
<1>4. ToSet(Tail(id)) \subseteq ToSet(id)
  <2>1. \A i \in DOMAIN Tail(id) : i + 1 \in DOMAIN id /\ Tail(id)[i] = id[i + 1]
    BY <1>1
  <2>2. QED
    BY <2>1 DEF ToSet
<1>5. QED
  BY <1>1, <1>2, <1>3, <1>4 DEF BareTZID, CustomTimeZoneID

LEMMA CustomKept ==
  ASSUME NEW object, IsReturned(object), IsCustom(object.timeZone), PlainId(object.timeZone),
         DOMAIN object.timeZones = {object.timeZone}, NEW available,
         object.timeZone \in DOMAIN available,
         available[object.timeZone] = object.timeZones[object.timeZone]
  PROVE  ZoneKept(object, available)
<1> DEFINE zone == object.timeZone
<1>1. zone \in Seq(Chars) /\ IsMap(object.timeZones)
  BY DEF IsReturned, IsCalendarObject
<1>2. /\ Tail(zone) # Floating /\ BareTZID(zone) = Tail(zone) /\ CustomTimeZoneID(Tail(zone)) = zone
      /\ ~IsCustom(Tail(zone)) /\ ~LoadsLocation(Tail(zone))
  BY <1>1, CustomOf DEF PlainId, PlainName
<1> HIDE DEF zone
<1>3. AttachedZone(Tail(zone), available) = zone
  BY <1>2 DEF AttachedZone, zone
<1>4. Attached(zone, available) = Entry(zone, object.timeZones[zone])
  BY DEF Attached, zone
<1>5. Entry(zone, object.timeZones[zone]) = object.timeZones
  BY <1>1 DEF IsMap, Entry, zone
<1>6. QED
  BY <1>2, <1>3, <1>4, <1>5 DEF ZoneKept, zone

LEMMA ZonePlainKept ==
  ASSUME NEW object, IsReturned(object), ZonePlain(object), NEW available,
         \A id \in DOMAIN object.timeZones : id \in DOMAIN available /\ available[id] = object.timeZones[id]
  PROVE  ZoneKept(object, available)
<1> DEFINE zone == object.timeZone
<1>1. zone \in Seq(Chars) /\ IsMap(object.timeZones)
  BY DEF IsReturned, IsCalendarObject
<1>2. CASE IsCustom(zone)
  <2>1. DOMAIN object.timeZones = {zone} /\ PlainId(zone)
    BY <1>2 DEF ZonePlain, PlainZone
  <2>2. zone \in DOMAIN available /\ available[zone] = object.timeZones[zone]
    BY <2>1
  <2>3. QED
    BY <1>2, <2>1, <2>2, CustomKept
<1>3. CASE ~IsCustom(zone)
  <2>1. object.timeZones = Empty /\ (zone = Floating \/ LoadsLocation(zone)) /\ BareTZID(zone) = zone
    BY <1>3 DEF ZonePlain, BareTZID
  <2>2. zone = Floating => AttachedZone(zone, available) = zone
    BY DEF AttachedZone
  <2>3. LoadsLocation(zone) => AttachedZone(zone, available) = zone
    BY ZoneLoads
  <2>4. Attached(zone, available) = Empty
    BY <1>3 DEF Attached
  <2>5. QED
    BY <2>1, <2>2, <2>3, <2>4 DEF ZoneKept
<1>4. QED
  BY <1>2, <1>3

(***************************************************************************)
(* What is portable comes back: ToICal and FromICal lose nothing of        *)
(* objects, however many and whatever their zones, that hold none of the   *)
(* lossy constructs.                                                       *)
(***************************************************************************)
THEOREM NothingLost ==
  Spec => []Lossless
<1>1. BridgeInv => Lossless
  <2> SUFFICES ASSUME BridgeInv, phase = "objects", given # Absent, AgreeOnZones(given),
                      \A i \in DOMAIN given : Portable(given[i])
               PROVE  objects = given
    BY DEF Lossless
  <2>1. Ours
    BY DEF Ours
  <2>2. \A i \in DOMAIN given : IsReturned(given[i])
    BY <2>1 DEF BridgeInv, Finished, Built
  <2>3. ASSUME NEW k \in DOMAIN given, NEW id \in DOMAIN given[k].timeZones
        PROVE  KeptZone(id, given[k].timeZones[id])
    <3> DEFINE object == given[k]
               tz == given[k].timeZones[id]
    <3>1. IsReturned(object) /\ ZonePlain(object)
      BY <2>2 DEF Portable
    <3>2. IsCustom(object.timeZone) /\ id = object.timeZone /\ PlainZone(id, tz)
      BY <3>1 DEF ZonePlain, Empty
    <3>3. id \in Seq(Chars)
      BY <3>1, <3>2 DEF IsReturned, IsCalendarObject
    <3> HIDE DEF object, tz
    <3>4. PlainId(id) /\ IsCustom(id) /\ tz.tzId = Tail(id)
      BY <3>2 DEF PlainZone
    <3>5. ToSet(tz.tzId) \cap Special = {} /\ CustomTimeZoneID(tz.tzId) = id
      BY <3>3, <3>4, CustomOf DEF PlainId, Unescaped
    <3>6. \A rule \in ToSet(tz.standard) \cup ToSet(tz.daylight) : PlainZoneRule(rule)
      BY <3>2 DEF PlainZone, PlainZoneRule
    <3>7. QED
      BY <3>5, <3>6 DEF KeptZone, tz
  <2>4. \A k \in DOMAIN given : \A id \in DOMAIN given[k].timeZones :
          id \in DOMAIN zones /\ zones[id] = given[k].timeZones[id]
    BY <2>1, <2>3, ZonesReturn
  <2>5. \A i \in DOMAIN given : FieldsPlain(given[i]) /\ ZoneKept(given[i], zones)
    BY <2>2, <2>4, ZonePlainKept DEF Portable
  <2>6. QED
    BY <2>1, <2>5, ObjectsReturn
<1>2. QED
  BY <1>1, BridgeCorrect, PTL

-----------------------------------------------------------------------------
(***************************************************************************)
(* What an object has once it was written and read, whatever it had        *)
(* before: all that FieldsPlain asks, but for the order of its ids.        *)
(***************************************************************************)
Role(id) == IF id = Ordinals[1] THEN "owner" ELSE "attendee"

Numbered(people) ==
  \E first \in {1, 2}, n \in Nat :
    /\ DOMAIN people = {Ordinals[i] : i \in first .. n}
    /\ n <= Len(Ordinals) => \A id \in DOMAIN people : ParticipantPlain(people[id], Role(id))

SettledFields(object) ==
  /\ object.updated # Absent
  /\ \A k \in DOMAIN object.keywords : object.keywords[k]
  /\ Lowered(object.privacy) /\ object.privacy # "confidential" /\ Lowered(object.status)
  /\ PlainRules(object.rules) /\ PlainRules(object.excluded)
  /\ TimesPlain(object)
  /\ Numbered(object.participants)
  /\ \E n \in Nat : DOMAIN object.alerts = {Ordinals[i] : i \in 1 .. n}
  /\ \A id \in DOMAIN object.alerts : AlertPlain(object.alerts[id])
  /\ SinglePlain(object.locations) /\ SinglePlain(object.links)

OwnZone(object) ==
  \A id \in DOMAIN object.timeZones :
    LET tz == object.timeZones[id]
    IN  /\ id = object.timeZone /\ IsCustom(id) /\ CustomTimeZoneID(tz.tzId) = id
        /\ \A rule \in ToSet(tz.standard) \cup ToSet(tz.daylight) : PlainZoneRule(rule)

Settled(object) == IsReturned(object) /\ SettledFields(object) /\ OwnZone(object)

LEMMA LoweredOnce ==
  ASSUME NEW token \in Tokens
  PROVE  Lower[token] \in Tokens /\ Lowered(Lower[token]) /\ Lower[token] # Absent
BY TokensAssumption DEF Lowered

LEMMA PrivacySettles ==
  ASSUME NEW class \in Tokens
  PROVE  Lowered(PrivacyFromClass(class)) /\ PrivacyFromClass(class) # "confidential"
<1>1. /\ {"PUBLIC", "PRIVATE", "CONFIDENTIAL"} \subseteq Tokens
      /\ Lower["PUBLIC"] = "public" /\ Lower["PRIVATE"] = "private"
      /\ Lower["CONFIDENTIAL"] = "confidential" /\ Lower["secret"] = "secret"
      /\ Upper["CONFIDENTIAL"] = "CONFIDENTIAL"
  BY TokensAssumption
<1>2. CASE Upper[class] = "PUBLIC"
  BY <1>1, <1>2, LoweredOnce DEF PrivacyFromClass
<1>3. CASE Upper[class] = "PRIVATE"
  BY <1>1, <1>3, LoweredOnce DEF PrivacyFromClass
<1>4. CASE Upper[class] = "CONFIDENTIAL"
  BY <1>1, <1>4 DEF PrivacyFromClass, Lowered
<1>5. CASE Upper[class] \notin {"PUBLIC", "PRIVATE", "CONFIDENTIAL"}
  <2>1. PrivacyFromClass(class) = Lower[class]
    BY <1>5 DEF PrivacyFromClass
  <2>2. Upper[Lower[class]] = Upper[class] /\ Upper[Lower["CONFIDENTIAL"]] = Upper["CONFIDENTIAL"]
    BY <1>1, TokensAssumption
  <2>3. Lower[class] # "confidential"
    BY <1>1, <1>5, <2>2
  <2>4. QED
    BY <2>1, <2>3, LoweredOnce
<1>6. QED
  BY <1>2, <1>3, <1>4, <1>5

LEMMA RuleSettles ==
  ASSUME NEW parts, IsText(parts)
  PROVE  PlainRule(RuleFrom(parts))
<1> DEFINE at(key) == {i \in DOMAIN parts : parts[i].key = key}
<1>1. Len(parts) \in Nat /\ DOMAIN parts = 1 .. Len(parts)
  BY ListFacts DEF IsText
<1>2. ASSUME NEW key \in RuleKeys, RuleFrom(parts)[key] # Unset
      PROVE  \E i \in DOMAIN parts : parts[i].key = key /\ RuleFrom(parts)[key] = FieldValue(parts[i])
  <2>1. RuleFrom(parts)[key] = IF at(key) = {} THEN Unset ELSE FieldValue(parts[Max(at(key))])
    BY DEF RuleFrom, NoRule
  <2>2. at(key) # {} /\ at(key) \in SUBSET (1 .. Len(parts))
    BY <1>1, <1>2, <2>1
  <2>3. Max(at(key)) \in at(key)
    <3> HIDE DEF at
    <3>1. QED
      BY <1>1, <2>2, MaxOf
  <2>4. QED
    BY <2>1, <2>2, <2>3
<1>3. RuleFrom(parts)["INTERVAL"] # "0"
  <2> SUFFICES ASSUME RuleFrom(parts)["INTERVAL"] = "0" PROVE FALSE
    OBVIOUS
  <2>1. "INTERVAL" \in RuleKeys /\ "INTERVAL" \notin TokenKeys /\ Unset # "0"
    BY TokensAssumption DEF RuleKeys, RuleOrder, TokenKeys, ToSet
  <2>2. PICK i \in DOMAIN parts : parts[i].key = "INTERVAL" /\ RuleFrom(parts)["INTERVAL"] = FieldValue(parts[i])
    BY <1>2, <2>1
  <2>3. QED
    BY <2>1, <2>2 DEF FieldValue
<1>4. ASSUME NEW key \in TokenKeys, RuleFrom(parts)[key] # Unset
      PROVE  Lower[RuleFrom(parts)[key]] = RuleFrom(parts)[key]
  <2>1. key \in RuleKeys
    BY DEF RuleKeys, RuleOrder, TokenKeys, ToSet
  <2>2. PICK i \in DOMAIN parts : parts[i].key = key /\ RuleFrom(parts)[key] = FieldValue(parts[i])
    BY <1>2, <1>4, <2>1
  <2>3. parts[i].value \in Tokens \cup {Unset}
    BY <2>2 DEF IsText
  <2>4. CASE parts[i].value = Unset
    <3>1. key # "INTERVAL"
      BY DEF TokenKeys
    <3>2. FieldValue(parts[i]) = Unset
      BY <2>2, <2>4, <3>1 DEF FieldValue
    <3>3. QED
      BY <1>4, <2>2, <3>2
  <2>5. CASE parts[i].value \in Tokens
    <3>1. parts[i].value # Unset
      BY <2>5, TokensAssumption
    <3>2. FieldValue(parts[i]) = Lower[parts[i].value]
      BY <2>2, <3>1 DEF FieldValue
    <3>3. Lower[Lower[parts[i].value]] = Lower[parts[i].value]
      BY <2>5, TokensAssumption
    <3>4. QED
      BY <2>2, <3>2, <3>3
  <2>6. QED
    BY <2>3, <2>4, <2>5
<1>5. QED
  BY <1>3, <1>4 DEF PlainRule

LEMMA ZoneRuleSettles ==
  ASSUME NEW name, NEW rule, IsZoneRule(rule)
  PROVE  PlainZoneRule(ZoneRuleFrom(ZoneRuleComponent(name, rule)))
<1> DEFINE texts == Strings(rule.rules)
           back == ZoneRuleFrom(ZoneRuleComponent(name, rule))
<1>1. /\ back.offset = OffsetValue(ICalOffset(rule.offset))
      /\ back.rules = IF texts = <<>> THEN <<>> ELSE <<RuleFrom(Head(texts))>>
  BY DEF ZoneRuleFrom, ZoneRuleComponent
<1>2. back.offset # Absent => back.offset.form = "extended"
  <2>1. CASE rule.offset = Absent
    BY <1>1, <2>1 DEF OffsetValue, ICalOffset
  <2>2. CASE rule.offset # Absent
    <3> DEFINE basic == [rule.offset EXCEPT !.form = "basic"]
    <3>1. rule.offset \in Offsets
      BY <2>2 DEF IsZoneRule, Maybe
    <3>2. basic \in Offsets /\ basic.form = "basic" /\ [basic EXCEPT !.form = "extended"].form = "extended"
      BY <3>1 DEF Offsets, Text
    <3>3. basic # Absent
      BY <3>2, PartsAssumption
    <3>4. ICalOffset(rule.offset) = basic
      BY <2>2 DEF ICalOffset
    <3> HIDE DEF basic
    <3>5. OffsetValue(basic) = [basic EXCEPT !.form = "extended"]
      BY <3>2, <3>3 DEF OffsetValue
    <3>6. QED
      BY <1>1, <3>2, <3>4, <3>5
  <2>3. QED
    BY <2>1, <2>2
<1>3. AreTexts(texts)
  BY StringsShape DEF IsZoneRule
<1>4. Len(back.rules) <= 1 /\ PlainRules(back.rules)
  <2>1. CASE texts = <<>>
    BY <1>1, <2>1 DEF PlainRules
  <2>2. CASE texts # <<>>
    <3>1. 1 \in DOMAIN texts /\ Head(texts) = texts[1]
      BY <1>3, <2>2, ListFacts DEF AreTexts
    <3>2. PlainRule(RuleFrom(Head(texts)))
      BY <1>3, <3>1, RuleSettles DEF AreTexts
    <3>3. \A x : Len(<<x>>) = 1 /\ DOMAIN <<x>> = {1} /\ <<x>>[1] = x
      OBVIOUS
    <3> HIDE DEF texts, back
    <3>4. QED
      BY <1>1, <2>2, <3>2, <3>3 DEF PlainRules
  <2>3. QED
    BY <2>1, <2>2
<1> HIDE DEF back
<1>5. QED
  BY <1>2, <1>4 DEF PlainZoneRule, back

LEMMA ZoneSettles ==
  ASSUME NEW tz, IsTimeZone(tz)
  PROVE  LET back == ZoneFrom(ZoneComponent(tz))
         IN  \A rule \in ToSet(back.standard) \cup ToSet(back.daylight) : PlainZoneRule(rule)
<1> DEFINE back == ZoneFrom(ZoneComponent(tz))
           subs == ZoneComponent(tz).subs
           m == Len(tz.standard)
           n == Len(tz.daylight)
           at(name) == {i \in DOMAIN subs : subs[i].name = name}
           some(name) == Subsequence(subs, at(name))
           part(name) == [i \in DOMAIN some(name) |-> ZoneRuleFrom(some(name)[i])]
<1>1. /\ m \in Nat /\ n \in Nat /\ DOMAIN subs = 1 .. m + n
      /\ \A i \in 1 .. m : subs[i] = ZoneRuleComponent("STANDARD", tz.standard[i])
      /\ \A i \in 1 .. n : subs[m + i] = ZoneRuleComponent("DAYLIGHT", tz.daylight[i])
      /\ DOMAIN tz.standard = 1 .. m /\ DOMAIN tz.daylight = 1 .. n
  BY ZoneSubs
<1>2. back.standard = part("STANDARD") /\ back.daylight = part("DAYLIGHT")
  BY DEF ZoneFrom
<1>3. ASSUME NEW j \in DOMAIN subs PROVE PlainZoneRule(ZoneRuleFrom(subs[j]))
  <2>1. /\ \A i \in 1 .. m : IsZoneRule(tz.standard[i])
        /\ \A i \in 1 .. n : IsZoneRule(tz.daylight[i])
    BY <1>1 DEF IsTimeZone, AreZoneRules
  <2> HIDE DEF subs, m, n
  <2>2. CASE j \in 1 .. m
    BY <1>1, <2>1, <2>2, ZoneRuleSettles
  <2>3. CASE j \notin 1 .. m
    <3>1. j - m \in 1 .. n /\ j = m + (j - m)
      BY <1>1, <2>3
    <3>2. subs[j] = ZoneRuleComponent("DAYLIGHT", tz.daylight[j - m])
      BY <1>1, <3>1
    <3>3. QED
      BY <2>1, <3>1, <3>2, ZoneRuleSettles
  <2>4. QED
    BY <2>2, <2>3
<1> HIDE DEF subs, m, n, back
<1>4. ASSUME NEW name, NEW rule \in ToSet(part(name)) PROVE PlainZoneRule(rule)
  <2>1. PICK i \in DOMAIN some(name) : rule = ZoneRuleFrom(some(name)[i])
    BY DEF ToSet
  <2>2. at(name) \in SUBSET (1 .. m + n) /\ m + n \in Nat
    BY <1>1
  <2> DEFINE all == at(name)
  <2> HIDE DEF at
  <2>3. \A k \in DOMAIN Subsequence(subs, all) : \E j \in all : Subsequence(subs, all)[k] = subs[j]
    <3> HIDE DEF all
    <3>1. \A j \in all : subs[j] \in {subs[k] : k \in all}
      OBVIOUS
    <3>2. QED
      BY <2>2, <3>1, SubsequenceIsSequence DEF all
  <2>4. PICK j \in all : some(name)[i] = subs[j]
    BY <2>1, <2>3
  <2>5. j \in DOMAIN subs
    BY <2>4 DEF at
  <2>6. QED
    BY <1>3, <2>1, <2>4, <2>5
<1> HIDE DEF part
<1>5. QED
  BY <1>2, <1>4 DEF back

LEMMA SingleSettles ==
  ASSUME NEW value
  PROVE  SinglePlain(Single(value))
BY DEF SinglePlain, Single, Entry

LEMMA AlertSettles ==
  ASSUME NEW alert \in Alerts
  PROVE  AlertPlain(AlertFrom(AlarmFrom(alert)))
<1> DEFINE alarm == AlarmFrom(alert)
           back == AlertFrom(alarm)
<1>1. alert.action \in Maybe(Tokens) /\ alert.trigger \in Maybe(Triggers) \cup {Raw}
  BY DEF Alerts
<1>2. alarm.action = (IF alert.action = Absent THEN "DISPLAY" ELSE Quoted[Upper[alert.action]])
      /\ alarm.trigger = TriggerProp(alert.trigger)
  BY DEF AlarmFrom
<1>3. alarm.action \in Tokens /\ alarm.action # Absent
  BY <1>1, <1>2, TokensAssumption DEF Maybe
<1>4. back.action = (IF alarm.action = Absent THEN Absent ELSE Lower[alarm.action])
      /\ back.trigger = TriggerFrom(alarm.trigger)
  BY DEF AlertFrom
<1>5. back.action # Absent /\ Lowered(back.action)
  BY <1>3, <1>4, LoweredOnce
<1>6. alarm.trigger \in Maybe(Triggers)
  <2>1. ASSUME NEW trigger \in Triggers, NEW related \in Maybe(Text({"START", "END", "start", "end"}))
        PROVE  [trigger EXCEPT !.related = related] \in Triggers
    BY DEF Triggers
  <2>2. Absent \in Maybe(Text({"START", "END", "start", "end"}))
        /\ "END" \in Maybe(Text({"START", "END", "start", "end"}))
    BY DEF Maybe, Text
  <2>3. QED
    BY <1>1, <1>2, <2>1, <2>2 DEF TriggerProp, Maybe
<1> HIDE DEF alarm, back
<1>7. /\ back.trigger # Raw
      /\ back.trigger # Absent /\ ~back.trigger.absolute => back.trigger.related \in {Absent, "end"}
  <2> DEFINE prop == alarm.trigger
  <2>1. Raw \notin Triggers \cup {Absent}
    BY PartsAssumption
  <2>2. CASE prop = Absent \/ prop.absolute
    BY <1>4, <1>6, <2>1, <2>2 DEF TriggerFrom, Maybe
  <2>3. CASE prop # Absent /\ ~prop.absolute
    <3> DEFINE related == IF prop.related = "END" THEN "end" ELSE Absent
               trigger == [prop EXCEPT !.related = related]
    <3>1. prop \in Triggers
      BY <1>6, <2>3 DEF Maybe
    <3>2. trigger \in Triggers /\ trigger.related = related
      BY <3>1 DEF Triggers, Maybe, Text
    <3>3. back.trigger = trigger
      BY <1>4, <2>3 DEF TriggerFrom
    <3>4. related \in {Absent, "end"}
      OBVIOUS
    <3> HIDE DEF trigger, related
    <3>5. QED
      BY <2>1, <3>2, <3>3, <3>4
  <2>4. QED
    BY <2>2, <2>3
<1>8. QED
  BY <1>5, <1>7 DEF AlertPlain, back, alarm

LEMMA AlertsSettle ==
  ASSUME NEW alerts, alerts \in [DOMAIN alerts -> Alerts], NEW comp, comp.alarms = Alarms(alerts)
  PROVE  /\ \E n \in Nat : DOMAIN AlertsFrom(comp) = {Ordinals[i] : i \in 1 .. n}
         /\ \A id \in DOMAIN AlertsFrom(comp) : AlertPlain(AlertsFrom(comp)[id])
<1> DEFINE n == Len(comp.alarms)
           ids == SortedIDs(DOMAIN alerts)
<1>1. /\ Len(ids) \in Nat /\ DOMAIN ids = 1 .. Len(ids)
      /\ \A i \in DOMAIN ids : ids[i] \in DOMAIN alerts
  BY SortedIDsShape
<1>2. comp.alarms = [i \in DOMAIN ids |-> AlarmFrom(alerts[ids[i]])]
  BY DEF Alarms
<1> HIDE DEF ids
<1>3. n = Len(ids) /\ n \in Nat
  BY <1>1, <1>2
<1>4. AlertsFrom(comp) = [id \in {Ordinals[i] : i \in 1 .. n} |->
                            AlertFrom(comp.alarms[CHOOSE i \in 1 .. n : Ordinals[i] = id])]
  BY DEF AlertsFrom
<1> HIDE DEF n
<1>5. ASSUME NEW id \in {Ordinals[i] : i \in 1 .. n} PROVE AlertPlain(AlertsFrom(comp)[id])
  <2> DEFINE k == CHOOSE i \in 1 .. n : Ordinals[i] = id
  <2>1. k \in 1 .. n
    OBVIOUS
  <2>2. AlertsFrom(comp)[id] = AlertFrom(comp.alarms[k])
    BY <1>4
  <2> HIDE DEF k
  <2>3. comp.alarms[k] = AlarmFrom(alerts[ids[k]]) /\ alerts[ids[k]] \in Alerts
    BY <1>1, <1>2, <1>3, <2>1
  <2>4. QED
    BY <2>2, <2>3, AlertSettles
<1>6. DOMAIN AlertsFrom(comp) = {Ordinals[i] : i \in 1 .. n}
  BY <1>4
<1>7. QED
  BY <1>3, <1>5, <1>6

LEMMA PersonSettles ==
  ASSUME NEW p, Address(p) # Absent, NEW role
  PROVE  ParticipantPlain(ParticipantFrom(CalAddress(p), role), role)
BY DEF ParticipantPlain, ParticipantFrom, CalAddress

LEMMA PeopleSettle ==
  ASSUME NEW people, people \in [DOMAIN people -> People],
         NEW comp, comp.organizer = Organizer(people), comp.attendees = Attendees(people)
  PROVE  Numbered(ParticipantsFrom(comp))
<1> DEFINE owners == Owners(people)
           rest == {id \in Addressed(people) : owners = <<>> \/ id # Head(owners)}
           sorted == SortedIDs(rest)
           organizer == IF comp.organizer = Absent THEN Empty
                        ELSE Entry(Ordinals[1], ParticipantFrom(comp.organizer, "owner"))
           ids == {Ordinals[i + 1] : i \in DOMAIN comp.attendees}
           at(id) == CHOOSE i \in DOMAIN comp.attendees : Ordinals[i + 1] = id
           others == [id \in ids |-> ParticipantFrom(comp.attendees[at(id)], "attendee")]
           m == Len(sorted)
           n == m + 1
           first == IF comp.organizer = Absent THEN 2 ELSE 1
<1>1. m \in Nat /\ DOMAIN sorted = 1 .. m /\ \A i \in DOMAIN sorted : sorted[i] \in Addressed(people)
  BY SortedIDsShape
<1>2. comp.attendees = [i \in DOMAIN sorted |-> CalAddress(people[sorted[i]])]
  BY DEF Attendees
<1>3. DOMAIN comp.attendees = 1 .. m
  BY <1>1, <1>2
<1>4. ParticipantsFrom(comp) = Over(organizer, others)
  BY DEF ParticipantsFrom
<1>5. DOMAIN others = ids /\ ids = {Ordinals[i] : i \in 2 .. n}
  <2>1. \A i \in 1 .. m : i + 1 \in 2 .. n
    BY <1>1
  <2>2. \A i \in 2 .. n : i - 1 \in 1 .. m /\ (i - 1) + 1 = i
    BY <1>1
  <2> HIDE DEF m, n, sorted
  <2>3. ids = {Ordinals[i] : i \in 2 .. n}
    BY <1>3, <2>1, <2>2
  <2>4. QED
    BY <2>3
<1>6. \A id \in ids : ParticipantPlain(others[id], "attendee")
  <2> SUFFICES ASSUME NEW id \in ids PROVE ParticipantPlain(others[id], "attendee")
    OBVIOUS
  <2> DEFINE k == at(id)
  <2>1. k \in DOMAIN comp.attendees
    OBVIOUS
  <2>2. others[id] = ParticipantFrom(comp.attendees[k], "attendee")
    OBVIOUS
  <2> HIDE DEF k, others, sorted
  <2>3. sorted[k] \in Addressed(people) /\ comp.attendees[k] = CalAddress(people[sorted[k]])
    BY <1>1, <1>2, <1>3, <2>1
  <2>4. Address(people[sorted[k]]) # Absent
    BY <2>3 DEF Addressed
  <2>5. QED
    BY <2>2, <2>3, <2>4, PersonSettles
<1>7. comp.organizer # Absent =>
        DOMAIN organizer = {Ordinals[1]} /\ ParticipantPlain(organizer[Ordinals[1]], "owner")
  <2> SUFFICES ASSUME comp.organizer # Absent
               PROVE  DOMAIN organizer = {Ordinals[1]} /\ ParticipantPlain(organizer[Ordinals[1]], "owner")
    OBVIOUS
  <2>1. owners # <<>> /\ comp.organizer = CalAddress(people[Head(owners)])
    BY DEF Organizer
  <2>2. Head(owners) \in Addressed(people)
    BY <2>1, SortedIDsShape DEF Owners
  <2>3. Address(people[Head(owners)]) # Absent
    BY <2>2 DEF Addressed
  <2>4. ParticipantPlain(ParticipantFrom(comp.organizer, "owner"), "owner")
    BY <2>1, <2>3, PersonSettles
  <2>5. QED
    BY <2>4 DEF Entry
<1>8. comp.organizer = Absent => DOMAIN organizer = {}
  BY DEF Empty
<1> HIDE DEF organizer, others, ids, sorted, m, owners
<1>9. DOMAIN Over(organizer, others) = {Ordinals[i] : i \in first .. n}
  <2>1. DOMAIN Over(organizer, others) = DOMAIN organizer \cup {Ordinals[i] : i \in 2 .. n}
    BY <1>5 DEF Over
  <2>2. CASE comp.organizer = Absent
    BY <1>8, <2>1, <2>2
  <2>3. CASE comp.organizer # Absent
    <3>1. \A i : i \in 1 .. n <=> i = 1 \/ i \in 2 .. n
      BY <1>1
    <3> HIDE DEF n
    <3>2. {Ordinals[i] : i \in 1 .. n} = {Ordinals[1]} \cup {Ordinals[i] : i \in 2 .. n}
      BY <3>1
    <3>3. QED
      BY <1>7, <2>1, <2>3, <3>2
  <2>4. QED
    BY <2>2, <2>3
<1>10. ASSUME n <= Len(Ordinals), NEW id \in DOMAIN Over(organizer, others)
       PROVE  ParticipantPlain(Over(organizer, others)[id], Role(id))
  <2>1. \A i \in 2 .. n : Ordinals[i] # Ordinals[1]
    <3> SUFFICES ASSUME NEW i \in 2 .. n PROVE Ordinals[i] # Ordinals[1]
      OBVIOUS
    <3>1. i \in 1 .. Len(Ordinals) /\ 1 \in 1 .. Len(Ordinals) /\ i # 1
      BY <1>1, <1>10, OrdinalsFacts
    <3>2. QED
      BY <3>1, OrdinalsFacts
  <2>2. CASE id \in DOMAIN organizer
    <3>1. comp.organizer # Absent /\ id = Ordinals[1]
      BY <1>7, <1>8, <2>2
    <3>2. Over(organizer, others)[id] = organizer[id]
      BY <2>2 DEF Over
    <3>3. QED
      BY <1>7, <3>1, <3>2 DEF Role
  <2>3. CASE id \notin DOMAIN organizer
    <3>1. id \in DOMAIN others /\ Over(organizer, others)[id] = others[id]
      BY <2>3 DEF Over
    <3>2. id # Ordinals[1]
      BY <1>5, <2>1, <3>1
    <3>3. QED
      BY <1>5, <1>6, <3>1, <3>2 DEF Role
  <2>4. QED
    BY <2>2, <2>3
<1>11. first \in {1, 2} /\ n \in Nat
  BY <1>1
<1> HIDE DEF first, n
<1>12. QED
  BY <1>4, <1>9, <1>10, <1>11 DEF Numbered

(***************************************************************************)
(* With few ids, those that the import generates are in the order of       *)
(* their bytes.                                                            *)
(***************************************************************************)
LEMMA FewInOrder ==
  ASSUME NEW few \in 0 .. Len(Ordinals) - 1, InOrder(1, few), NEW first \in {1, 2}, NEW n \in Nat,
         {Ordinals[i] : i \in first .. n} \subseteq {Ordinals[i] : i \in 1 .. few}
  PROVE  LET last == IF n < first - 1 THEN first - 1 ELSE n
         IN  /\ last \in first - 1 .. Len(Ordinals) /\ n <= Len(Ordinals)
             /\ first .. n = first .. last /\ InOrder(first, last)
<1> DEFINE last == IF n < first - 1 THEN first - 1 ELSE n
<1>1. few \in Nat /\ few + 1 \in 1 .. Len(Ordinals) /\ Len(Ordinals) \in Nat \ {0}
  BY OrdinalsFacts
<1>2. first <= n => n <= few
  <2> SUFFICES ASSUME first <= n, few < n PROVE FALSE
    BY <1>1
  <2> DEFINE k == IF few + 1 < first THEN first ELSE few + 1
  <2>1. k \in first .. n
    BY <1>1
  <2>2. Ordinals[k] \in {Ordinals[i] : i \in 1 .. few}
    BY <2>1
  <2>3. PICK i \in 1 .. few : Ordinals[i] = Ordinals[k]
    BY <2>2
  <2>4. k = few + 1
    BY <1>1, <2>3
  <2>5. i \in 1 .. Len(Ordinals) /\ k \in 1 .. Len(Ordinals) /\ i # k
    BY <1>1, <2>4
  <2>6. QED
    BY <2>3, <2>5, OrdinalsFacts
<1>3. last \in first - 1 .. Len(Ordinals) /\ n <= Len(Ordinals) /\ last <= IF first <= n THEN few ELSE 1
  BY <1>1, <1>2
<1>4. first .. n = first .. last
  BY <1>1
<1>5. InOrder(first, last)
  <2>1. CASE first <= n
    <3>1. /\ 1 \in Nat \ {0} /\ few \in 1 - 1 .. Len(Ordinals) /\ first \in Nat \ {0}
          /\ last \in first - 1 .. few /\ 1 <= first
      BY <1>1, <1>2, <2>1
    <3> HIDE DEF last
    <3>2. QED
      BY <3>1, OrderWithin
  <2>2. CASE ~(first <= n)
    <3>1. last = first - 1
      BY <2>2
    <3>2. InOrder(1, 1)
      BY SortedOne
    <3>3. CASE first = 2
      <4>1. /\ 1 \in Nat \ {0} /\ 1 \in 1 - 1 .. Len(Ordinals) /\ 2 \in Nat \ {0}
            /\ 1 \in 2 - 1 .. 1 /\ 1 <= 2
        BY <1>1
      <4>2. InOrder(2, 1)
        BY <3>2, <4>1, OrderWithin
      <4>3. QED
        BY <3>1, <3>3, <4>2
    <3>4. CASE first = 1
      <4>1. /\ 1 \in Nat \ {0} /\ 1 \in 1 - 1 .. Len(Ordinals)
            /\ 0 \in 1 - 1 .. 1 /\ 1 <= 1
        BY <1>1
      <4>2. InOrder(1, 0)
        BY <3>2, <4>1, OrderWithin
      <4>3. QED
        BY <3>1, <3>4, <4>2
    <3>5. QED
      BY <3>3, <3>4
  <2>3. QED
    BY <2>1, <2>2
<1>6. QED
  BY <1>3, <1>4, <1>5

LEMMA FewHaveIds ==
  ASSUME NEW object, SettledFields(object), FewOrdinals(object)
  PROVE  HasIds(object.alerts, 1) /\ ParticipantsPlain(object.participants)
<1>1. PICK few \in 0 .. Len(Ordinals) - 1 :
        /\ InOrder(1, few)
        /\ DOMAIN object.alerts \subseteq {Ordinals[i] : i \in 1 .. few}
        /\ DOMAIN object.participants \subseteq {Ordinals[i] : i \in 1 .. few}
  BY DEF FewOrdinals, InOrder
<1>2. HasIds(object.alerts, 1)
  <2>1. PICK n \in Nat : DOMAIN object.alerts = {Ordinals[i] : i \in 1 .. n}
    BY DEF SettledFields
  <2> DEFINE last == IF n < 1 - 1 THEN 1 - 1 ELSE n
  <2>2. 1 \in {1, 2} /\ {Ordinals[i] : i \in 1 .. n} \subseteq {Ordinals[i] : i \in 1 .. few}
    BY <1>1, <2>1
  <2>3. last \in 1 - 1 .. Len(Ordinals) /\ 1 .. n = 1 .. last /\ InOrder(1, last)
    BY <1>1, <2>2, FewInOrder
  <2> HIDE DEF last
  <2>4. DOMAIN object.alerts = {Ordinals[i] : i \in 1 .. last}
    BY <2>1, <2>3
  <2>5. QED
    BY <2>3, <2>4 DEF HasIds, InOrder
<1>3. ParticipantsPlain(object.participants)
  <2> DEFINE people == object.participants
  <2>1. PICK first \in {1, 2}, n \in Nat :
          /\ DOMAIN people = {Ordinals[i] : i \in first .. n}
          /\ n <= Len(Ordinals) => \A id \in DOMAIN people : ParticipantPlain(people[id], Role(id))
    BY DEF SettledFields, Numbered
  <2> DEFINE last == IF n < first - 1 THEN first - 1 ELSE n
  <2> HIDE DEF people
  <2>2. {Ordinals[i] : i \in first .. n} \subseteq {Ordinals[i] : i \in 1 .. few}
    BY <1>1, <2>1 DEF people
  <2>3. /\ last \in first - 1 .. Len(Ordinals) /\ n <= Len(Ordinals)
        /\ first .. n = first .. last /\ InOrder(first, last)
    BY <1>1, <2>2, FewInOrder
  <2> HIDE DEF last
  <2>4. DOMAIN people = {Ordinals[i] : i \in first .. last}
    BY <2>1, <2>3
  <2>5. \A id \in DOMAIN people : ParticipantPlain(people[id], IF id = Ordinals[1] THEN "owner" ELSE "attendee")
    BY <2>1, <2>3 DEF Role
  <2>6. HasIds(people, first)
    BY <2>3, <2>4 DEF HasIds, InOrder
  <2>7. CASE Ordinals[1] \in DOMAIN people
    <3>1. PICK i \in first .. last : Ordinals[i] = Ordinals[1]
      BY <2>4, <2>7
    <3>2. i \in 1 .. Len(Ordinals) /\ 1 \in 1 .. Len(Ordinals)
      BY <2>3, OrdinalsFacts
    <3>3. i = 1
      BY <3>1, <3>2, OrdinalsFacts
    <3>4. first = 1
      BY <3>3
    <3>5. QED
      BY <2>5, <2>6, <2>7, <3>4 DEF ParticipantsPlain, people
  <2>8. CASE Ordinals[1] \notin DOMAIN people
    <3>1. CASE first = 2
      BY <2>5, <2>6, <2>8, <3>1 DEF ParticipantsPlain, people
    <3>2. CASE first = 1
      <4>1. ~(1 <= last)
        BY <2>3, <2>4, <2>8, <3>2, OrdinalsFacts
      <4>2. DOMAIN people = {}
        BY <2>3, <2>4, <3>2, <4>1, OrdinalsFacts
      <4>3. {Ordinals[i] : i \in 2 .. 1} = {}
        OBVIOUS
      <4>4. InOrder(2, 1)
        <5>1. /\ 1 \in Nat \ {0} /\ 1 \in 1 - 1 .. Len(Ordinals) /\ 2 \in Nat \ {0}
              /\ 1 \in 2 - 1 .. 1 /\ 1 <= 2
          BY OrdinalsFacts
        <5>2. QED
          BY <5>1, SortedOne, OrderWithin
      <4>5. 1 \in 2 - 1 .. Len(Ordinals)
        BY OrdinalsFacts
      <4>6. HasIds(people, 2)
        BY <4>2, <4>3, <4>4, <4>5 DEF HasIds, InOrder
      <4>7. QED
        BY <2>5, <2>8, <4>6 DEF ParticipantsPlain, people
    <3>3. QED
      BY <3>1, <3>2
  <2>9. QED
    BY <2>7, <2>8 DEF people
<1>4. QED
  BY <1>2, <1>3

LEMMA FewArePlain ==
  ASSUME NEW object, SettledFields(object), FewOrdinals(object), VerbatimTokens(object)
  PROVE  FieldsPlain(object)
BY FewHaveIds DEF SettledFields, FieldsPlain

LEMMA TimesSettle ==
  ASSUME NEW object, IsReturned(object), NEW available
  PROVE  TimesPlain(Imported(Exported(object), available))
<1> DEFINE comp == Exported(object)
           back == Imported(comp, available)
<1>1. IsExported(comp, object) /\ IsImported(back, comp, available)
  BY ExportedFields, ImportedFields DEF IsReturned
<1> HIDE DEF comp, back
<1> DEFINE start == SplitOf(DateTimeOf(object, object.start))
           due == SplitOf(DateTimeOf(object, object.due))
           bare == BareTZID(object.timeZone)
           date == object.allDay /\ object.timeZone = Floating
<1>2. /\ object.kind \in {"Event", "Task"} /\ object.start \in Maybe(Int) /\ object.due \in Maybe(Int)
      /\ Absent \notin Int
  BY ICalTimeAssumption DEF IsReturned, IsObject, IsCalendarObject
<1>3. /\ start.kind = "date" <=> object.start # Absent /\ date
      /\ start.local = IF object.start # Absent /\ date THEN Midnight(object.start) ELSE object.start
      /\ start.zone = IF object.start = Absent THEN Floating ELSE bare
      /\ DateTimeOf(object, object.start) = Absent <=> object.start = Absent
  BY <1>2, SplitOfDateTime
<1>4. /\ due.kind = "date" <=> object.due # Absent /\ date
      /\ due.local = IF object.due # Absent /\ date THEN Midnight(object.due) ELSE object.due
      /\ due.zone = IF object.due = Absent THEN Floating ELSE bare
  BY <1>2, SplitOfDateTime
<1>5. date => bare = Floating
  <2>1. ~IsCustom(Floating)
    BY ICalTimeAssumption DEF IsCustom
  <2>2. QED
    BY <2>1 DEF BareTZID
<1>6. /\ comp.name = "VTODO" <=> object.kind = "Task"
      /\ SplitOf(comp.start) = start
      /\ comp.name = "VTODO" => SplitOf(comp.due) = due
      /\ comp.start = DateTimeOf(object, object.start)
      /\ comp.end = Absent /\ comp.duration = DurationOf(object)
  BY <1>1, <1>2 DEF IsExported
<1>7. /\ back.kind = IF comp.name = "VTODO" THEN "Task" ELSE "Event"
      /\ back.start = SplitOf(comp.start).local
      /\ back.due = IF comp.name = "VTODO" THEN SplitOf(comp.due).local ELSE Absent
      /\ back.timeZone = AttachedZone(ZoneOfComponent(comp), available)
      /\ back.allDay = IF comp.name = "VTODO" THEN AllDay(SplitOf(comp.start), SplitOf(comp.due))
                       ELSE SplitOf(comp.start).kind = "date"
      /\ back.duration = IF comp.name = "VTODO" THEN comp.duration ELSE EventDuration(comp)
  BY <1>1 DEF IsImported
<1>8. AttachedZone(Floating, available) = Floating
  BY DEF AttachedZone
<1>9. \A t \in Int : Midnight(t) \in Int /\ Midnight(Midnight(t)) = Midnight(t)
  BY MidnightTwice
<1> HIDE DEF start, due, bare, date
<1>10. ZoneOfComponent(comp) = IF comp.name = "VTODO" THEN ZoneOf(start, due) ELSE start.zone
  BY <1>6 DEF ZoneOfComponent
<1>11. date => ZoneOfComponent(comp) = Floating
  BY <1>3, <1>4, <1>5, <1>10 DEF ZoneOf
<1>12. back.allDay => /\ date
                      /\ object.start # Absent \/ (comp.name = "VTODO" /\ object.due # Absent)
  <2>1. CASE comp.name = "VTODO"
    BY <1>3, <1>4, <1>6, <1>7, <2>1 DEF AllDay
  <2>2. CASE comp.name # "VTODO"
    BY <1>3, <1>6, <1>7, <2>2
  <2>3. QED
    BY <2>1, <2>2
<1>13. back.timeZone # Floating => object.start # Absent \/ (comp.name = "VTODO" /\ object.due # Absent)
  <2> SUFFICES ASSUME back.timeZone # Floating
               PROVE  object.start # Absent \/ (comp.name = "VTODO" /\ object.due # Absent)
    OBVIOUS
  <2>1. ZoneOfComponent(comp) # Floating
    BY <1>7, <1>8
  <2>2. QED
    BY <1>3, <1>4, <1>10, <2>1 DEF ZoneOf
<1>14. /\ object.start # Absent => back.start # Absent /\ back.start \in Int
       /\ object.start = Absent => back.start = Absent
       /\ comp.name = "VTODO" /\ object.due # Absent => back.due # Absent
  BY <1>2, <1>3, <1>4, <1>6, <1>7, <1>9 DEF Maybe
<1>15. back.timeZone # Floating \/ back.allDay => {back.start, back.due} # {Absent}
  BY <1>12, <1>13, <1>14
<1>16. ASSUME back.allDay
       PROVE  /\ back.timeZone = Floating
              /\ \A t \in {back.start, back.due} \ {Absent} : t = Midnight(t)
  <2>1. back.timeZone = Floating
    BY <1>7, <1>8, <1>11, <1>12, <1>16
  <2>2. back.start # Absent => back.start = Midnight(back.start)
    BY <1>2, <1>3, <1>6, <1>7, <1>9, <1>12, <1>16 DEF Maybe
  <2>3. back.due # Absent => back.due = Midnight(back.due)
    BY <1>2, <1>4, <1>6, <1>7, <1>9, <1>12, <1>16 DEF Maybe
  <2>4. QED
    BY <2>1, <2>2, <2>3
<1>17. /\ back.duration # Absent => ~IsZero(back.duration)
       /\ back.kind = "Event" /\ back.duration # Absent => back.start # Absent
  <2>1. comp.duration # Absent => ~IsZero(comp.duration)
    BY <1>6 DEF DurationOf
  <2>2. CASE comp.name = "VTODO"
    BY <1>7, <2>1, <2>2
  <2>3. CASE comp.name # "VTODO"
    <3>1. back.duration = EventDuration(comp)
      BY <1>7, <2>3
    <3>2. comp.start = Absent => EventDuration(comp) = Absent
      BY DEF EventDuration
    <3>3. comp.start # Absent => EventDuration(comp) = comp.duration
      BY <1>6 DEF EventDuration, DeriveDuration
    <3>4. comp.start # Absent => back.start # Absent
      BY <1>3, <1>6, <1>14
    <3>5. QED
      BY <2>1, <3>1, <3>2, <3>3, <3>4
  <2>4. QED
    BY <2>2, <2>3
<1>18. QED
  BY <1>15, <1>16, <1>17 DEF TimesPlain, back, comp

(***************************************************************************)
(* The zones of a calendar that ToICal built, as FromICal collects them.   *)
(***************************************************************************)
Collectible(available) ==
  \A id \in DOMAIN available :
    /\ IsTimeZone(available[id]) /\ CustomTimeZoneID(available[id].tzId) = id
    /\ \A rule \in ToSet(available[id].standard) \cup ToSet(available[id].daylight) : PlainZoneRule(rule)

LEMMA ObjectSettles ==
  ASSUME NEW object, IsReturned(object), Imports(Exported(object)),
         NEW available, Collectible(available)
  PROVE  Settled(Imported(Exported(object), available))
<1> DEFINE comp == Exported(object)
           back == Imported(comp, available)
<1>1. TimesPlain(back)
  BY TimesSettle
<1>2. IsReturned(back)
  <2>1. IsComponent(comp) /\ IsConverted(comp)
    BY ExportedShape
  <2>2. Imports(comp)
    OBVIOUS
  <2>3. QED
    BY <2>1, <2>2, ImportedShape DEF Collectible
<1>3. IsExported(comp, object) /\ IsImported(back, comp, available)
  BY ExportedFields, ImportedFields DEF IsReturned
<1> HIDE DEF comp, back
<1>4. back.updated # Absent
  <2>1. comp.modified = object.updated /\ comp.stamp = Stamp(object) /\ back.updated = Updated(comp)
    BY <1>3 DEF IsExported, IsImported
  <2>2. EpochTime # Absent
    BY ICalExportAssumption, Zenon
  <2>3. QED
    BY <2>1, <2>2 DEF Updated, Stamp
<1>5. \A k \in DOMAIN back.keywords : back.keywords[k]
  <2>1. back.keywords = [k \in comp.categories |-> TRUE]
    BY <1>3 DEF IsImported
  <2>2. QED
    BY <2>1
<1>6. Lowered(back.privacy) /\ back.privacy # "confidential"
  <2>1. /\ object.privacy \in Maybe(Tokens)
        /\ comp.class = IF object.privacy = Absent THEN Absent ELSE Quoted[ClassFromPrivacy(object.privacy)]
        /\ back.privacy = IF comp.class = Absent THEN Absent ELSE PrivacyFromClass(comp.class)
    BY <1>3 DEF IsReturned, IsCalendarObject, IsExported, IsImported, Class
  <2>2. Absent # "confidential"
    BY TokensAssumption
  <2>3. \A t \in Tokens : Quoted[ClassFromPrivacy(t)] \in Tokens
    BY TokensAssumption DEF ClassFromPrivacy
  <2>4. comp.class \in Tokens \/ comp.class = Absent
    BY <2>1, <2>3 DEF Maybe
  <2>5. QED
    BY <2>1, <2>2, <2>4, PrivacySettles DEF Lowered
<1>7. Lowered(back.status)
  <2>1. /\ object.status \in Maybe(Tokens) /\ comp.status = StatusOf(object) /\ back.status = Status(comp)
    BY <1>3 DEF IsReturned, IsCalendarObject, IsExported, IsImported
  <2>2. comp.status \in Tokens \/ comp.status = Absent
    BY <2>1, TokensAssumption DEF Maybe, StatusOf
  <2>3. QED
    BY <2>1, <2>2, LoweredOnce DEF Status, Lowered
<1>8. PlainRules(back.rules) /\ PlainRules(back.excluded)
  <2>1. /\ AreTexts(comp.rrules) /\ AreTexts(comp.exrules)
        /\ back.rules = [i \in DOMAIN comp.rrules |-> RuleFrom(comp.rrules[i])]
        /\ back.excluded = [i \in DOMAIN comp.exrules |-> RuleFrom(comp.exrules[i])]
    BY <1>3, StringsShape DEF IsReturned, IsCalendarObject, IsExported, IsImported
  <2>2. QED
    BY <2>1, RuleSettles DEF AreTexts, PlainRules
<1>9. Numbered(back.participants)
  <2>1. /\ object.participants \in [DOMAIN object.participants -> People]
        /\ comp.organizer = Organizer(object.participants) /\ comp.attendees = Attendees(object.participants)
        /\ back.participants = ParticipantsFrom(comp)
    BY <1>3 DEF IsReturned, IsCalendarObject, IsExported, IsImported
  <2>2. QED
    BY <2>1, PeopleSettle
<1>10. /\ \E n \in Nat : DOMAIN back.alerts = {Ordinals[i] : i \in 1 .. n}
       /\ \A id \in DOMAIN back.alerts : AlertPlain(back.alerts[id])
  <2>1. /\ object.alerts \in [DOMAIN object.alerts -> Alerts]
        /\ comp.alarms = Alarms(object.alerts) /\ back.alerts = AlertsFrom(comp)
    BY <1>3 DEF IsReturned, IsCalendarObject, IsExported, IsImported
  <2>2. QED
    BY <2>1, AlertsSettle
<1>11. SinglePlain(back.locations) /\ SinglePlain(back.links)
  BY <1>3, SingleSettles DEF IsImported
<1>12. OwnZone(back)
  <2>1. back.timeZones = Attached(back.timeZone, available)
    BY <1>3 DEF IsImported
  <2>2. \A id \in DOMAIN back.timeZones :
          /\ id = back.timeZone /\ IsCustom(id) /\ id \in DOMAIN available
          /\ back.timeZones[id] = available[id]
    BY <2>1 DEF Attached, Entry, Empty
  <2>3. QED
    BY <2>2 DEF OwnZone, Collectible
<1>13. SettledFields(back)
  BY <1>1, <1>4, <1>5, <1>6, <1>7, <1>8, <1>9, <1>10, <1>11 DEF SettledFields
<1>14. QED
  BY <1>2, <1>12, <1>13 DEF Settled, back, comp

LEMMA ZonesCollectible ==
  ASSUME BridgeInv, phase = "objects", Ours
  PROVE  Collectible(zones)
<1>1. CalendarShaped /\ Built /\ Gathered(Len(calendar))
  BY DEF BridgeInv, Finished, Importing
<1>2. DOMAIN calendar = 1 .. Len(calendar)
  BY <1>1, ListFacts DEF CalendarShaped
<1>3. \A id \in DOMAIN zones : IsTimeZone(zones[id])
  BY ReturnedObjects
<1>4. ASSUME NEW id \in DOMAIN zones
      PROVE  /\ CustomTimeZoneID(zones[id].tzId) = id
             /\ \A rule \in ToSet(zones[id].standard) \cup ToSet(zones[id].daylight) : PlainZoneRule(rule)
  <2>1. PICK j \in 1 .. Len(calendar) : /\ IsZone(calendar[j]) /\ id = CustomTimeZoneID(calendar[j].tzid)
                                        /\ zones[id] = ZoneFrom(calendar[j])
    BY <1>1, <1>4 DEF Gathered
  <2>2. PICK k \in DOMAIN given : \E own \in DOMAIN given[k].timeZones :
          calendar[j] = ZoneComponent(given[k].timeZones[own])
    BY <1>1, <1>2, <2>1 DEF Built
  <2>3. PICK own \in DOMAIN given[k].timeZones : calendar[j] = ZoneComponent(given[k].timeZones[own])
    BY <2>2
  <2> DEFINE tz == given[k].timeZones[own]
  <2>4. IsTimeZone(tz)
    BY <1>1 DEF Built, IsReturned, IsCalendarObject
  <2> HIDE DEF tz
  <2>5. zones[id] = ZoneFrom(ZoneComponent(tz))
    BY <2>1, <2>3 DEF tz
  <2>6. zones[id].tzId = calendar[j].tzid
    BY <2>1 DEF ZoneFrom
  <2>7. QED
    BY <2>1, <2>4, <2>5, <2>6, ZoneSettles
<1>5. QED
  BY <1>3, <1>4 DEF Collectible

(***************************************************************************)
(* Objects of one import agree on the definitions they embed, and none of  *)
(* them defines a zone that another one kept as an unknown name.           *)
(***************************************************************************)
Coherent(object, other) ==
  /\ \A id \in DOMAIN object.timeZones \cap DOMAIN other.timeZones :
       object.timeZones[id] = other.timeZones[id]
  /\ LET zone == object.timeZone
     IN  zone # Floating /\ ~IsCustom(zone) /\ ~LoadsLocation(zone)
           => CustomTimeZoneID(zone) \notin DOMAIN other.timeZones

LEMMA ZoneTyped ==
  ASSUME NEW comp, IsComponent(comp), Imports(comp)
  PROVE  ZoneOfComponent(comp) \in Seq(Chars)
<1>1. comp.start \in Maybe(DateProps) /\ comp.due \in Maybe(DateProps)
  BY DEF IsComponent
<1>2. PropParses(comp.start) /\ (comp.name = "VTODO" => PropParses(comp.due))
  BY DEF Imports
<1>3. /\ SplitOf(comp.start).zone \in Seq(Chars)
      /\ comp.name = "VTODO" => SplitOf(comp.due).zone \in Seq(Chars)
  BY <1>1, <1>2, SplitShape
<1>4. QED
  BY <1>3 DEF ZoneOfComponent, ZoneOf

LEMMA ImportsCohere ==
  ASSUME NEW comp, IsComponent(comp), Imports(comp), NEW next, NEW available
  PROVE  Coherent(Imported(comp, available), Imported(next, available))
<1> DEFINE object == Imported(comp, available)
           other == Imported(next, available)
           zone == ZoneOfComponent(comp)
<1>1. IsImported(object, comp, available) /\ IsImported(other, next, available)
  BY ImportedFields
<1>2. zone \in Seq(Chars)
  BY ZoneTyped
<1> HIDE DEF object, other, zone
<1>3. /\ object.timeZone = AttachedZone(zone, available)
      /\ object.timeZones = Attached(object.timeZone, available)
      /\ other.timeZones = Attached(other.timeZone, available)
  BY <1>1 DEF IsImported, zone
<1>4. \A key : \A id \in DOMAIN Attached(key, available) :
        id \in DOMAIN available /\ Attached(key, available)[id] = available[id]
  BY DEF Attached, Entry, Empty
<1>5. ASSUME object.timeZone # Floating, ~IsCustom(object.timeZone), ~LoadsLocation(object.timeZone)
      PROVE  CustomTimeZoneID(object.timeZone) \notin DOMAIN available
  <2>1. ~IsCustom(zone) => IsCustom(CustomTimeZoneID(zone))
    BY <1>2, ICalTimeAssumption DEF CustomTimeZoneID, IsCustom
  <2>2. CASE object.timeZone = zone
    <3>1. CASE CustomTimeZoneID(zone) \in DOMAIN available
      <4>1. AttachedZone(zone, available) = CustomTimeZoneID(zone)
        BY <1>5, <2>2, <3>1 DEF AttachedZone
      <4>2. QED
        BY <1>3, <1>5, <2>1, <2>2, <4>1
    <3>2. QED
      BY <2>2, <3>1
  <2>3. CASE object.timeZone # zone
    <3>1. object.timeZone = CustomTimeZoneID(zone) /\ ~IsCustom(zone)
      BY <1>3, <2>3 DEF AttachedZone
    <3>2. QED
      BY <1>5, <2>1, <3>1
  <2>4. QED
    BY <2>2, <2>3
<1>6. \A id \in DOMAIN object.timeZones \cap DOMAIN other.timeZones :
        object.timeZones[id] = other.timeZones[id]
  BY <1>3, <1>4
<1>7. DOMAIN other.timeZones \subseteq DOMAIN available
  BY <1>3, <1>4
<1>8. QED
  BY <1>5, <1>6, <1>7 DEF Coherent, object, other

(***************************************************************************)
(* The invariant: from the second round on, what is under way in ToICal,   *)
(* and what the calendar was built from, came back from iCalendar.         *)
(***************************************************************************)
SettledSet(objs) ==
  /\ \A object \in objs : Settled(object)
  /\ \A object, other \in objs : Coherent(object, other)

Held == ToSet(given) \cup (IF phase = "exporting" THEN ToSet(pending) ELSE {})

SettledInv ==
  /\ round \in Nat
  /\ round >= 2 /\ phase # "error" => SettledSet(Held)

LEMMA SettledReturned ==
  ASSUME BridgeInv, phase = "objects", Ours
  PROVE  SettledSet(ToSet(objects))
<1>1. Built
  BY DEF BridgeInv, Finished
<1>2. /\ \A i \in DOMAIN given : IsReturned(given[i])
      /\ Converted = [i \in DOMAIN given |-> Exported(given[i])]
  BY <1>1 DEF Built
<1>3. /\ objects = [i \in DOMAIN Converted |-> Imported(Converted[i], zones)]
      /\ \A i \in DOMAIN Converted : IsComponent(Converted[i]) /\ Imports(Converted[i])
  BY ReturnedObjects
<1>4. Collectible(zones)
  BY ZonesCollectible
<1>5. DOMAIN objects = DOMAIN given /\ DOMAIN Converted = DOMAIN given
  BY <1>2, <1>3
<1>6. ASSUME NEW i \in DOMAIN given PROVE Settled(objects[i])
  <2>1. objects[i] = Imported(Exported(given[i]), zones) /\ Imports(Exported(given[i]))
    BY <1>2, <1>3, <1>5
  <2>2. QED
    BY <1>2, <1>4, <2>1, ObjectSettles
<1>7. ASSUME NEW i \in DOMAIN given, NEW j \in DOMAIN given PROVE Coherent(objects[i], objects[j])
  <2>1. /\ objects[i] = Imported(Converted[i], zones) /\ objects[j] = Imported(Converted[j], zones)
        /\ IsComponent(Converted[i]) /\ Imports(Converted[i])
    BY <1>3, <1>5
  <2>2. QED
    BY <2>1, ImportsCohere
<1>8. QED
  BY <1>5, <1>6, <1>7 DEF SettledSet, ToSet

LEMMA HeldLess ==
  ASSUME SettledInv, phase # "error", phase' = "error" \/ Held' \subseteq Held, round' = round
  PROVE  SettledInv'
BY DEF SettledInv, SettledSet

LEMMA SettledAppendObject ==
  ASSUME BridgeInv, SettledInv, AppendObject
  PROVE  SettledInv'
<1> DEFINE object == Head(pending)
<1>1. /\ phase = "exporting" /\ pending # <<>> /\ phase' = phase /\ round' = round
      /\ given' = Append(given, object) /\ pending' = Tail(pending)
  BY DEF AppendObject
<1>2. IsList(pending) /\ IsList(given)
  BY <1>1 DEF BridgeInv, Exporting, Built
<1>3. given \in Seq(ToSet(given)) /\ pending \in Seq(ToSet(pending))
  BY <1>2 DEF IsList
<1>4. ToSet(given') \subseteq ToSet(given) \cup ToSet(pending) /\ ToSet(pending') \subseteq ToSet(pending)
  <2>1. object \in ToSet(pending)
    BY <1>1, <1>3
  <2>2. \A i \in DOMAIN Append(given, object) : Append(given, object)[i] \in ToSet(given) \cup ToSet(pending)
    BY <1>3, <2>1
  <2>3. \A i \in DOMAIN Tail(pending) : Tail(pending)[i] \in ToSet(pending)
    BY <1>1, <1>3
  <2>4. QED
    BY <1>1, <2>2, <2>3 DEF ToSet
<1>5. Held' \subseteq Held
  BY <1>1, <1>4 DEF Held
<1>6. QED
  BY <1>1, <1>5, HeldLess

LEMMA SettledAppendGroup ==
  ASSUME BridgeInv, SettledInv, AppendGroup
  PROVE  SettledInv'
<1>1. /\ phase = "exporting" /\ pending # <<>> /\ Head(pending).kind = "Group"
      /\ phase' = phase /\ round' = round
  BY DEF AppendGroup
<1>2. IsList(pending)
  BY <1>1 DEF BridgeInv, Exporting
<1>3. Head(pending) \in ToSet(pending)
  BY <1>1, <1>2 DEF IsList
<1>4. ~(round >= 2)
  <2> SUFFICES ASSUME round >= 2 PROVE FALSE
    OBVIOUS
  <2>1. Settled(Head(pending))
    BY <1>1, <1>3 DEF SettledInv, SettledSet, Held
  <2>2. QED
    BY <1>1, <2>1 DEF Settled, IsReturned, IsObject
<1>5. QED
  BY <1>1, <1>4 DEF SettledInv

(***************************************************************************)
(* The objects of every calendar that ToICal builds, from the second call  *)
(* on, have come back from iCalendar before.                               *)
(***************************************************************************)
THEOREM RoundTripsSettled ==
  Spec => []SettledInv
<1>1. Init => SettledInv
  BY DEF Init, SettledInv
<1>2. BridgeInv /\ SettledInv /\ [Next]_vars => SettledInv'
  <2> SUFFICES ASSUME BridgeInv, SettledInv, [Next]_vars PROVE SettledInv'
    OBVIOUS
  <2>1. ASSUME phase = "none", NEW objs \in Arguments, ToICal(objs) PROVE SettledInv'
    <3>1. round = 0 /\ round' = 1
      BY <2>1 DEF BridgeInv, Finished, ToICal
    <3>2. QED
      BY <3>1 DEF SettledInv
  <2>2. ASSUME phase = "objects", ToICal(objects) PROVE SettledInv'
    <3>1. /\ phase' = "exporting" /\ pending' = objects /\ given' = <<>> /\ round' = round + 1
      BY <2>2 DEF ToICal
    <3>2. round \in Nat
      BY DEF SettledInv
    <3>3. Held' = ToSet(objects)
      BY <3>1 DEF Held, ToSet
    <3>4. round' >= 2 => Ours
      BY <3>1, <3>2 DEF Ours
    <3>5. Ours => SettledSet(ToSet(objects))
      BY <2>2, SettledReturned
    <3>6. SettledSet(Held)' <=> SettledSet(Held')
      BY DEF SettledSet, Settled, Coherent
    <3>7. QED
      BY <3>1, <3>2, <3>3, <3>4, <3>5, <3>6 DEF SettledInv
  <2>3. ASSUME NEW cal \in Calendars, Receive(cal) PROVE SettledInv'
    BY <2>3, HeldLess DEF Receive, Held
  <2>4. CASE AppendObject
    BY <2>4, SettledAppendObject
  <2>5. CASE AppendGroup
    BY <2>5, SettledAppendGroup
  <2>6. CASE RejectObject
    BY <2>6, HeldLess DEF RejectObject, Fail
  <2>7. CASE EmitZone
    BY <2>7, HeldLess DEF EmitZone, Fail, Held
  <2>8. CASE Finish
    BY <2>8, HeldLess DEF Finish, Fail, Held
  <2>9. CASE FromICal
    BY <2>9, HeldLess DEF FromICal, Held
  <2>10. CASE CollectZone
    BY <2>10, HeldLess DEF CollectZone, Fail, Held
  <2>11. CASE Collected
    BY <2>11, HeldLess DEF Collected, Held
  <2>12. CASE ImportChild
    BY <2>12, HeldLess DEF ImportChild, Fail, Held
  <2>13. CASE Return
    BY <2>13, HeldLess DEF Return, Held
  <2>14. CASE UNCHANGED vars
    BY <2>14 DEF vars, SettledInv, Held
  <2>15. QED
    BY <2>1, <2>2, <2>3, <2>4, <2>5, <2>6, <2>7, <2>8, <2>9, <2>10, <2>11, <2>12, <2>13, <2>14
    DEF Next
<1>3. QED
  BY <1>1, <1>2, BridgeCorrect, PTL DEF Spec

(***************************************************************************)
(* Every loss is immediate: from the second round trip on, the objects     *)
(* that came back from iCalendar are the ones that were sent, however many *)
(* they are and whatever a peer or a program began with, if each has fewer *)
(* than ten alerts and participants, its custom zone is one that stays and *)
(* its tokens have no character that a TEXT value escapes.                 *)
(***************************************************************************)
THEOREM RoundTripsSettle ==
  Spec => []Settles
<1>1. BridgeInv /\ SettledInv => Settles
  <2> SUFFICES ASSUME BridgeInv, SettledInv, phase = "objects", round >= 2,
                      \A i \in DOMAIN given :
                        FewOrdinals(given[i]) /\ ZoneSettled(given[i]) /\ VerbatimTokens(given[i])
               PROVE  objects = given
    BY DEF Settles
  <2>1. Ours /\ Built
    BY DEF SettledInv, Ours, BridgeInv, Finished
  <2>2. \A i, j \in DOMAIN given :
          /\ IsReturned(given[i]) /\ SettledFields(given[i]) /\ OwnZone(given[i])
          /\ Coherent(given[i], given[j])
    <3>1. SettledSet(ToSet(given))
      BY DEF SettledInv, Held
    <3>2. \A i \in DOMAIN given : given[i] \in ToSet(given)
      BY DEF ToSet
    <3>3. QED
      BY <3>1, <3>2 DEF SettledSet, Settled
  <2>3. AgreeOnZones(given)
    BY <2>2 DEF Coherent, AgreeOnZones
  <2>4. ASSUME NEW k \in DOMAIN given, NEW id \in DOMAIN given[k].timeZones
        PROVE  KeptZone(id, given[k].timeZones[id])
    <3> DEFINE tz == given[k].timeZones[id]
    <3>1. /\ id = given[k].timeZone /\ IsCustom(id) /\ CustomTimeZoneID(tz.tzId) = id
          /\ \A rule \in ToSet(tz.standard) \cup ToSet(tz.daylight) : PlainZoneRule(rule)
      BY <2>2 DEF OwnZone
    <3>2. IsTimeZone(tz)
      BY <2>2 DEF IsReturned, IsCalendarObject
    <3> HIDE DEF tz
    <3>3. ToSet(id) \cap Special = {}
      BY <3>1 DEF ZoneSettled, PlainId, Unescaped
    <3>4. ToSet(tz.tzId) \subseteq ToSet(id)
      <4>1. tz.tzId \in Seq(Chars)
        BY <3>2 DEF IsTimeZone
      <4>2. \A i \in DOMAIN tz.tzId : i + 1 \in DOMAIN (<<Slash>> \o tz.tzId)
                                      /\ (<<Slash>> \o tz.tzId)[i + 1] = tz.tzId[i]
        BY <4>1, ICalTimeAssumption
      <4>3. ToSet(tz.tzId) \subseteq ToSet(<<Slash>> \o tz.tzId)
        BY <4>2 DEF ToSet
      <4>4. QED
        BY <3>1, <4>3 DEF CustomTimeZoneID
    <3>5. QED
      BY <3>1, <3>3, <3>4 DEF KeptZone, tz
  <2>5. /\ \A id \in DOMAIN zones : \E k \in DOMAIN given : id \in DOMAIN given[k].timeZones
        /\ \A k \in DOMAIN given : \A id \in DOMAIN given[k].timeZones :
             id \in DOMAIN zones /\ zones[id] = given[k].timeZones[id]
    BY <2>1, <2>3, <2>4, ZonesReturn
  <2>6. ASSUME NEW i \in DOMAIN given PROVE ZoneKept(given[i], zones)
    <3> DEFINE object == given[i]
               zone == given[i].timeZone
    <3>1. IsReturned(object) /\ OwnZone(object) /\ ZoneSettled(object)
      BY <2>2
    <3>2. IsMap(object.timeZones)
      BY <3>1 DEF IsReturned, IsCalendarObject
    <3>3. CASE IsCustom(zone)
      <4>1. PlainId(zone) /\ DOMAIN object.timeZones = {zone}
        BY <3>1, <3>3 DEF ZoneSettled, OwnZone
      <4>2. zone \in DOMAIN zones /\ zones[zone] = object.timeZones[zone]
        BY <2>5, <4>1
      <4>3. QED
        BY <3>1, <3>3, <4>1, <4>2, CustomKept
    <3>4. CASE ~IsCustom(zone)
      <4>1. DOMAIN object.timeZones = {}
        BY <3>1, <3>4 DEF OwnZone
      <4>2. object.timeZones = Empty
        BY <3>2, <4>1 DEF IsMap, Empty
      <4>3. BareTZID(zone) = zone /\ Attached(zone, zones) = Empty
        BY <3>4 DEF BareTZID, Attached
      <4>4. zone # Floating /\ ~LoadsLocation(zone) => CustomTimeZoneID(zone) \notin DOMAIN zones
        BY <2>2, <2>5, <3>4 DEF Coherent
      <4>5. AttachedZone(zone, zones) = zone
        BY <4>4 DEF AttachedZone
      <4>6. QED
        BY <4>2, <4>3, <4>5 DEF ZoneKept
    <3>5. QED
      BY <3>3, <3>4
  <2>7. \A i \in DOMAIN given : FieldsPlain(given[i])
    BY <2>2, FewArePlain
  <2>8. QED
    BY <2>1, <2>6, <2>7, ObjectsReturn
<1>2. QED
  BY <1>1, BridgeCorrect, RoundTripsSettled, PTL

=============================================================================
