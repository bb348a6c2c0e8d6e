------------------------- MODULE MemberCodecProofs -------------------------
(***************************************************************************)
(* Lemmas about the operators of MemberCodec that the codecs are built     *)
(* from: the selection of members in order, and the meaning of a wire one  *)
(* member at a time.                                                       *)
(***************************************************************************)
EXTENDS MemberCodec, FiniteSetTheorems, SequenceTheorems, TLAPS

-----------------------------------------------------------------------------
(***************************************************************************)
(* The hits of a sequence are numbered from one without gaps, in order.    *)
(***************************************************************************)
LEMMA HitsFinite ==
  ASSUME NEW S, NEW s \in Seq(S), NEW set
  PROVE  /\ Hits(s, set) \subseteq DOMAIN s /\ Hits(s, set) \subseteq Int
         /\ IsFiniteSet(Hits(s, set)) /\ Cardinality(Hits(s, set)) \in Nat
<1>1. DOMAIN s = 1 .. Len(s) /\ Len(s) \in Nat
  OBVIOUS
<1>2. IsFiniteSet(1 .. Len(s))
  BY <1>1, FS_Interval
<1>3. Hits(s, set) \in SUBSET (1 .. Len(s))
  BY <1>1 DEF Hits
<1>4. IsFiniteSet(Hits(s, set))
  BY <1>2, <1>3, FS_Subset
<1>5. QED
  BY <1>1, <1>3, <1>4, FS_CardinalityType

LEMMA RankMonotone ==
  ASSUME NEW S, NEW s \in Seq(S), NEW set, NEW i \in Hits(s, set), NEW j \in Hits(s, set)
  PROVE  /\ Rank(s, set, i) \in 1 .. Cardinality(Hits(s, set))
         /\ i < j => Rank(s, set, i) < Rank(s, set, j)
<1> DEFINE hits == Hits(s, set)
           upto(k) == {m \in hits : m <= k}
<1>1. hits \subseteq Int /\ IsFiniteSet(hits) /\ Cardinality(hits) \in Nat
  BY HitsFinite
<1>2. \A k : /\ IsFiniteSet(upto(k)) /\ Cardinality(upto(k)) \in Nat
             /\ Cardinality(upto(k)) <= Cardinality(hits)
  <2> SUFFICES ASSUME NEW k
               PROVE  /\ IsFiniteSet(upto(k)) /\ Cardinality(upto(k)) \in Nat
                      /\ Cardinality(upto(k)) <= Cardinality(hits)
    OBVIOUS
  <2>1. upto(k) \in SUBSET hits
    OBVIOUS
  <2>2. IsFiniteSet(upto(k)) /\ Cardinality(upto(k)) <= Cardinality(hits)
    BY <1>1, <2>1, FS_Subset
  <2>3. QED
    BY <2>2, FS_CardinalityType
<1>3. Cardinality(upto(i)) # 0
  <2>1. i \in upto(i)
    BY <1>1
  <2>2. QED
    BY <1>2, <2>1, FS_EmptySet
<1>4. ASSUME i < j PROVE Cardinality(upto(i)) < Cardinality(upto(j))
  <2>1. upto(i) \in SUBSET upto(j)
    BY <1>1, <1>4
  <2>2. j \in upto(j) /\ j \notin upto(i)
    BY <1>1, <1>4
  <2>3. Cardinality(upto(i)) <= Cardinality(upto(j))
    BY <1>2, <2>1, FS_Subset
  <2>4. Cardinality(upto(i)) # Cardinality(upto(j))
    BY <1>2, <2>1, <2>2, FS_Subset
  <2>5. Cardinality(upto(i)) \in Nat /\ Cardinality(upto(j)) \in Nat
    BY <1>2
  <2> HIDE DEF upto
  <2>6. QED
    BY <2>3, <2>4, <2>5
<1>5. Rank(s, set, i) = Cardinality(upto(i)) /\ Rank(s, set, j) = Cardinality(upto(j))
  BY DEF Rank
<1>6. Cardinality(upto(i)) \in Nat /\ Cardinality(upto(i)) <= Cardinality(hits)
  BY <1>2
<1> HIDE DEF upto
<1>7. QED
  BY <1>1, <1>3, <1>4, <1>5, <1>6

(***************************************************************************)
(* The position the n-th selected element has in the sequence.             *)
(***************************************************************************)
Position(s, set, n) == CHOOSE i \in Hits(s, set) : Rank(s, set, i) = n

LEMMA PositionSpec ==
  ASSUME NEW S, NEW s \in Seq(S), NEW set
  PROVE  /\ \A n \in 1 .. Cardinality(Hits(s, set)) :
              /\ Position(s, set, n) \in Hits(s, set)
              /\ Rank(s, set, Position(s, set, n)) = n
         /\ \A i \in Hits(s, set) : Position(s, set, Rank(s, set, i)) = i
<1> DEFINE hits == Hits(s, set)
           card == Cardinality(hits)
           rank == [i \in hits |-> Rank(s, set, i)]
<1>1. hits \subseteq Int /\ IsFiniteSet(hits) /\ card \in Nat
  BY HitsFinite
<1>2. rank \in [hits -> 1 .. card]
  BY RankMonotone
<1>3. \A i, j \in hits : Rank(s, set, i) = Rank(s, set, j) => i = j
  <2> SUFFICES ASSUME NEW i \in hits, NEW j \in hits, i # j
               PROVE  Rank(s, set, i) # Rank(s, set, j)
    OBVIOUS
  <2>1. i < j \/ j < i
    BY <1>1
  <2>2. /\ i < j => Rank(s, set, i) < Rank(s, set, j)
        /\ j < i => Rank(s, set, j) < Rank(s, set, i)
        /\ Rank(s, set, i) \in Int /\ Rank(s, set, j) \in Int
    BY RankMonotone
  <2>3. QED
    BY <2>1, <2>2
<1>4. rank \in Injection(hits, 1 .. card)
  BY <1>2, <1>3 DEF Injection, IsInjective
<1>5. IsFiniteSet(1 .. card) /\ Cardinality(1 .. card) = card
  BY <1>1, FS_Interval
<1>6. rank \in Surjection(hits, 1 .. card)
  <2> HIDE DEF rank, card
  <2>1. card = Cardinality(hits)
    BY DEF card
  <2>2. QED
    BY <1>4, <1>5, <2>1, FS_Injection
<1>7. \A n \in 1 .. card : \E i \in hits : Rank(s, set, i) = n
  BY <1>6 DEF Surjection
<1>8. \A n \in 1 .. card : Position(s, set, n) \in hits /\ Rank(s, set, Position(s, set, n)) = n
  BY <1>7 DEF Position
<1>9. \A i \in hits : Position(s, set, Rank(s, set, i)) = i
  BY <1>3, <1>8, RankMonotone
<1>10. QED
  BY <1>8, <1>9

(***************************************************************************)
(* What Selected returns: a sequence of the elements that are in the set,  *)
(* all of them, in the order they have.                                    *)
(***************************************************************************)
InOrder(sel, s, set, S) ==
  /\ sel \in Seq(S \cap set)
  /\ \A n \in DOMAIN sel : /\ Position(s, set, n) \in DOMAIN s
                           /\ sel[n] = s[Position(s, set, n)]
  /\ \A m, n \in DOMAIN sel : m < n => Position(s, set, m) < Position(s, set, n)
  /\ \A i \in DOMAIN s : s[i] \in set => \E n \in DOMAIN sel : sel[n] = s[i]

LEMMA SelectedSpec ==
  ASSUME NEW S, NEW s \in Seq(S), NEW set
  PROVE  InOrder(Selected(s, set), s, set, S)
<1> DEFINE card == Cardinality(Hits(s, set))
<1>1. card \in Nat /\ Hits(s, set) \subseteq DOMAIN s /\ Hits(s, set) \subseteq Int
  BY HitsFinite
<1>2. Selected(s, set) = [n \in 1 .. card |-> s[Position(s, set, n)]]
  BY DEF Selected, Position
<1>3. /\ \A n \in 1 .. card : Position(s, set, n) \in Hits(s, set)
                              /\ Rank(s, set, Position(s, set, n)) = n
      /\ \A i \in Hits(s, set) : Position(s, set, Rank(s, set, i)) = i
  BY PositionSpec
<1> HIDE DEF card
<1>4. \A n \in 1 .. card : s[Position(s, set, n)] \in S \cap set
  BY <1>1, <1>3 DEF Hits
<1>5. ASSUME NEW m \in 1 .. card, NEW n \in 1 .. card, m < n
      PROVE  Position(s, set, m) < Position(s, set, n)
  <2> DEFINE p == Position(s, set, m)
             q == Position(s, set, n)
  <2>1. p \in Hits(s, set) /\ q \in Hits(s, set) /\ Rank(s, set, p) = m /\ Rank(s, set, q) = n
    BY <1>3
  <2> HIDE DEF p, q
  <2>2. ~(q < p)
    BY <1>5, <2>1, RankMonotone
  <2>3. p # q
    BY <1>5, <2>1
  <2>4. p < q
    BY <1>1, <2>1, <2>2, <2>3
  <2>5. QED
    BY <2>4 DEF p, q
<1>6. ASSUME NEW i \in DOMAIN s, s[i] \in set
      PROVE  \E n \in 1 .. card : s[Position(s, set, n)] = s[i]
  <2>1. i \in Hits(s, set)
    BY <1>6 DEF Hits
  <2>2. Rank(s, set, i) \in 1 .. card
    BY <2>1, RankMonotone DEF card
  <2>3. QED
    BY <1>3, <2>1, <2>2
<1>7. Selected(s, set) \in Seq(S \cap set)
  BY <1>1, <1>2, <1>4
<1>8. QED
  BY <1>1, <1>2, <1>3, <1>5, <1>6, <1>7 DEF InOrder

-----------------------------------------------------------------------------
(***************************************************************************)
(* A set of positions has a last one.                                      *)
(***************************************************************************)
LEMMA MaxPosition ==
  ASSUME NEW n \in Nat, NEW set \in SUBSET (1 .. n), set # {}
  PROVE  Max(set) \in set /\ \A i \in set : i <= Max(set)
<1> DEFINE s == [i \in 1 .. n |-> i]
           card == Cardinality(Hits(s, set))
           last == Position(s, set, card)
<1>1. s \in Seq(Nat) /\ Hits(s, set) = set
  <2>1. DOMAIN s = 1 .. n /\ \A i \in 1 .. n : s[i] = i
    OBVIOUS
  <2>2. s \in Seq(Nat)
    OBVIOUS
  <2> HIDE DEF s
  <2>3. QED
    BY <2>1, <2>2 DEF Hits
<1> HIDE DEF s
<1>2. card \in Nat /\ \A i \in set : Rank(s, set, i) \in 1 .. card
  BY <1>1, HitsFinite, RankMonotone
<1>3. card \in 1 .. card
  <2> HIDE DEF card
  <2>1. PICK i \in set : TRUE
    OBVIOUS
  <2>2. QED
    BY <1>2, <2>1
<1>4. last \in set /\ Rank(s, set, last) = card
  BY <1>1, <1>3, PositionSpec
<1> HIDE DEF last, card
<1>5. ASSUME NEW i \in set PROVE i <= last
  <2>1. last \in Nat /\ i \in Nat
    BY <1>4
  <2>2. last < i => Rank(s, set, last) < Rank(s, set, i)
    BY <1>1, <1>4, RankMonotone
  <2>3. Rank(s, set, i) \in 1 .. card
    BY <1>2
  <2>4. ~(last < i)
    BY <1>2, <1>4, <2>2, <2>3
  <2>5. QED
    BY <2>1, <2>4
<1>6. \A i \in set : last >= i
  BY <1>4, <1>5
<1>7. Max(set) \in set /\ \A i \in set : Max(set) >= i
  BY <1>4, <1>6 DEF Max
<1>8. QED
  BY <1>7

(***************************************************************************)
(* The first n members of a wire.                                          *)
(***************************************************************************)
Prefix(w, n) == [i \in 1 .. n |-> w[i]]

LEMMA EmptyMeaning == ASSUME NEW w PROVE Meaning(Prefix(w, 0)) = ZeroStruct
<1>1. DOMAIN Prefix(w, 0) = {}
  BY DEF Prefix
<1>2. \A f : Carriers(Prefix(w, 0), f) = {} /\ Holding(Prefix(w, 0), f) = {}
  BY <1>1 DEF Carriers, Holding
<1>3. ASSUME NEW f \in Known PROVE Meaning(Prefix(w, 0))[f] = Unset(f)
  <2>1. Kind[f] \in {"string", "pointer", "map"}
    BY CodecAssumption
  <2>2. CASE Kind[f] = "string"
    BY <1>2, <2>2 DEF Meaning, MeaningFor, ValueOf, Unset
  <2>3. CASE Kind[f] = "pointer"
    BY <1>2, <2>3 DEF Meaning, MeaningFor, ValueOf, Unset
  <2>4. CASE Kind[f] = "map"
    BY <1>2, <2>4 DEF Meaning, MeaningFor, Unset
  <2>5. QED
    BY <2>1, <2>2, <2>3, <2>4
<1>4. QED
  BY <1>3 DEF Meaning, MeaningFor, ZeroStruct

(***************************************************************************)
(* One more member changes the meaning of the field it is for, as Stored   *)
(* changes the field of a struct, and no other.                            *)
(***************************************************************************)
LEMMA NextMeaning ==
  ASSUME NEW w, NEW n \in Nat, NEW f \in Known
  PROVE  LET old   == Meaning(Prefix(w, n))[f]
             value == w[n + 1].value
         IN  Meaning(Prefix(w, n + 1))[f] =
               IF f \in FieldsFor(w[n + 1].name) THEN Stored(f, old, value) ELSE old
<1> DEFINE u == Prefix(w, n)
           v == Prefix(w, n + 1)
           last == w[n + 1]
<1>1. /\ DOMAIN u = 1 .. n /\ DOMAIN v = 1 .. n + 1 /\ DOMAIN v = DOMAIN u \cup {n + 1}
      /\ n + 1 \notin DOMAIN u /\ v[n + 1] = last
      /\ \A i \in DOMAIN u : v[i] = u[i]
  BY DEF Prefix
<1> HIDE DEF u, v, last
<1>2. Carriers(u, f) \subseteq 1 .. n /\ Holding(u, f) \subseteq Carriers(u, f)
  BY <1>1 DEF Carriers, Holding
<1>3. ASSUME NEW positions \in SUBSET (1 .. n), NEW default
      PROVE  ValueOf(v, positions, default) = ValueOf(u, positions, default)
  <2>1. positions # {} => Max(positions) \in 1 .. n
    BY MaxPosition
  <2>2. QED
    BY <1>1, <2>1 DEF ValueOf
<1>4. ASSUME NEW positions \in SUBSET (1 .. n), NEW default
      PROVE  ValueOf(v, positions \cup {n + 1}, default) = last.value
  <2> DEFINE all == positions \cup {n + 1}
             top == n + 1
             max == Max(all)
  <2>1. top \in Nat /\ all \in SUBSET (1 .. top) /\ all # {} /\ top \in all
    OBVIOUS
  <2>2. max \in all /\ top <= max
    <3> HIDE DEF all, top
    <3>1. QED
      BY <2>1, MaxPosition
  <2>3. max \in 1 .. top
    BY <2>1, <2>2
  <2>4. max = top
    <3> HIDE DEF all, top, max
    <3>1. QED
      BY <2>1, <2>2, <2>3
  <2>5. QED
    BY <1>1, <2>1, <2>4 DEF ValueOf
<1>5. Kind[f] \in {"string", "pointer", "map"}
  BY CodecAssumption
<1>6. CASE f \notin FieldsFor(last.name)
  <2>1. Carriers(v, f) = Carriers(u, f) /\ Holding(v, f) = Holding(u, f)
    BY <1>1, <1>6 DEF Carriers, Holding
  <2>2. CASE Kind[f] = "string"
    <3>1. Meaning(v)[f] = Meaning(u)[f]
      BY <1>2, <1>3, <2>1, <2>2 DEF Meaning, MeaningFor
    <3>2. QED
      BY <1>6, <3>1 DEF u, v, last
  <2>3. CASE Kind[f] = "pointer"
    <3>1. Meaning(v)[f] = Meaning(u)[f]
      BY <1>2, <1>3, <2>1, <2>3 DEF Meaning, MeaningFor
    <3>2. QED
      BY <1>6, <3>1 DEF u, v, last
  <2>4. CASE Kind[f] = "map"
    <3>1. Meaning(v)[f] = Meaning(u)[f]
      BY <1>1, <1>2, <2>1, <2>4 DEF Meaning, MeaningFor
    <3>2. QED
      BY <1>6, <3>1 DEF u, v, last
  <2>5. QED
    BY <1>5, <2>2, <2>3, <2>4
<1>7. CASE f \in FieldsFor(last.name)
  <2>1. Carriers(v, f) = Carriers(u, f) \cup {n + 1}
    BY <1>1, <1>7 DEF Carriers
  <2>2. Holding(v, f) = IF last.value = Null THEN Holding(u, f) ELSE Holding(u, f) \cup {n + 1}
    BY <1>1, <1>2, <2>1 DEF Holding
  <2>3. Meaning(v)[f] = Stored(f, Meaning(u)[f], last.value)
    <3>1. CASE Kind[f] = "string" /\ last.value = Null
      BY <1>2, <1>3, <2>2, <3>1 DEF Meaning, MeaningFor, Stored
    <3>2. CASE Kind[f] = "string" /\ last.value # Null
      BY <1>2, <1>4, <2>2, <3>2 DEF Meaning, MeaningFor, Stored
    <3>3. CASE Kind[f] = "pointer"
      BY <1>2, <1>4, <2>1, <3>3 DEF Meaning, MeaningFor, Stored
    <3>4. CASE Kind[f] = "map"
      <4> DEFINE Kept(w_) == {j \in Holding(w_, f) : \A k \in Carriers(w_, f) :
                                k > j => k \in Holding(w_, f)}
      <4>1. Meaning(u)[f] = UNION {u[i].value : i \in Kept(u)}
            /\ Meaning(v)[f] = UNION {v[i].value : i \in Kept(v)}
        BY <3>4 DEF Meaning, MeaningFor
      <4>2. CASE last.value = Null
        <5>1. Kept(v) = {}
          BY <1>2, <2>1, <2>2, <4>2
        <5>2. QED
          BY <3>4, <4>1, <4>2, <5>1 DEF Stored
      <4>3. CASE last.value # Null
        <5>1. Kept(v) = Kept(u) \cup {n + 1}
          BY <1>2, <2>1, <2>2, <4>3
        <5>2. \A i \in Kept(u) : v[i].value = u[i].value
          BY <1>1, <1>2
        <5> HIDE DEF Kept
        <5>3. UNION {v[i].value : i \in Kept(v)} = (UNION {u[i].value : i \in Kept(u)}) \cup last.value
          BY <1>1, <5>1, <5>2
        <5>4. QED
          BY <3>4, <4>1, <4>3, <5>3 DEF Stored
      <4>4. QED
        BY <4>2, <4>3
    <3>5. QED
      BY <1>5, <3>1, <3>2, <3>3, <3>4
  <2>4. QED
    BY <1>7, <2>3 DEF u, v, last
<1>8. QED
  BY <1>6, <1>7 DEF last

-----------------------------------------------------------------------------
(***************************************************************************)
(* The members of the selected names of a list without repetitions, each   *)
(* with its value: what KnownPart and ExtraPart are.                       *)
(***************************************************************************)
Rows(names, set, value) ==
  [n \in DOMAIN Selected(names, set) |->
     Member(Selected(names, set)[n], value[Selected(names, set)[n]])]

Listed(rows, names, set, value, Vals) ==
  /\ rows \in Seq([name : ToSet(Names), value : Vals])
  /\ \A n \in DOMAIN rows : /\ rows[n].name \in ToSet(names) \cap set
                            /\ rows[n].value = value[rows[n].name]
  /\ \A m, n \in DOMAIN rows : m < n => /\ Follows(names, rows[n].name, rows[m].name)
                                        /\ rows[n].name # rows[m].name
  /\ \A name \in ToSet(names) \cap set : \E n \in DOMAIN rows : rows[n].name = name

LEMMA RowsSpec ==
  ASSUME NEW names \in Seq(ToSet(Names)), IsInjective(names), NEW set, NEW value,
         NEW Vals, \A n \in ToSet(names) \cap set : value[n] \in Vals
  PROVE  Listed(Rows(names, set, value), names, set, value, Vals)
<1> DEFINE sel == Selected(names, set)
           rows == Rows(names, set, value)
<1>0. names \in Seq(ToSet(names))
  BY DEF ToSet
<1>1. InOrder(sel, names, set, ToSet(names))
  <2> HIDE DEF sel
  <2>1. QED
    BY <1>0, SelectedSpec DEF sel
<1>2. ToSet(names) \subseteq ToSet(Names)
  BY DEF ToSet
<1>3. rows = [n \in DOMAIN sel |-> Member(sel[n], value[sel[n]])]
  BY DEF Rows
<1> HIDE DEF sel, rows
<1>4. DOMAIN rows = DOMAIN sel /\ \A n \in DOMAIN sel : rows[n].name = sel[n]
                                    /\ rows[n].value = value[sel[n]]
  BY <1>3 DEF Member
<1>5. DOMAIN sel = 1 .. Len(sel) /\ Len(sel) \in Nat
      /\ \A n \in DOMAIN sel : sel[n] \in ToSet(names) \cap set
  BY <1>1 DEF InOrder
<1>6. rows \in Seq([name : ToSet(Names), value : Vals])
  <2>1. \A n \in DOMAIN sel : Member(sel[n], value[sel[n]]) \in [name : ToSet(Names), value : Vals]
    BY <1>2, <1>5 DEF Member
  <2>3. rows \in [1 .. Len(sel) -> [name : ToSet(Names), value : Vals]]
    BY <1>3, <1>5, <2>1, Zenon
  <2> DEFINE T == [name : ToSet(Names), value : Vals]
  <2> HIDE DEF T
  <2>4. rows \in [1 .. Len(sel) -> T]
    BY <2>3 DEF T
  <2>5. rows \in Seq(T)
    BY <1>5, <2>4
  <2>6. QED
    BY <2>5 DEF T
<1>7. ASSUME NEW m \in DOMAIN rows, NEW n \in DOMAIN rows, m < n
      PROVE  /\ Follows(names, rows[n].name, rows[m].name)
             /\ rows[n].name # rows[m].name
  <2>1. Position(names, set, m) < Position(names, set, n) /\ Position(names, set, m) \in DOMAIN names /\ Position(names, set, n) \in DOMAIN names
    BY <1>1, <1>4, <1>7 DEF InOrder
  <2>2. rows[m].name = names[Position(names, set, m)] /\ rows[n].name = names[Position(names, set, n)]
    BY <1>1, <1>4 DEF InOrder
  <2>3. Position(names, set, m) # Position(names, set, n)
    <3>1. Position(names, set, m) \in Int /\ Position(names, set, n) \in Int
      BY <2>1
    <3>2. QED
      BY <2>1, <3>1
  <2>4. names[Position(names, set, m)] # names[Position(names, set, n)]
    BY <2>1, <2>3 DEF IsInjective
  <2>5. QED
    BY <2>1, <2>2, <2>4 DEF Follows
<1>8. ASSUME NEW name \in ToSet(names) \cap set
      PROVE  \E n \in DOMAIN rows : rows[n].name = name
  <2>1. PICK i \in DOMAIN names : names[i] = name
    BY DEF ToSet
  <2>2. QED
    BY <1>1, <1>4, <2>1 DEF InOrder
<1>9. QED
  BY <1>4, <1>5, <1>6, <1>7, <1>8 DEF rows, Listed

(***************************************************************************)
(* Names selected from a list of distinct names begin with the first of    *)
(* the list, when it is among them.                                        *)
(***************************************************************************)
LEMMA RowsFirst ==
  ASSUME NEW names \in Seq(ToSet(Names)), names # <<>>, NEW set, NEW value,
         Head(names) \in set
  PROVE  LET rows == Rows(names, set, value)
         IN  1 \in DOMAIN rows /\ rows[1] = Member(Head(names), value[Head(names)])
<1> DEFINE card == Cardinality(Hits(names, set))
           r == Rank(names, set, 1)
           first == Position(names, set, 1)
<1>1. Head(names) = names[1] /\ 1 \in DOMAIN names /\ DOMAIN names \subseteq Nat \ {0}
  OBVIOUS
<1>2. 1 \in Hits(names, set)
  BY <1>1 DEF Hits
<1>3. r \in 1 .. card /\ Position(names, set, r) = 1 /\ card \in Nat
  BY <1>2, RankMonotone, PositionSpec, HitsFinite
<1> HIDE DEF r, card
<1>4. 1 \in 1 .. card
  BY <1>3
<1>5. first \in Hits(names, set) /\ Rank(names, set, first) = 1 /\ first \in DOMAIN names
  BY <1>4, PositionSpec, HitsFinite DEF card
<1> HIDE DEF first
<1>6. first = 1
  <2>1. 1 < first => r < Rank(names, set, first)
    BY <1>2, <1>5, RankMonotone DEF r
  <2>2. QED
    BY <1>1, <1>3, <1>5, <2>1
<1>7. Selected(names, set) = [n \in 1 .. card |-> names[Position(names, set, n)]]
  BY DEF Selected, Position, card
<1>8. Selected(names, set)[1] = Head(names) /\ 1 \in DOMAIN Selected(names, set)
  BY <1>1, <1>4, <1>6, <1>7 DEF first
<1>9. QED
  BY <1>8 DEF Rows


-----------------------------------------------------------------------------
(***************************************************************************)
(* The members that carry an object, in any order: the fields that are set *)
(* and the members of Extra no field has, each once with its value.  Its   *)
(* encoding: "@type" leads, the fields come in declaration order and then  *)
(* the others, in sorted order.                                            *)
(***************************************************************************)
Carries(w, fields, extra, Vals) ==
  /\ w \in Seq([name : ToSet(Names), value : Vals])
  /\ \A i, j \in DOMAIN w : i < j => w[i].name # w[j].name
  /\ \A i \in DOMAIN w :
       \/ /\ w[i].name \in Known
          /\ w[i].value = fields[w[i].name] /\ w[i].value # Unset(w[i].name)
       \/ /\ w[i].name \in DOMAIN extra \ Known
          /\ w[i].value = extra[w[i].name]
  /\ \A f \in Known : fields[f] # Unset(f) => \E i \in DOMAIN w : w[i].name = f
  /\ \A n \in (DOMAIN extra \cap ToSet(Names)) \ Known : \E i \in DOMAIN w : w[i].name = n

Encoding(w, fields, extra, Vals) ==
  /\ Carries(w, fields, extra, Vals)
  /\ w # <<>> /\ w[1] = Member(AtType, Type)
  /\ \A i, j \in DOMAIN w : i < j =>
       \/ Follows(Fields, w[j].name, w[i].name)
       \/ w[i].name \in Known /\ w[j].name \notin Known
       \/ /\ w[i].name \notin Known /\ w[j].name \notin Known
          /\ Follows(Names, w[j].name, w[i].name)

LEMMA EncodedSpec ==
  ASSUME NEW obj, DOMAIN obj.fields = Known, NEW Vals, Type \in Vals,
         \A f \in Known : obj.fields[f] \in Vals,
         \A n \in DOMAIN obj.extra \ Known : obj.extra[n] \in Vals
  PROVE  Encoding(Encoded(obj), Forced(obj.fields), obj.extra, Vals)
<1> DEFINE fields == Forced(obj.fields)
           extra == obj.extra
           set == {f \in Known : fields[f] # Unset(f)}
           rest == DOMAIN extra \ Known
           front == KnownPart(fields)
           back == ExtraPart(extra)
           M == [name : ToSet(Names), value : Vals]
           w == front \o back
<1>1. /\ AtType \in Known /\ Known = ToSet(Fields)
      /\ DOMAIN fields = Known /\ fields[AtType] = Type
      /\ \A f \in Known : fields[f] \in Vals
  <2>1. AtType \in Known
    BY CodecAssumption DEF Known, AtType, ToSet
  <2>2. QED
    BY <2>1 DEF Forced, Known
<1>2. Type # Unset(AtType)
  BY CodecAssumption DEF Unset
<1>3. front = Rows(Fields, set, fields) /\ back = Rows(Names, rest, extra)
  BY DEF KnownPart, ExtraPart, Rows
<1>4. Listed(front, Fields, set, fields, Vals)
  <2>1. \A n \in ToSet(Fields) \cap set : fields[n] \in Vals
    BY <1>1
  <2> HIDE DEF fields, set, front
  <2>2. QED
    BY <1>3, <2>1, RowsSpec, CodecAssumption
<1>5. Listed(back, Names, rest, extra, Vals)
  <2>1. \A n \in ToSet(Names) \cap rest : extra[n] \in Vals
    OBVIOUS
  <2> HIDE DEF extra, rest, back
  <2>2. QED
    BY <1>3, <2>1, RowsSpec, CodecAssumption
<1>6. 1 \in DOMAIN front /\ front[1] = Member(AtType, Type)
  <2>1. AtType \in set
    BY <1>1, <1>2
  <2> HIDE DEF fields, set, front
  <2>2. QED
    BY <1>1, <1>3, <2>1, RowsFirst, CodecAssumption DEF AtType
<1>7. \A f \in set : f \in Known /\ fields[f] # Unset(f)
  OBVIOUS
<1>8. \A n : n \in rest <=> n \in DOMAIN extra /\ n \notin Known
  OBVIOUS
<1>9. \A f \in Known : fields[f] # Unset(f) => f \in set
  OBVIOUS
<1>10. Encoded(obj) = w
  BY DEF Encoded
<1> HIDE DEF fields, extra, set, rest, front, back, w
<1> DEFINE k == Len(front)
           l == Len(back)
<1>11. /\ front \in Seq(M) /\ back \in Seq(M) /\ k \in Nat /\ l \in Nat
       /\ DOMAIN front = 1 .. k /\ DOMAIN back = 1 .. l
  BY <1>4, <1>5 DEF Listed
<1>12. /\ w \in Seq(M) /\ DOMAIN w = 1 .. k + l
       /\ \A i \in 1 .. k : w[i] = front[i]
       /\ \A i \in 1 .. k + l : ~(i <= k) => w[i] = back[i - k]
       /\ \A i \in 1 .. l : w[i + k] = back[i]
  <2> HIDE DEF M
  <2>1. /\ w \in Seq(M) /\ Len(w) = k + l
        /\ \A i \in 1 .. k + l : w[i] = IF i <= k THEN front[i] ELSE back[i - k]
    BY <1>11, ConcatProperties DEF w
  <2>2. DOMAIN w = 1 .. k + l
    BY <2>1
  <2> HIDE DEF k, l
  <2>3. \A i \in 1 .. k : i \in 1 .. k + l /\ i <= k
    BY <1>11
  <2>4. \A i \in 1 .. l : i + k \in 1 .. k + l /\ ~(i + k <= k) /\ (i + k) - k = i
    BY <1>11
  <2>5. \A i \in 1 .. l : w[i + k] = back[i]
    BY <2>1, <2>4
  <2>6. QED
    BY <2>1, <2>2, <2>3, <2>5
<1> HIDE DEF M, k, l
<1>13. \A i \in 1 .. k + l : i \in 1 .. k \/ (~(i <= k) /\ i - k \in 1 .. l)
  BY <1>11
<1>14. \A i \in 1 .. k : /\ w[i].name \in Known /\ w[i].name \in set
                         /\ w[i].value = fields[w[i].name]
  <2> SUFFICES ASSUME NEW i \in 1 .. k
               PROVE  /\ w[i].name \in Known /\ w[i].name \in set
                      /\ w[i].value = fields[w[i].name]
    OBVIOUS
  <2>1. i \in DOMAIN front /\ w[i] = front[i]
    BY <1>11, <1>12
  <2>2. QED
    BY <1>4, <1>7, <2>1 DEF Listed
<1>15. \A i \in 1 .. k + l : ~(i <= k) =>
         /\ w[i].name \notin Known /\ w[i].name \in DOMAIN extra
         /\ w[i].value = extra[w[i].name]
  <2> SUFFICES ASSUME NEW i \in 1 .. k + l, ~(i <= k)
               PROVE  /\ w[i].name \notin Known /\ w[i].name \in DOMAIN extra
                      /\ w[i].value = extra[w[i].name]
    OBVIOUS
  <2>1. i - k \in DOMAIN back /\ w[i] = back[i - k]
    BY <1>11, <1>12, <1>13
  <2>2. QED
    BY <1>5, <1>8, <2>1 DEF Listed
<1>16. ASSUME NEW i \in 1 .. k + l, NEW j \in 1 .. k + l, i < j
       PROVE  /\ w[i].name # w[j].name
              /\ \/ Follows(Fields, w[j].name, w[i].name)
                 \/ w[i].name \in Known /\ w[j].name \notin Known
                 \/ /\ w[i].name \notin Known /\ w[j].name \notin Known
                    /\ Follows(Names, w[j].name, w[i].name)
  <2>1. CASE j <= k
    <3>1. i \in 1 .. k /\ j \in 1 .. k
      BY <1>11, <1>16, <2>1
    <3>2. /\ i \in DOMAIN front /\ w[i] = front[i]
          /\ j \in DOMAIN front /\ w[j] = front[j]
      BY <1>11, <1>12, <3>1
    <3>3. /\ Follows(Fields, w[j].name, w[i].name)
          /\ w[j].name # w[i].name
      BY <1>4, <1>16, <3>2 DEF Listed
    <3>4. QED
      BY <3>3
  <2>2. CASE i <= k /\ ~(j <= k)
    <3>1. i \in 1 .. k
      BY <1>11, <2>2
    <3>2. w[i].name \in Known /\ w[j].name \notin Known
      BY <1>14, <1>15, <2>2, <3>1
    <3>3. QED
      BY <3>2
  <2>3. CASE ~(i <= k) /\ ~(j <= k)
    <3>1. /\ i - k \in DOMAIN back /\ w[i] = back[i - k]
          /\ j - k \in DOMAIN back /\ w[j] = back[j - k]
      BY <1>11, <1>12, <1>13, <2>3
    <3>2. i - k < j - k
      BY <1>11, <1>16
    <3>3. /\ Follows(Names, w[j].name, w[i].name)
          /\ w[j].name # w[i].name
      BY <1>5, <3>1, <3>2 DEF Listed
    <3>4. w[i].name \notin Known /\ w[j].name \notin Known
      BY <1>15, <2>3
    <3>5. QED
      BY <3>3, <3>4
  <2>4. i <= k \/ ~(i <= k)
    OBVIOUS
  <2>5. (~(i <= k)) => ~(j <= k)
    BY <1>11, <1>16
  <2>6. QED
    BY <2>1, <2>2, <2>3, <2>5
<1>17. ASSUME NEW f \in Known, fields[f] # Unset(f)
       PROVE  \E i \in 1 .. k + l : w[i].name = f
  <2>1. PICK i \in 1 .. k : front[i].name = f
    BY <1>1, <1>4, <1>9, <1>11, <1>17 DEF Listed
  <2>2. i \in 1 .. k + l
    BY <1>11
  <2>3. QED
    BY <1>12, <2>1, <2>2
<1>18. ASSUME NEW n \in (DOMAIN extra \cap ToSet(Names)) \ Known
       PROVE  \E i \in 1 .. k + l : w[i].name = n
  <2>1. PICK i \in 1 .. l : back[i].name = n
    BY <1>5, <1>8, <1>11 DEF Listed
  <2>2. i + k \in 1 .. k + l
    BY <1>11
  <2>3. QED
    BY <1>12, <2>1, <2>2
<1>19. 1 \in DOMAIN w /\ w[1] = Member(AtType, Type) /\ w # <<>>
  <2>1. 1 \in 1 .. k /\ 1 \in 1 .. k + l
    BY <1>6, <1>11
  <2>2. 1 \in DOMAIN w /\ w[1] = front[1]
    BY <1>12, <2>1
  <2>3. w # <<>>
    BY <2>2
  <2>4. QED
    BY <1>6, <2>2, <2>3, Zenon
<1>20. \A i \in 1 .. k + l :
         \/ /\ w[i].name \in Known
            /\ w[i].value = fields[w[i].name] /\ w[i].value # Unset(w[i].name)
         \/ /\ w[i].name \in DOMAIN extra \ Known
            /\ w[i].value = extra[w[i].name]
  BY <1>7, <1>13, <1>14, <1>15
<1>21. Encoding(w, fields, extra, Vals)
  BY <1>12, <1>16, <1>17, <1>18, <1>19, <1>20 DEF Encoding, Carries, M
<1>22. QED
  BY <1>10, <1>21 DEF fields, extra

-----------------------------------------------------------------------------
(***************************************************************************)
(* When Extra holds no other spelling of a field's name, every member that *)
(* carries the object is for the field of its own name, and fits it, or    *)
(* for none.                                                               *)
(***************************************************************************)
LEMMA CarriedFits ==
  ASSUME NEW w, NEW fields, NEW extra, NEW Vals, Carries(w, fields, extra, Vals),
         Typed(fields), DOMAIN extra \cap DOMAIN Variants = {}
  PROVE  \A i \in DOMAIN w, f \in Known :
           /\ f \in FieldsFor(w[i].name) <=> w[i].name = f
           /\ w[i].name = f => /\ w[i].value = fields[f] /\ w[i].value # Unset(f)
                               /\ Fits(f, w[i].value)
<1> SUFFICES ASSUME NEW i \in DOMAIN w, NEW f \in Known
             PROVE  /\ f \in FieldsFor(w[i].name) <=> w[i].name = f
                    /\ w[i].name = f => /\ w[i].value = fields[f] /\ w[i].value # Unset(f)
                                        /\ Fits(f, w[i].value)
  OBVIOUS
<1>1. \/ /\ w[i].name \in Known
         /\ w[i].value = fields[w[i].name] /\ w[i].value # Unset(w[i].name)
      \/ w[i].name \in DOMAIN extra /\ w[i].name \notin Known
  BY DEF Carries
<1>2. f \in FieldsFor(w[i].name) <=> w[i].name = f
  <2>1. CASE w[i].name \in Known
    BY <2>1 DEF FieldsFor
  <2>2. CASE w[i].name \notin Known
    <3>1. DOMAIN Variants \cap {w[i].name} = {}
      BY <1>1, <2>2
    <3>2. QED
      BY <2>2, <3>1 DEF FieldsFor
  <2>3. QED
    BY <2>1, <2>2
<1>3. Fits(f, fields[f])
  <2>1. Kind[f] \in {"string", "pointer", "map"}
    BY CodecAssumption
  <2>2. QED
    BY <2>1 DEF Typed, Fits
<1>4. QED
  BY <1>1, <1>2, <1>3

(***************************************************************************)
(* Decoding what carries an object gives the fields back.                  *)
(***************************************************************************)
LEMMA CarriedMeans ==
  ASSUME NEW w, NEW fields, NEW extra, NEW Vals, Carries(w, fields, extra, Vals),
         Typed(fields), DOMAIN extra \cap DOMAIN Variants = {}
  PROVE  Meaning(w) = fields
<1>1. ASSUME NEW f \in Known PROVE Meaning(w)[f] = fields[f]
  <2>1. Carriers(w, f) = {i \in DOMAIN w : w[i].name = f}
    BY CarriedFits DEF Carriers
  <2>2. Kind[f] \in {"string", "pointer", "map"}
    BY CodecAssumption
  <2>3. CASE fields[f] = Unset(f)
    <3>1. Carriers(w, f) = {} /\ Holding(w, f) = {}
      BY <2>1, <2>3, CarriedFits DEF Holding
    <3>2. CASE Kind[f] = "string"
      BY <2>3, <3>1, <3>2 DEF Meaning, MeaningFor, ValueOf, Unset
    <3>3. CASE Kind[f] = "pointer"
      BY <2>3, <3>1, <3>3 DEF Meaning, MeaningFor, ValueOf, Unset
    <3>4. CASE Kind[f] = "map"
      BY <2>3, <3>1, <3>4 DEF Meaning, MeaningFor, Unset
    <3>5. QED
      BY <2>2, <3>2, <3>3, <3>4
  <2>4. CASE fields[f] # Unset(f)
    <3>1. PICK i \in DOMAIN w : w[i].name = f
      BY <2>4 DEF Carries
    <3>2. /\ \A m, n \in DOMAIN w : m < n => w[m].name # w[n].name
          /\ DOMAIN w \subseteq Nat
      BY DEF Carries
    <3>3. Carriers(w, f) = {i}
      <4>1. ASSUME NEW j \in DOMAIN w, w[j].name = f PROVE j = i
        BY <3>1, <3>2, <4>1
      <4>2. QED
        BY <2>1, <3>1, <4>1
    <3>4. w[i].value = fields[f]
      BY <3>1, CarriedFits
    <3>5. Max({i}) = i
      BY <3>2 DEF Max
    <3>6. CASE Kind[f] = "string"
      <4>1. Holding(w, f) = {i}
        BY <3>3, <3>4, <3>6, CodecAssumption DEF Holding, Typed
      <4>2. QED
        BY <3>4, <3>5, <3>6, <4>1 DEF Meaning, MeaningFor, ValueOf
    <3>7. CASE Kind[f] = "pointer"
      BY <3>3, <3>4, <3>5, <3>7 DEF Meaning, MeaningFor, ValueOf
    <3>8. CASE Kind[f] = "map"
      <4>1. Holding(w, f) = {i}
        BY <3>3, <3>4, <3>8, CodecAssumption DEF Holding, Typed
      <4>2. Meaning(w)[f] = UNION {w[j].value : j \in {i}}
        <5>1. {j \in Holding(w, f) : \A k \in Carriers(w, f) : k > j => k \in Holding(w, f)} = {i}
          BY <3>3, <4>1
        <5>2. QED
          BY <3>8, <5>1 DEF Meaning, MeaningFor
      <4>3. QED
        BY <3>4, <4>2
    <3>9. QED
      BY <2>2, <3>6, <3>7, <3>8
  <2>5. QED
    BY <2>3, <2>4
<1>2. fields = [f \in Known |-> fields[f]]
  BY DEF Typed
<1>3. Meaning(w) = [f \in Known |-> Meaning(w)[f]]
  BY DEF Meaning
<1>4. QED
  BY <1>1, <1>2, <1>3, Zenon


(***************************************************************************)
(* The last value of a name is one of its values, that of the last member. *)
(***************************************************************************)
LEMMA LastOfSpec ==
  ASSUME NEW S, NEW w \in Seq(S), NEW i \in DOMAIN w
  PROVE  /\ \E j \in DOMAIN w : w[j].name = w[i].name /\ LastOf(w, w[i].name) = w[j].value
         /\ (\A j \in DOMAIN w : j > i => w[j].name # w[i].name) =>
              LastOf(w, w[i].name) = w[i].value
<1> DEFINE name == w[i].name
           set == {j \in DOMAIN w : w[j].name = name}
           len == Len(w)
           max == Max(set)
<1>1. len \in Nat /\ DOMAIN w = 1 .. len
  OBVIOUS
<1> HIDE DEF name, len
<1>2. set \in SUBSET (1 .. len) /\ set # {}
  <2>1. i \in set
    BY DEF name
  <2>2. QED
    BY <1>1, <2>1
<1>3. max \in set /\ \A k \in set : k <= max
  <2> HIDE DEF set
  <2>1. QED
    BY <1>1, <1>2, MaxPosition
<1>4. \E j \in DOMAIN w : w[j].name = name /\ \A k \in DOMAIN w : w[k].name = name => k <= j
  <2> HIDE DEF max
  <2>1. QED
    BY <1>3
<1>5. \E j \in DOMAIN w : /\ w[j].name = name /\ LastOf(w, name) = w[j].value
                         /\ \A k \in DOMAIN w : w[k].name = name => k <= j
  BY <1>4 DEF LastOf
<1>6. QED
  BY <1>1, <1>5 DEF name

(***************************************************************************)
(* ... and the members of Extra no field has.                              *)
(***************************************************************************)
LEMMA CarriedCaptured ==
  ASSUME NEW w, NEW fields, NEW extra, NEW Vals, Carries(w, fields, extra, Vals),
         DOMAIN extra \subseteq ToSet(Names)
  PROVE  Captured(w) = Unmodelled(extra)
<1> DEFINE rest == DOMAIN extra \ Known
<1>1. /\ \A m, n \in DOMAIN w : m < n => w[m].name # w[n].name
      /\ DOMAIN w \subseteq Nat
      /\ w \in Seq([name : ToSet(Names), value : Vals])
      /\ \A i \in DOMAIN w : w[i].name \notin Known =>
           w[i].name \in rest /\ w[i].value = extra[w[i].name]
      /\ \A n \in rest : \E i \in DOMAIN w : w[i].name = n
  BY DEF Carries
<1>2. Unknown(w) = rest
  BY <1>1 DEF Unknown
<1>3. ASSUME NEW n \in rest PROVE LastOf(w, n) = extra[n]
  <2>1. PICK i \in DOMAIN w : w[i].name = n
    BY <1>1
  <2>2. \A j \in DOMAIN w : j > i => w[j].name # w[i].name
    BY <1>1
  <2>3. LastOf(w, w[i].name) = w[i].value
    BY <1>1, <2>2, LastOfSpec
  <2>4. QED
    BY <1>1, <2>1, <2>3
<1>4. QED
  BY <1>2, <1>3 DEF Captured, Unmodelled

(***************************************************************************)
(* What an encode drops makes no difference to the next encode.            *)
(***************************************************************************)
LEMMA EncodedNormal ==
  ASSUME NEW obj, DOMAIN obj.fields = Known
  PROVE  Encoded(Normal(obj)) = Encoded(obj)
<1> DEFINE rest == DOMAIN obj.extra \ Known
           extra == [n \in rest |-> obj.extra[n]]
           kept == Selected(Names, rest)
<1>1. Normal(obj).fields = Forced(obj.fields) /\ Normal(obj).extra = extra
  BY DEF Normal, Forced, Unmodelled
<1>2. Forced(Forced(obj.fields)) = Forced(obj.fields)
  BY DEF Forced
<1>3. DOMAIN extra \ Known = rest
  OBVIOUS
<1>4. \A i \in DOMAIN kept : extra[kept[i]] = obj.extra[kept[i]]
  <2>1. InOrder(kept, Names, rest, ToSet(Names))
    <3> HIDE DEF kept, rest
    <3>1. QED
      BY CodecAssumption, SelectedSpec DEF kept
  <2> HIDE DEF kept
  <2>2. \A i \in DOMAIN kept : kept[i] \in rest
    BY <2>1 DEF InOrder
  <2>3. QED
    BY <2>2
<1>5. ExtraPart(obj.extra) = [i \in DOMAIN kept |-> Member(kept[i], obj.extra[kept[i]])]
  BY DEF ExtraPart
<1>6. ExtraPart(extra) = [i \in DOMAIN kept |-> Member(kept[i], extra[kept[i]])]
  <2> HIDE DEF extra, rest
  <2>1. QED
    BY <1>3, Zenon DEF ExtraPart
<1>7. ExtraPart(extra) = ExtraPart(obj.extra)
  <2> HIDE DEF extra, kept
  <2>1. QED
    BY <1>4, <1>5, <1>6
<1> HIDE DEF extra
<1>8. QED
  BY <1>1, <1>2, <1>7 DEF Encoded

-----------------------------------------------------------------------------
(***************************************************************************)
(* A name is decoded into fields of the struct; the zero struct has its    *)
(* types.                                                                  *)
(***************************************************************************)
LEMMA FieldsForKnown == \A name : FieldsFor(name) \subseteq Known
BY CodecAssumption DEF FieldsFor

LEMMA ZeroTyped == Typed(ZeroStruct)
<1>1. ASSUME NEW f \in Known
      PROVE  /\ Unset(f) \in Values
             /\ Unset(f) \in CASE Kind[f] = "string"  -> Scalars
                               [] Kind[f] = "pointer" -> Scalars \cup {Null}
                               [] Kind[f] = "map"     -> Sets
  <2>1. Kind[f] \in {"string", "pointer", "map"}
    BY CodecAssumption
  <2>2. CASE Kind[f] = "string"
    BY <2>2, CodecAssumption DEF Unset, Values
  <2>3. CASE Kind[f] = "pointer"
    BY <2>3 DEF Unset, Values
  <2>4. CASE Kind[f] = "map"
    BY <2>4, CodecAssumption DEF Unset, Values
  <2>5. QED
    BY <2>1, <2>2, <2>3, <2>4
<1>2. ZeroStruct \in [Known -> Values]
  BY <1>1 DEF ZeroStruct
<1>3. \A f \in Known : ZeroStruct[f] = Unset(f)
  BY DEF ZeroStruct
<1>4. QED
  BY <1>1, <1>2, <1>3 DEF Typed

(***************************************************************************)
(* A value that fits keeps a field of its kind; so does the discriminator. *)
(***************************************************************************)
LEMMA StoredTyped ==
  ASSUME NEW fields, Typed(fields), NEW f \in Known, NEW v, Fits(f, v)
  PROVE  /\ Stored(f, fields[f], v) \in Values
         /\ Stored(f, fields[f], v) \in CASE Kind[f] = "string"  -> Scalars
                                          [] Kind[f] = "pointer" -> Scalars \cup {Null}
                                          [] Kind[f] = "map"     -> Sets
<1>1. Kind[f] \in {"string", "pointer", "map"}
  BY CodecAssumption
<1>2. CASE Kind[f] = "string"
  <2>1. fields[f] \in Scalars /\ v \in Scalars \cup {Null}
    BY <1>2 DEF Typed, Fits
  <2>2. Stored(f, fields[f], v) = IF v = Null THEN fields[f] ELSE v
    BY <1>2 DEF Stored
  <2>3. QED
    BY <1>2, <2>1, <2>2 DEF Values
<1>3. CASE Kind[f] = "pointer"
  <2>1. v \in Scalars \cup {Null} /\ Stored(f, fields[f], v) = v
    BY <1>3 DEF Fits, Stored
  <2>2. QED
    BY <1>3, <2>1 DEF Values
<1>4. CASE Kind[f] = "map"
  <2>1. fields[f] \in Sets /\ v \in Sets \cup {Null}
    BY <1>4 DEF Typed, Fits
  <2>2. Stored(f, fields[f], v) = IF v = Null THEN {} ELSE fields[f] \cup v
    BY <1>4 DEF Stored
  <2>3. Stored(f, fields[f], v) \in Sets
    BY <2>1, <2>2, CodecAssumption
  <2>4. QED
    BY <1>4, <2>3 DEF Values
<1>5. QED
  BY <1>1, <1>2, <1>3, <1>4

LEMMA ForcedTyped ==
  ASSUME NEW fields, Typed(fields)
  PROVE  /\ Typed(Forced(fields)) /\ Forced(Forced(fields)) = Forced(fields)
         /\ DOMAIN fields = Known
<1>1. AtType \in Known /\ Kind[AtType] = "string" /\ Type \in Scalars
  BY CodecAssumption DEF Known, AtType, ToSet
<1>2. Forced(fields) \in [Known -> Values] /\ DOMAIN fields = Known
  <2>1. fields \in [Known -> Values] /\ Type \in Values
    BY <1>1 DEF Typed, Values
  <2>2. QED
    BY <1>1, <2>1 DEF Forced
<1>3. /\ Forced(fields)[AtType] = Type
      /\ \A f \in Known : f # AtType => Forced(fields)[f] = fields[f]
  BY <1>1, <1>2 DEF Forced, Typed
<1>4. Typed(Forced(fields))
  <2>1. ASSUME NEW f \in Known
        PROVE  Forced(fields)[f] \in CASE Kind[f] = "string"  -> Scalars
                                       [] Kind[f] = "pointer" -> Scalars \cup {Null}
                                       [] Kind[f] = "map"     -> Sets
    <3>1. CASE f = AtType
      BY <1>1, <1>3, <3>1
    <3>2. CASE f # AtType
      BY <1>3, <3>2 DEF Typed
    <3>3. QED
      BY <3>1, <3>2
  <2>2. QED
    BY <1>2, <2>1 DEF Typed
<1>5. Forced(Forced(fields)) = Forced(fields)
  BY DEF Forced
<1>6. QED
  BY <1>2, <1>4, <1>5

(***************************************************************************)
(* A wire is a list of members; decoding its unknown members gives an      *)
(* Extra of its names and values.                                          *)
(***************************************************************************)
LEMMA WireLen ==
  ASSUME NEW w \in WireType
  PROVE  /\ Len(w) \in Nat /\ DOMAIN w = 1 .. Len(w)
         /\ \A i \in DOMAIN w : w[i].name \in ToSet(Names) /\ w[i].value \in Values
<1> DEFINE M == [name : ToSet(Names), value : Values]
<1>1. \A m \in M : m.name \in ToSet(Names) /\ m.value \in Values
  OBVIOUS
<1>2. w \in Seq(M)
  BY DEF WireType
<1> HIDE DEF M
<1>3. Len(w) \in Nat /\ DOMAIN w = 1 .. Len(w) /\ \A i \in DOMAIN w : w[i] \in M
  BY <1>2
<1>4. QED
  BY <1>1, <1>3

LEMMA CapturedTyped ==
  ASSUME NEW w \in WireType
  PROVE  /\ DOMAIN Captured(w) \subseteq ToSet(Names)
         /\ \A n \in DOMAIN Captured(w) : Captured(w)[n] \in Values
<1>1. \A i \in DOMAIN w : w[i].name \in ToSet(Names) /\ w[i].value \in Values
  BY WireLen
<1>2. DOMAIN Captured(w) = Unknown(w)
  BY DEF Captured
<1>3. ASSUME NEW n \in Unknown(w) PROVE n \in ToSet(Names) /\ LastOf(w, n) \in Values
  <2>1. PICK i \in DOMAIN w : w[i].name = n
    BY DEF Unknown
  <2>2. \E j \in DOMAIN w : LastOf(w, w[i].name) = w[j].value
    BY LastOfSpec DEF WireType
  <2>3. QED
    BY <1>1, <2>1, <2>2
<1>4. QED
  BY <1>2, <1>3 DEF Captured

LEMMA PrefixWhole == ASSUME NEW w \in WireType PROVE Prefix(w, Len(w)) = w
BY DEF WireType, Prefix

-----------------------------------------------------------------------------
(***************************************************************************)
(* A nonempty set of numbers has a least one: the form of induction used   *)
(* here.                                                                   *)
(***************************************************************************)
LEMMA LeastNat ==
  ASSUME NEW T, T \subseteq Nat, T # {}
  PROVE  \E n \in T : \A m \in T : n <= m
<1>1. IsWellFoundedOn(OpToRel(<, Nat), Nat)
  BY NatLessThanWellFounded
<1>2. PICK n \in T : \A m \in T : <<m, n>> \notin OpToRel(<, Nat)
  BY <1>1, WFMin
<1>3. \A m \in T : ~(m < n)
  BY <1>2 DEF OpToRel
<1>4. QED
  BY <1>3

(***************************************************************************)
(* A wire whose members fit means a struct of the fields' types.           *)
(***************************************************************************)
LEMMA MeaningTyped ==
  ASSUME NEW w \in WireType,
         \A i \in DOMAIN w : \A f \in FieldsFor(w[i].name) : Fits(f, w[i].value)
  PROVE  Typed(Meaning(w))
<1> DEFINE T == {n \in 0 .. Len(w) : ~Typed(Meaning(Prefix(w, n)))}
           type(f) == CASE Kind[f] = "string"  -> Scalars
                        [] Kind[f] = "pointer" -> Scalars \cup {Null}
                        [] Kind[f] = "map"     -> Sets
<1>1. Len(w) \in Nat /\ DOMAIN w = 1 .. Len(w)
  BY WireLen
<1>2. T = {}
  <2> SUFFICES ASSUME T # {} PROVE FALSE
    OBVIOUS
  <2>1. T \subseteq Nat
    BY <1>1
  <2>2. PICK n \in T : \A m \in T : n <= m
    <3> HIDE DEF T
    <3>1. QED
      BY <2>1, LeastNat
  <2>3. n \in 0 .. Len(w) /\ ~Typed(Meaning(Prefix(w, n)))
    BY <2>2
  <2>4. n # 0
    BY <2>3, EmptyMeaning, ZeroTyped
  <2>5. n - 1 \in Nat /\ n - 1 \in 0 .. Len(w) /\ n \in 1 .. Len(w) /\ (n - 1) + 1 = n
    BY <1>1, <2>3, <2>4
  <2>6. n - 1 \notin T
    BY <2>2, <2>5
  <2> DEFINE old == Meaning(Prefix(w, n - 1))
             new == Meaning(Prefix(w, n))
             value == w[n].value
  <2>7. Typed(old)
    BY <2>5, <2>6
  <2>8. ASSUME NEW f \in Known
        PROVE  new[f] = IF f \in FieldsFor(w[n].name) THEN Stored(f, old[f], value) ELSE old[f]
    BY <2>5, NextMeaning
  <2>9. \A f \in FieldsFor(w[n].name) : Fits(f, value)
    BY <1>1, <2>5
  <2>10. new = [f \in Known |-> new[f]]
    BY DEF Meaning
  <2> HIDE DEF old, new, value, type
  <2>11. ASSUME NEW f \in Known PROVE new[f] \in Values /\ new[f] \in type(f)
    <3>1. CASE f \in FieldsFor(w[n].name)
      <4>1. Stored(f, old[f], value) \in Values /\ Stored(f, old[f], value) \in type(f)
        BY <2>7, <2>9, <3>1, StoredTyped DEF type
      <4>2. QED
        BY <2>8, <3>1, <4>1
    <3>2. CASE f \notin FieldsFor(w[n].name)
      <4>1. old[f] \in Values /\ old[f] \in type(f)
        BY <2>7 DEF Typed, type
      <4>2. QED
        BY <2>8, <3>2, <4>1
    <3>3. QED
      BY <3>1, <3>2
  <2>12. Typed(new)
    <3>1. new \in [Known -> Values]
      BY <2>10, <2>11
    <3>2. QED
      BY <2>11, <3>1 DEF Typed, type
  <2>13. QED
    BY <2>3, <2>12 DEF new
<1>3. Len(w) \notin T /\ Len(w) \in 0 .. Len(w)
  BY <1>1, <1>2
<1>4. Prefix(w, Len(w)) = w
  BY PrefixWhole
<1>5. Typed(Meaning(Prefix(w, Len(w))))
  BY <1>3
<1>6. QED
  BY <1>4, <1>5

(***************************************************************************)
(* Where at most one member is for a field, the field means its value, and *)
(* nothing when there is none or its value is null.                        *)
(***************************************************************************)
Lone(w) ==
  \A i, j \in DOMAIN w : i # j =>
    w[i].name # w[j].name /\ FieldsFor(w[i].name) \cap FieldsFor(w[j].name) = {}

MeansOne(meaning, unset, value) == meaning = IF value = Null THEN unset ELSE value

LEMMA LoneMeaning ==
  ASSUME NEW w \in WireType, Lone(w), NEW f \in Known
  PROVE  /\ (\A i \in DOMAIN w : f \notin FieldsFor(w[i].name)) => Meaning(w)[f] = Unset(f)
         /\ \A i \in DOMAIN w : f \in FieldsFor(w[i].name) => MeansOne(Meaning(w)[f], Unset(f), w[i].value)
<1>1. Kind[f] \in {"string", "pointer", "map"}
  BY CodecAssumption
<1>2. Meaning(w)[f] = MeaningFor(w, f)
  BY DEF Meaning
<1>3. Len(w) \in Nat /\ DOMAIN w = 1 .. Len(w)
  BY WireLen
<1>4. ASSUME \A i \in DOMAIN w : f \notin FieldsFor(w[i].name)
      PROVE  Meaning(w)[f] = Unset(f)
  <2>1. Carriers(w, f) = {} /\ Holding(w, f) = {}
    BY <1>4 DEF Carriers, Holding
  <2>2. CASE Kind[f] = "string"
    BY <1>2, <2>1, <2>2 DEF MeaningFor, ValueOf, Unset
  <2>3. CASE Kind[f] = "pointer"
    BY <1>2, <2>1, <2>3 DEF MeaningFor, ValueOf, Unset
  <2>4. CASE Kind[f] = "map"
    BY <1>2, <2>1, <2>4 DEF MeaningFor, Unset
  <2>5. QED
    BY <1>1, <2>2, <2>3, <2>4
<1>5. ASSUME NEW i \in DOMAIN w, f \in FieldsFor(w[i].name)
      PROVE  MeansOne(Meaning(w)[f], Unset(f), w[i].value)
  <2>1. Carriers(w, f) = {i}
    <3>1. ASSUME NEW j \in DOMAIN w, f \in FieldsFor(w[j].name) PROVE j = i
      <4>1. j # i => FieldsFor(w[i].name) \cap FieldsFor(w[j].name) = {}
        BY DEF Lone
      <4>2. QED
        BY <1>5, <3>1, <4>1
    <3>2. QED
      BY <1>5, <3>1 DEF Carriers
  <2>2. Max({i}) = i
    BY <1>3 DEF Max
  <2>3. Holding(w, f) = IF w[i].value = Null THEN {} ELSE {i}
    BY <2>1 DEF Holding
  <2>4. CASE Kind[f] = "string"
    BY <1>2, <2>2, <2>3, <2>4 DEF MeaningFor, ValueOf, Unset, MeansOne
  <2>5. CASE Kind[f] = "pointer"
    BY <1>2, <2>1, <2>2, <2>5 DEF MeaningFor, ValueOf, Unset, MeansOne
  <2>6. CASE Kind[f] = "map"
    <3>1. CASE w[i].value = Null
      <4>1. Holding(w, f) = {}
        BY <2>3, <3>1
      <4>2. MeaningFor(w, f) = {}
        BY <2>6, <4>1 DEF MeaningFor
      <4>3. QED
        BY <1>2, <2>6, <3>1, <4>2 DEF Unset, MeansOne
    <3>2. CASE w[i].value # Null
      <4>1. {j \in Holding(w, f) : \A k \in Carriers(w, f) : k > j => k \in Holding(w, f)} = {i}
        BY <2>1, <2>3, <3>2
      <4>2. MeaningFor(w, f) = UNION {w[j].value : j \in {i}}
        BY <2>6, <4>1 DEF MeaningFor
      <4>3. QED
        BY <1>2, <3>2, <4>2 DEF MeansOne
    <3>3. QED
      BY <3>1, <3>2
  <2>7. QED
    BY <1>1, <2>4, <2>5, <2>6
<1>6. QED
  BY <1>4, <1>5

(***************************************************************************)
(* Where no name is repeated, the last member of a name is the only one.   *)
(***************************************************************************)
LEMMA LoneLast ==
  ASSUME NEW w \in WireType, \A i, j \in DOMAIN w : i # j => w[i].name # w[j].name,
         NEW i \in DOMAIN w
  PROVE  LastOf(w, w[i].name) = w[i].value
<1>1. DOMAIN w \subseteq Nat
  BY WireLen
<1>2. \A j \in DOMAIN w : j > i => w[j].name # w[i].name
  BY <1>1
<1>3. QED
  BY <1>2, LastOfSpec DEF WireType

(***************************************************************************)
(* Two such wires of the same members mean the same, in whatever order.    *)
(***************************************************************************)
Within(v, w) ==
  \A i \in DOMAIN v : \E j \in DOMAIN w : w[j].name = v[i].name /\ w[j].value = v[i].value

LEMMA SameMembers ==
  ASSUME NEW v \in WireType, NEW w \in WireType, Lone(v), Lone(w), Within(v, w), Within(w, v)
  PROVE  Meaning(v) = Meaning(w) /\ Captured(v) = Captured(w)
<1>1. ASSUME NEW f \in Known PROVE Meaning(v)[f] = Meaning(w)[f]
  <2>1. CASE \E i \in DOMAIN v : f \in FieldsFor(v[i].name)
    <3>1. PICK i \in DOMAIN v : f \in FieldsFor(v[i].name)
      BY <2>1
    <3>2. PICK j \in DOMAIN w : w[j].name = v[i].name /\ w[j].value = v[i].value
      BY DEF Within
    <3>3. MeansOne(Meaning(v)[f], Unset(f), v[i].value)
      BY <3>1, LoneMeaning
    <3>4. MeansOne(Meaning(w)[f], Unset(f), w[j].value)
      BY <3>1, <3>2, LoneMeaning
    <3>5. QED
      BY <3>2, <3>3, <3>4 DEF MeansOne
  <2>2. CASE \A i \in DOMAIN v : f \notin FieldsFor(v[i].name)
    <3>1. \A j \in DOMAIN w : f \notin FieldsFor(w[j].name)
      BY <2>2 DEF Within
    <3>2. Meaning(v)[f] = Unset(f)
      BY <2>2, LoneMeaning
    <3>3. Meaning(w)[f] = Unset(f)
      BY <3>1, LoneMeaning
    <3>4. QED
      BY <3>2, <3>3
  <2>3. QED
    BY <2>1, <2>2
<1>2. Meaning(v) = Meaning(w)
  <2>1. Meaning(v) = [f \in Known |-> Meaning(v)[f]] /\ Meaning(w) = [f \in Known |-> Meaning(w)[f]]
    BY DEF Meaning
  <2> DEFINE a == Meaning(v)
             b == Meaning(w)
  <2>2. a = [f \in Known |-> a[f]] /\ b = [f \in Known |-> b[f]] /\ \A f \in Known : a[f] = b[f]
    BY <1>1, <2>1
  <2> HIDE DEF a, b
  <2>3. a = b
    BY <2>2
  <2>4. QED
    BY <2>3 DEF a, b
<1>3. Unknown(v) = Unknown(w)
  BY DEF Unknown, Within
<1>4. ASSUME NEW n \in Unknown(v) PROVE LastOf(v, n) = LastOf(w, n)
  <2>1. PICK i \in DOMAIN v : v[i].name = n
    BY DEF Unknown
  <2>2. PICK j \in DOMAIN w : w[j].name = n /\ w[j].value = v[i].value
    BY <2>1 DEF Within
  <2>3. LastOf(v, v[i].name) = v[i].value /\ LastOf(w, w[j].name) = w[j].value
    BY LoneLast DEF Lone
  <2>4. QED
    BY <2>1, <2>2, <2>3
<1>5. QED
  BY <1>2, <1>3, <1>4 DEF Captured

=============================================================================
