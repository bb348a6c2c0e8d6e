---------------------------- MODULE PatchProofs ----------------------------
(***************************************************************************)
(* Proofs about patches and their keys.  Pointer: what its operators       *)
(* compute for every text, the pieces between slashes, the tilde escapes,  *)
(* and that the tokens of a well-escaped key determine it.                 *)
(* PatchValidation: the verdict is a function of the key set, the nil      *)
(* error if all keys are well formed and else the least offender, and an   *)
(* accepted patch addresses no member twice.  PatchApplication: the copy   *)
(* stays a tree, a key changes only what it addresses, the "@type" of the  *)
(* document survives, and the keys applied one by one amount to the        *)
(* overlay of the whole patch.                                             *)
(***************************************************************************)
EXTENDS PatchApplication, PatchValidation, FiniteSetTheorems, SequenceTheorems, TLAPS

-----------------------------------------------------------------------------
(***************************************************************************)
(* The least-number principle, the form of induction used below.           *)
(***************************************************************************)
LEMMA LeastNat ==
  ASSUME NEW T, T \subseteq Nat, T # {}
  PROVE  \E n \in T : \A m \in T : n <= m
<1>1. IsWellFoundedOn(OpToRel(<, Nat), Nat)
  BY NatLessThanWellFounded
<1>2. PICK n \in T : \A m \in T : <<m, n>> \notin OpToRel(<, Nat)
  BY <1>1, WFMin
<1>3. \A m \in T : ~(m < n)
  BY <1>2 DEF OpToRel
<1>4. QED
  BY <1>3

(***************************************************************************)
(* The order of texts is strict, so a sorting repeats no key; having as    *)
(* many positions as there are keys it leaves none out.                    *)
(***************************************************************************)
LEMMA BeforeIrreflexive ==
  ASSUME NEW k \in Seq(Nat)
  PROVE  ~Before(k, k)
<1>1. ~IsStrictPrefix(k, k)
  BY DEF IsStrictPrefix
<1>2. \A i \in DOMAIN k : ~(k[i] < k[i])
  OBVIOUS
<1>3. QED
  BY <1>1, <1>2 DEF Before

LEMMA SortingsCover ==
  ASSUME NEW set, IsFiniteSet(set), set \subseteq Seq(Nat), NEW q \in Sortings(set)
  PROVE  /\ q \in Seq(set)
         /\ \A i, j \in 1 .. Len(q) : i < j => Before(q[i], q[j])
         /\ \A k \in set : \E i \in 1 .. Len(q) : q[i] = k
<1> DEFINE n == Cardinality(set)
<1>1. n \in Nat
  BY FS_CardinalityType
<1>2. q \in [1 .. n -> set] /\ \A i, j \in 1 .. n : i < j => Before(q[i], q[j])
  BY DEF Sortings
<1> HIDE DEF n
<1>3. q \in Seq(set) /\ Len(q) = n
  BY <1>1, <1>2
<1>4. q \in Injection(1 .. n, set)
  <2>1. ASSUME NEW i \in 1 .. n, NEW j \in 1 .. n, i < j PROVE q[i] # q[j]
    BY <1>2, <2>1, BeforeIrreflexive
  <2>2. \A i, j \in 1 .. n : q[i] = q[j] => i = j
    BY <1>1, <2>1
  <2>3. QED
    BY <1>2, <2>2 DEF Injection, IsInjective
<1>5. Cardinality(1 .. n) = n
  BY <1>1, FS_Interval
<1>6. q \in Surjection(1 .. n, set)
  BY <1>4, <1>5, FS_Injection DEF n
<1>7. \A k \in set : \E i \in 1 .. n : q[i] = k
  BY <1>6 DEF Surjection
<1>8. QED
  BY <1>2, <1>3, <1>7

-----------------------------------------------------------------------------
(***************************************************************************)
(* Positions in increasing order: all of them, each once.                  *)
(***************************************************************************)
LEMMA RankMonotone ==
  ASSUME NEW set, IsFiniteSet(set), set \subseteq Int, NEW i \in set, NEW j \in set
  PROVE  /\ Rank(set, i) \in 1 .. Cardinality(set)
         /\ i < j => Rank(set, i) < Rank(set, j)
<1> DEFINE upto(k) == {m \in set : m <= k}
<1>1. Cardinality(set) \in Nat
  BY FS_CardinalityType
<1>2. \A k : /\ IsFiniteSet(upto(k)) /\ Cardinality(upto(k)) \in Nat
             /\ Cardinality(upto(k)) <= Cardinality(set)
  <2> SUFFICES ASSUME NEW k
               PROVE  /\ IsFiniteSet(upto(k)) /\ Cardinality(upto(k)) \in Nat
                      /\ Cardinality(upto(k)) <= Cardinality(set)
    OBVIOUS
  <2>1. upto(k) \in SUBSET set
    OBVIOUS
  <2>2. IsFiniteSet(upto(k)) /\ Cardinality(upto(k)) <= Cardinality(set)
    BY <2>1, FS_Subset
  <2>3. QED
    BY <2>2, FS_CardinalityType
<1>3. Cardinality(upto(i)) # 0
  <2>1. i \in upto(i)
    OBVIOUS
  <2>2. QED
    BY <1>2, <2>1, FS_EmptySet
<1>4. ASSUME i < j PROVE Cardinality(upto(i)) < Cardinality(upto(j))
  <2>1. /\ \A m \in set : m <= i => m <= j
        /\ j <= j /\ ~(j <= i)
    BY <1>4
  <2>2. upto(i) \in SUBSET upto(j) /\ j \in upto(j) /\ j \notin upto(i)
    BY ONLY <2>1, j \in set, Zenon
  <2>3. Cardinality(upto(i)) <= Cardinality(upto(j))
    BY <1>2, <2>2, FS_Subset
  <2>4. Cardinality(upto(i)) # Cardinality(upto(j))
    BY <1>2, <2>2, FS_Subset
  <2>5. Cardinality(upto(i)) \in Nat /\ Cardinality(upto(j)) \in Nat
    BY <1>2
  <2> HIDE DEF upto
  <2>6. QED
    BY <2>3, <2>4, <2>5
<1>5. Rank(set, i) = Cardinality(upto(i)) /\ Rank(set, j) = Cardinality(upto(j))
  BY DEF Rank
<1>6. Cardinality(upto(i)) \in Nat /\ Cardinality(upto(i)) <= Cardinality(set)
  BY <1>2
<1> HIDE DEF upto
<1>7. QED
  BY <1>1, <1>3, <1>4, <1>5, <1>6

LEMMA RankOnto ==
  ASSUME NEW set, IsFiniteSet(set), set \subseteq Int
  PROVE  /\ \A n \in 1 .. Cardinality(set) : \E i \in set : Rank(set, i) = n
         /\ \A i, j \in set : Rank(set, i) = Rank(set, j) => i = j
<1> DEFINE card == Cardinality(set)
           rank == [i \in set |-> Rank(set, i)]
<1>1. card \in Nat
  BY FS_CardinalityType
<1>2. /\ rank \in [set -> 1 .. card]
      /\ \A i, j \in set : i < j => Rank(set, i) < Rank(set, j)
  BY RankMonotone
<1>3. \A i, j \in set : Rank(set, i) = Rank(set, j) => i = j
  <2> SUFFICES ASSUME NEW i \in set, NEW j \in set, i # j
               PROVE  Rank(set, i) # Rank(set, j)
    OBVIOUS
  <2>1. i < j \/ j < i
    OBVIOUS
  <2>2. /\ i < j => Rank(set, i) < Rank(set, j)
        /\ j < i => Rank(set, j) < Rank(set, i)
        /\ Rank(set, i) \in Int /\ Rank(set, j) \in Int
    BY <1>1, <1>2
  <2>3. QED
    BY <2>1, <2>2
<1>4. rank \in Injection(set, 1 .. card)
  BY <1>2, <1>3 DEF Injection, IsInjective
<1>5. IsFiniteSet(1 .. card) /\ Cardinality(1 .. card) = card
  BY <1>1, FS_Interval
<1>6. rank \in Surjection(set, 1 .. card)
  <2> HIDE DEF rank, card
  <2>1. card = Cardinality(set)
    BY DEF card
  <2>2. QED
    BY <1>4, <1>5, <2>1, FS_Injection
<1>7. QED
  BY <1>3, <1>6 DEF Surjection

Ascends(s, set) ==
  /\ s \in Seq(Nat)
  /\ \A n \in 1 .. Len(s) : s[n] \in set
  /\ \A m, n \in 1 .. Len(s) : m < n => s[m] < s[n]
  /\ \A i \in set : \E n \in 1 .. Len(s) : s[n] = i

LEMMA AscendingSpec ==
  ASSUME NEW set, IsFiniteSet(set), set \subseteq Nat
  PROVE  Ascends(Ascending(set), set)
<1> DEFINE s    == Ascending(set)
           card == Cardinality(set)
<1>1. card \in Nat /\ set \subseteq Int
  BY FS_CardinalityType
<1>2. /\ \A i \in set : Rank(set, i) \in 1 .. card
      /\ \A i, j \in set : i < j => Rank(set, i) < Rank(set, j)
      /\ \A i, j \in set : Rank(set, i) = Rank(set, j) => i = j
  BY <1>1, RankMonotone, RankOnto
<1>3. \A n \in 1 .. card : s[n] \in set /\ Rank(set, s[n]) = n
  <2>1. \A n \in 1 .. card : \E i \in set : Rank(set, i) = n
    BY <1>1, RankOnto
  <2>2. \A n \in 1 .. card : s[n] = CHOOSE i \in set : Rank(set, i) = n
    BY DEF Ascending
  <2>3. QED
    BY <2>1, <2>2
<1>4. DOMAIN s = 1 .. card /\ s = [n \in 1 .. card |-> s[n]]
  BY DEF Ascending
<1> HIDE DEF s, card
<1>5. s \in Seq(Nat) /\ Len(s) = card
  <2>1. \A n \in 1 .. card : s[n] \in Nat
    BY <1>3
  <2>2. QED
    BY <1>1, <1>4, <2>1
<1>6. ASSUME NEW m \in 1 .. card, NEW n \in 1 .. card, m < n PROVE s[m] < s[n]
  <2>1. s[m] \in set /\ s[n] \in set
    BY <1>3
  <2>2. ~(n < m) /\ m # n
    BY <1>1, <1>6
  <2>3. ~(s[n] < s[m]) /\ s[n] # s[m]
    BY <1>2, <1>3, <2>1, <2>2
  <2>4. s[m] \in Nat /\ s[n] \in Nat
    BY <2>1
  <2>5. QED
    BY <2>3, <2>4
<1>7. ASSUME NEW i \in set PROVE \E n \in 1 .. card : s[n] = i
  <2>1. Rank(set, i) \in 1 .. card
    BY <1>2
  <2>2. s[Rank(set, i)] = i
    BY <1>2, <1>3, <2>1
  <2>3. QED
    BY <2>1, <2>2
<1>8. QED
  BY <1>3, <1>5, <1>6, <1>7 DEF s, Ascends

LEMMA AscendsGapless ==
  ASSUME NEW set, NEW s, Ascends(s, set),
         NEW n \in 1 .. Len(s), NEW i \in set, s[n] < i
  PROVE  n < Len(s) /\ s[n + 1] <= i
<1>1. PICK m \in 1 .. Len(s) : s[m] = i
  BY DEF Ascends
<1>2. s \in Seq(Nat) /\ Len(s) \in Nat /\ s[n] \in Nat /\ s[m] \in Nat
  BY DEF Ascends
<1>3. n < m
  <2>1. m < n => s[m] < s[n]
    BY DEF Ascends
  <2>2. QED
    BY <1>1, <1>2, <2>1
<1>4. n + 1 \in 1 .. Len(s) /\ (n + 1 = m \/ n + 1 < m)
  BY <1>2, <1>3
<1>5. n + 1 < m => s[n + 1] < s[m]
  BY <1>4 DEF Ascends
<1>6. s[n + 1] \in Nat
  BY <1>2, <1>4
<1>7. QED
  BY <1>1, <1>2, <1>3, <1>4, <1>5, <1>6

-----------------------------------------------------------------------------
(***************************************************************************)
(* ReplaceAll keeps the first position, passes over two where the pair is  *)
(* and over one elsewhere, and so on to the end.                           *)
(***************************************************************************)
After(text, digit, i) == i + (IF i \in Hits(text, digit) THEN 2 ELSE 1)

LEMMA KeptFinite ==
  ASSUME NEW text \in Seq(Nat), NEW digit
  PROVE  /\ IsFiniteSet(Kept(text, digit))
         /\ Kept(text, digit) \subseteq 1 .. Len(text)
         /\ Kept(text, digit) \subseteq Nat
<1>1. Kept(text, digit) \in SUBSET (1 .. Len(text))
  BY DEF Kept
<1>2. Len(text) \in Nat
  OBVIOUS
<1>3. IsFiniteSet(1 .. Len(text))
  BY <1>2, FS_Interval
<1>4. QED
  BY <1>1, <1>3, FS_Subset

LEMMA AfterSpec ==
  ASSUME NEW text \in Seq(Nat), NEW digit \in Nat, digit # Tilde, NEW i \in Kept(text, digit)
  PROVE  /\ After(text, digit, i) \in Nat
         /\ i < After(text, digit, i) /\ After(text, digit, i) <= Len(text) + 1
         /\ \A j \in Kept(text, digit) : i < j => After(text, digit, i) <= j
         /\ After(text, digit, i) <= Len(text) => After(text, digit, i) \in Kept(text, digit)
<1>1. i \in 1 .. Len(text) /\ Len(text) \in Nat
  BY DEF Kept
<1>2. CASE i \in Hits(text, digit)
  <2>1. i < Len(text) /\ text[i + 1] = digit
    BY <1>2 DEF Hits
  <2>2. i + 1 \notin Kept(text, digit)
    BY <1>1, <1>2 DEF Kept
  <2>3. i + 1 \notin Hits(text, digit)
    BY <2>1 DEF Hits
  <2>4. i + 2 <= Len(text) => i + 2 \in Kept(text, digit)
    BY <1>1, <2>3 DEF Kept
  <2>5. \A j \in Kept(text, digit) : j \in Nat
    BY DEF Kept
  <2>6. QED
    BY <1>1, <1>2, <2>1, <2>2, <2>4, <2>5 DEF After
<1>3. CASE i \notin Hits(text, digit)
  <2>1. i + 1 <= Len(text) => i + 1 \in Kept(text, digit)
    BY <1>1, <1>3 DEF Kept
  <2>2. \A j \in Kept(text, digit) : j \in Nat
    BY DEF Kept
  <2>3. QED
    BY <1>1, <1>3, <2>1, <2>2 DEF After
<1>4. QED
  BY <1>2, <1>3

Walks(kept, text, digit) ==
  /\ kept \in Seq(Nat) /\ Len(kept) \in Nat
  /\ \A n \in 1 .. Len(kept) : kept[n] \in Kept(text, digit) /\ kept[n] \in 1 .. Len(text)
  /\ \A i \in Kept(text, digit) : \E n \in 1 .. Len(kept) : kept[n] = i
  /\ IF text = <<>> THEN Len(kept) = 0 ELSE Len(kept) > 0 /\ kept[1] = 1
  /\ \A n \in 1 .. Len(kept) :
       IF n < Len(kept) THEN kept[n + 1] = After(text, digit, kept[n])
       ELSE After(text, digit, kept[n]) = Len(text) + 1

LEMMA KeptSteps ==
  ASSUME NEW text \in Seq(Nat), NEW digit \in Nat, digit # Tilde,
         NEW kept, kept = Ascending(Kept(text, digit))
  PROVE  Walks(kept, text, digit)
<1> DEFINE set == Kept(text, digit)
<1>1. set \subseteq 1 .. Len(text)
  BY KeptFinite
<1>2. Ascends(kept, set)
  BY KeptFinite, AscendingSpec
<1>3. /\ kept \in Seq(Nat) /\ Len(kept) \in Nat
      /\ \A n \in 1 .. Len(kept) : kept[n] \in set /\ kept[n] \in 1 .. Len(text)
      /\ \A m, n \in 1 .. Len(kept) : m < n => kept[m] < kept[n]
      /\ \A i \in set : \E n \in 1 .. Len(kept) : kept[n] = i
  BY <1>1, <1>2 DEF Ascends
<1>4. IF text = <<>> THEN Len(kept) = 0 ELSE Len(kept) > 0 /\ kept[1] = 1
  <2>1. CASE text = <<>>
    <3>1. \A n \in 1 .. Len(kept) : FALSE
      BY <1>3, <2>1
    <3>2. QED
      BY <1>3, <2>1, <3>1
  <2>2. CASE text # <<>>
    <3>1. 1 \in set
      BY <2>2 DEF Kept, Hits
    <3>2. PICK n \in 1 .. Len(kept) : kept[n] = 1
      BY <1>3, <3>1
    <3>3. 1 \in 1 .. Len(kept) /\ Len(kept) > 0
      BY <1>3
    <3>4. kept[1] \in 1 .. Len(text) /\ (1 < n => kept[1] < kept[n])
      BY <1>3, <3>3
    <3>5. QED
      BY <1>3, <2>2, <3>2, <3>3, <3>4
  <2>3. QED
    BY <2>1, <2>2
<1>5. ASSUME NEW n \in 1 .. Len(kept)
      PROVE  IF n < Len(kept) THEN kept[n + 1] = After(text, digit, kept[n])
             ELSE After(text, digit, kept[n]) = Len(text) + 1
  <2> DEFINE next == After(text, digit, kept[n])
  <2>1. kept[n] \in 1 .. Len(text) /\ kept[n] \in set
    BY <1>3
  <2>2. /\ next \in Nat /\ kept[n] < next /\ next <= Len(text) + 1
        /\ \A i \in set : kept[n] < i => next <= i
        /\ next <= Len(text) => next \in set
    BY <2>1, AfterSpec
  <2> HIDE DEF next
  <2>3. CASE n < Len(kept)
    <3>1. n + 1 \in 1 .. Len(kept)
      BY <1>3, <2>3
    <3>2. kept[n] < kept[n + 1] /\ kept[n + 1] \in set /\ kept[n + 1] \in 1 .. Len(text)
      BY <1>3, <3>1
    <3>3. next <= kept[n + 1] /\ next \in set
      BY <2>2, <3>2
    <3>4. kept[n + 1] <= next
      BY <1>2, <2>2, <3>3, AscendsGapless
    <3>5. QED
      BY <2>2, <2>3, <3>2, <3>3, <3>4 DEF next
  <2>4. CASE ~(n < Len(kept))
    <3>1. ~(next <= Len(text))
      BY <1>2, <2>2, <2>4, AscendsGapless
    <3>2. QED
      BY <2>2, <2>4, <3>1 DEF next
  <2>5. QED
    BY <2>3, <2>4
<1>6. QED
  BY <1>3, <1>4, <1>5 DEF Walks

(***************************************************************************)
(* A pass leaves, for each position kept, the character put for the pair   *)
(* or the one that was there.                                              *)
(***************************************************************************)
Writes(r, kept, text, digit, char) ==
  /\ r \in Seq(Nat)
  /\ Len(r) = Len(kept)
  /\ \A n \in 1 .. Len(kept) :
       r[n] = IF kept[n] \in Hits(text, digit) THEN char ELSE text[kept[n]]

LEMMA ReplaceSpec ==
  ASSUME NEW text \in Seq(Nat), NEW digit \in Nat, NEW char \in Nat, digit # Tilde,
         NEW kept, kept = Ascending(Kept(text, digit))
  PROVE  Writes(ReplaceEscape(text, digit, char), kept, text, digit, char)
<1> DEFINE r == ReplaceEscape(text, digit, char)
<1>1. /\ kept \in Seq(Nat) /\ Len(kept) \in Nat /\ DOMAIN kept = 1 .. Len(kept)
      /\ \A n \in 1 .. Len(kept) : kept[n] \in 1 .. Len(text)
  BY KeptSteps DEF Walks
<1>2. r = [n \in 1 .. Len(kept) |->
             IF kept[n] \in Hits(text, digit) THEN char ELSE text[kept[n]]]
  BY <1>1 DEF ReplaceEscape
<1>3. \A n \in 1 .. Len(kept) :
        (IF kept[n] \in Hits(text, digit) THEN char ELSE text[kept[n]]) \in Nat
  BY <1>1
<1> HIDE DEF r
<1>4. r \in Seq(Nat) /\ Len(r) = Len(kept)
  BY <1>1, <1>2, <1>3
<1>5. \A n \in 1 .. Len(kept) :
        r[n] = IF kept[n] \in Hits(text, digit) THEN char ELSE text[kept[n]]
  BY <1>2
<1>6. QED
  BY <1>4, <1>5 DEF r, Writes

(***************************************************************************)
(* Texts in which the character stands only where the pair begins differ   *)
(* after the pass if they did before.                                      *)
(***************************************************************************)
OnlyAtHits(text, digit, char) ==
  \A i \in DOMAIN text : text[i] = char => i \in Hits(text, digit)

LEMMA SamePositions ==
  ASSUME NEW t \in Seq(Nat), NEW u \in Seq(Nat), NEW digit \in Nat, NEW char \in Nat,
         NEW a, NEW b, NEW r, OnlyAtHits(t, digit, char), OnlyAtHits(u, digit, char),
         Walks(a, t, digit), Walks(b, u, digit),
         Writes(r, a, t, digit, char), Writes(r, b, u, digit, char)
  PROVE  /\ Len(a) = Len(b)
         /\ \A n \in 1 .. Len(a) : /\ a[n] = b[n]
                                   /\ a[n] \in Hits(t, digit) <=> b[n] \in Hits(u, digit)
<1>1. /\ a \in Seq(Nat) /\ b \in Seq(Nat) /\ Len(a) = Len(b) /\ Len(a) \in Nat
      /\ \A n \in 1 .. Len(a) : a[n] \in 1 .. Len(t) /\ b[n] \in 1 .. Len(u)
  BY DEF Walks, Writes
<1>2. ASSUME NEW n \in 1 .. Len(a)
      PROVE  a[n] \in Hits(t, digit) <=> b[n] \in Hits(u, digit)
  <2>1. r[n] = IF a[n] \in Hits(t, digit) THEN char ELSE t[a[n]]
    BY DEF Writes
  <2>2. r[n] = IF b[n] \in Hits(u, digit) THEN char ELSE u[b[n]]
    BY <1>1 DEF Writes
  <2>3. /\ a[n] \notin Hits(t, digit) => t[a[n]] # char
        /\ b[n] \notin Hits(u, digit) => u[b[n]] # char
    BY <1>1 DEF OnlyAtHits
  <2>4. QED
    BY <2>1, <2>2, <2>3
<1>3. ASSUME NEW n \in 1 .. Len(a), a[n] # b[n]
      PROVE  n - 1 \in 1 .. Len(a) /\ a[n - 1] # b[n - 1]
  <2>1. a[1] = 1 /\ b[1] = 1
    BY <1>1 DEF Walks
  <2>2. n - 1 \in 1 .. Len(a) /\ n - 1 < Len(a) /\ (n - 1) + 1 = n
    BY <1>1, <1>3, <2>1
  <2>3. a[n] = After(t, digit, a[n - 1])
    BY <2>2 DEF Walks
  <2>4. b[n] = After(u, digit, b[n - 1])
    BY <1>1, <2>2 DEF Walks
  <2>5. a[n - 1] \in Hits(t, digit) <=> b[n - 1] \in Hits(u, digit)
    BY <1>2, <2>2
  <2>6. QED
    BY <1>3, <2>2, <2>3, <2>4, <2>5 DEF After
<1>4. \A n \in 1 .. Len(a) : a[n] = b[n]
  <2> DEFINE T == {n \in 1 .. Len(a) : a[n] # b[n]}
  <2>1. SUFFICES ASSUME T # {} PROVE FALSE
    OBVIOUS
  <2>2. \E n \in T : \A m \in T : n <= m
    <3>1. T \subseteq Nat
      BY <1>1
    <3>2. QED
      BY <2>1, <3>1, LeastNat
  <2>3. PICK n \in 1 .. Len(a) : a[n] # b[n] /\ \A m \in 1 .. Len(a) : a[m] # b[m] => n <= m
    BY <2>2
  <2>4. n - 1 \in 1 .. Len(a) /\ a[n - 1] # b[n - 1]
    BY <1>3, <2>3
  <2>5. n <= n - 1
    BY <2>3, <2>4
  <2>6. QED
    BY <2>5
<1>5. QED
  BY <1>1, <1>2, <1>4

LEMMA ReplaceInjective ==
  ASSUME NEW t \in Seq(Nat), NEW u \in Seq(Nat), NEW digit \in Nat, NEW char \in Nat,
         digit # Tilde, OnlyAtHits(t, digit, char), OnlyAtHits(u, digit, char),
         ReplaceEscape(t, digit, char) = ReplaceEscape(u, digit, char)
  PROVE  t = u
<1> DEFINE a == Ascending(Kept(t, digit))
           b == Ascending(Kept(u, digit))
           r == ReplaceEscape(t, digit, char)
<1>1. Walks(a, t, digit) /\ Walks(b, u, digit)
  BY KeptSteps
<1>2. Writes(r, a, t, digit, char) /\ Writes(r, b, u, digit, char)
  BY ReplaceSpec
<1> HIDE DEF a, b, r
<1>3. /\ Len(a) = Len(b)
      /\ \A n \in 1 .. Len(a) : /\ a[n] = b[n]
                                /\ a[n] \in Hits(t, digit) <=> b[n] \in Hits(u, digit)
  BY <1>1, <1>2, SamePositions
<1>4. Len(t) = Len(u)
  <2>1. CASE Len(a) = 0
    <3>1. t = <<>> /\ u = <<>>
      BY <1>1, <1>3, <2>1 DEF Walks
    <3>2. QED
      BY <3>1
  <2>2. CASE Len(a) # 0
    <3>1. Len(a) \in 1 .. Len(a) /\ ~(Len(a) < Len(a))
      BY <1>1, <2>2 DEF Walks
    <3>2. After(t, digit, a[Len(a)]) = Len(t) + 1
      BY <1>1, <3>1 DEF Walks
    <3>3. After(u, digit, b[Len(a)]) = Len(u) + 1
      BY <1>1, <1>3, <3>1 DEF Walks
    <3>4. After(t, digit, a[Len(a)]) = After(u, digit, b[Len(a)])
      BY <1>3, <3>1 DEF After
    <3>5. QED
      BY <3>2, <3>3, <3>4
  <2>3. QED
    BY <2>1, <2>2
<1>5. ASSUME NEW n \in 1 .. Len(a)
      PROVE  t[a[n]] = u[a[n]]
  <2>1. r[n] = IF a[n] \in Hits(t, digit) THEN char ELSE t[a[n]]
    BY <1>2 DEF Writes
  <2>2. r[n] = IF b[n] \in Hits(u, digit) THEN char ELSE u[b[n]]
    BY <1>2, <1>3 DEF Writes
  <2>3. /\ a[n] \in Hits(t, digit) => t[a[n]] = Tilde
        /\ a[n] \in Hits(u, digit) => u[a[n]] = Tilde
    BY DEF Hits
  <2>4. a[n] = b[n] /\ (a[n] \in Hits(t, digit) <=> b[n] \in Hits(u, digit))
    BY <1>3
  <2>5. QED
    BY <2>1, <2>2, <2>3, <2>4
<1>6. ASSUME NEW i \in 1 .. Len(t) PROVE t[i] = u[i]
  <2>1. CASE i \in Kept(t, digit)
    BY <1>1, <1>5, <2>1 DEF Walks
  <2>2. CASE i \notin Kept(t, digit)
    <3>1. i - 1 \in Hits(t, digit)
      BY <2>2 DEF Kept
    <3>2. i - 1 \in 1 .. Len(t) /\ t[i - 1] = Tilde /\ t[i] = digit
      BY <3>1 DEF Hits
    <3>3. i - 2 \notin Hits(t, digit)
      BY <3>2 DEF Hits
    <3>4. i - 1 \in Kept(t, digit)
      BY <3>2, <3>3 DEF Kept
    <3>5. PICK n \in 1 .. Len(a) : a[n] = i - 1
      BY <1>1, <3>4 DEF Walks
    <3>6. i - 1 \in Hits(u, digit)
      BY <1>3, <3>1, <3>5
    <3>7. QED
      BY <3>2, <3>6 DEF Hits
  <2>3. QED
    BY <2>1, <2>2
<1>7. QED
  BY <1>4, <1>6

(***************************************************************************)
(* Between two slashes a well-escaped key has a text without slashes in    *)
(* which every tilde begins an escape; unescaping tells such texts apart.  *)
(***************************************************************************)
Clean(piece) ==
  /\ piece \in Seq(Nat)
  /\ \A i \in DOMAIN piece : piece[i] # Slash
  /\ WellEscaped(piece)

LEMMA FirstPass ==
  ASSUME NEW piece, Clean(piece)
  PROVE  /\ ReplaceEscape(piece, One, Slash) \in Seq(Nat)
         /\ OnlyAtHits(piece, One, Slash)
         /\ OnlyAtHits(ReplaceEscape(piece, One, Slash), Zero, Tilde)
<1> DEFINE r    == ReplaceEscape(piece, One, Slash)
           kept == Ascending(Kept(piece, One))
<1>1. piece \in Seq(Nat) /\ One \in Nat /\ Slash \in Nat /\ One # Tilde /\ Slash # Tilde
        /\ Zero # One /\ Zero # Tilde
  BY DEF Clean, One, Slash, Tilde, Zero
<1>2. Walks(kept, piece, One) /\ Writes(r, kept, piece, One, Slash)
  BY <1>1, KeptSteps, ReplaceSpec
<1> HIDE DEF r, kept
<1>3. ASSUME NEW n \in DOMAIN r, r[n] = Tilde PROVE n \in Hits(r, Zero)
  <2> DEFINE i == kept[n]
  <2>1. /\ n \in 1 .. Len(kept) /\ i \in 1 .. Len(piece) /\ i \in Kept(piece, One)
        /\ r \in Seq(Nat) /\ Len(r) = Len(kept) /\ Len(kept) \in Nat
    BY <1>2 DEF Walks, Writes
  <2>2. i \notin Hits(piece, One) /\ piece[i] = Tilde
    <3>1. r[n] = IF i \in Hits(piece, One) THEN Slash ELSE piece[i]
      BY <1>2, <2>1 DEF Writes
    <3>2. QED
      BY <1>1, <1>3, <3>1
  <2>3. i < Len(piece) /\ piece[i + 1] = Zero
    BY <2>1, <2>2 DEF Clean, WellEscaped, Hits
  <2>4. n < Len(kept) /\ kept[n + 1] = i + 1
    <3>1. IF n < Len(kept) THEN kept[n + 1] = After(piece, One, i)
          ELSE After(piece, One, i) = Len(piece) + 1
      BY <1>2, <2>1 DEF Walks
    <3>2. After(piece, One, i) = i + 1
      BY <2>2 DEF After
    <3>3. Len(piece) \in Nat /\ i \in Int
      BY <1>1, <2>1
    <3>4. QED
      BY <2>3, <3>1, <3>2, <3>3
  <2>5. i + 1 \notin Hits(piece, One)
    BY <1>1, <2>3 DEF Hits
  <2>6. r[n + 1] = Zero
    <3>1. n + 1 \in 1 .. Len(kept)
      BY <2>1, <2>4
    <3>2. r[n + 1] = IF i + 1 \in Hits(piece, One) THEN Slash ELSE piece[i + 1]
      BY <1>2, <2>4, <3>1 DEF Writes
    <3>3. QED
      BY <2>3, <2>5, <3>2
  <2>7. QED
    BY <1>3, <2>1, <2>4, <2>6 DEF Hits
<1>4. r \in Seq(Nat)
  BY <1>2 DEF Writes
<1>5. OnlyAtHits(piece, One, Slash)
  BY DEF Clean, OnlyAtHits
<1>6. OnlyAtHits(r, Zero, Tilde)
  BY <1>3 DEF OnlyAtHits
<1>7. QED
  BY <1>4, <1>5, <1>6 DEF r

LEMMA UnescapeInjective ==
  ASSUME NEW p, NEW q, Clean(p), Clean(q), Unescape(p) = Unescape(q)
  PROVE  p = q
<1> DEFINE r == ReplaceEscape(p, One, Slash)
           s == ReplaceEscape(q, One, Slash)
<1>1. /\ p \in Seq(Nat) /\ q \in Seq(Nat) /\ Zero \in Nat /\ One \in Nat /\ Slash \in Nat
      /\ Tilde \in Nat /\ One # Tilde /\ Zero # Tilde
  BY DEF Clean, One, Slash, Tilde, Zero
<1>2. /\ r \in Seq(Nat) /\ OnlyAtHits(p, One, Slash) /\ OnlyAtHits(r, Zero, Tilde)
      /\ s \in Seq(Nat) /\ OnlyAtHits(q, One, Slash) /\ OnlyAtHits(s, Zero, Tilde)
  BY FirstPass
<1>3. ReplaceEscape(r, Zero, Tilde) = ReplaceEscape(s, Zero, Tilde)
  BY DEF Unescape
<1>4. r = s
  <2> HIDE DEF r, s
  <2>1. QED
    BY <1>1, <1>2, <1>3, ReplaceInjective
<1>5. QED
  BY <1>1, <1>2, <1>4, ReplaceInjective

-----------------------------------------------------------------------------
(***************************************************************************)
(* The cuts of a key delimit its pieces.                                   *)
(***************************************************************************)
Delimits(cuts, key) ==
  /\ cuts \in Seq(Nat) /\ Len(cuts) \in Nat /\ Len(cuts) >= 2
  /\ cuts[1] = 0 /\ cuts[Len(cuts)] = Len(key) + 1
  /\ \A n \in 1 .. Len(cuts) - 1 : cuts[n] < cuts[n + 1] /\ cuts[n + 1] <= Len(key) + 1
  /\ \A n \in 2 .. Len(cuts) - 1 : cuts[n] \in 1 .. Len(key) /\ key[cuts[n]] = Slash
  /\ \A n \in 1 .. Len(cuts) - 1 :
       \A i \in 1 .. Len(key) : cuts[n] < i /\ i < cuts[n + 1] => key[i] # Slash

LEMMA CutsDelimit ==
  ASSUME NEW key \in Seq(Nat)
  PROVE  Delimits(Ascending(Cuts(key)), key)
<1> DEFINE set == Cuts(key)
           c   == Ascending(set)
           len == Len(key)
<1>1. len \in Nat /\ set \in SUBSET (0 .. len + 1) /\ 0 \in set /\ len + 1 \in set
  BY DEF Cuts
<1>2. IsFiniteSet(set) /\ set \subseteq Nat
  <2>1. IsFiniteSet(0 .. len + 1)
    BY <1>1, FS_Interval
  <2>2. QED
    BY <1>1, <2>1, FS_Subset
<1>3. Ascends(c, set)
  BY <1>2, AscendingSpec
<1>4. \A i \in 1 .. len : i \in set <=> key[i] = Slash
  BY <1>1 DEF Cuts
<1> HIDE DEF c, set, len
<1>5. /\ c \in Seq(Nat) /\ Len(c) \in Nat
      /\ \A n \in 1 .. Len(c) : c[n] \in set /\ c[n] \in 0 .. len + 1
      /\ \A m, n \in 1 .. Len(c) : m < n => c[m] < c[n]
  BY <1>1, <1>3 DEF Ascends
<1>6. PICK m \in 1 .. Len(c) : c[m] = 0
  BY <1>1, <1>3 DEF Ascends
<1>7. PICK n \in 1 .. Len(c) : c[n] = len + 1
  BY <1>1, <1>3 DEF Ascends
<1>8. m = 1 /\ n = Len(c) /\ m # n
  <2>1. 1 \in 1 .. Len(c) /\ Len(c) \in 1 .. Len(c)
    BY <1>5, <1>6
  <2>2. (1 < m => c[1] < c[m]) /\ (n < Len(c) => c[n] < c[Len(c)])
    BY <1>5, <2>1
  <2>3. c[1] \in 0 .. len + 1 /\ c[Len(c)] \in 0 .. len + 1
    BY <1>5, <2>1
  <2>4. QED
    BY <1>1, <1>5, <1>6, <1>7, <2>2, <2>3
<1>9. \A k \in 1 .. Len(c) - 1 : c[k] < c[k + 1] /\ c[k + 1] <= len + 1
  <2> SUFFICES ASSUME NEW k \in 1 .. Len(c) - 1 PROVE c[k] < c[k + 1] /\ c[k + 1] <= len + 1
    OBVIOUS
  <2>1. k \in 1 .. Len(c) /\ k + 1 \in 1 .. Len(c) /\ k < k + 1
    BY <1>5
  <2>2. c[k + 1] \in 0 .. len + 1
    BY <1>5, <2>1
  <2>3. QED
    BY <1>1, <1>5, <2>1, <2>2
<1>10. \A k \in 2 .. Len(c) - 1 : c[k] \in 1 .. len /\ key[c[k]] = Slash
  <2> SUFFICES ASSUME NEW k \in 2 .. Len(c) - 1 PROVE c[k] \in 1 .. len /\ key[c[k]] = Slash
    OBVIOUS
  <2>1. 1 \in 1 .. Len(c) /\ k \in 1 .. Len(c) /\ Len(c) \in 1 .. Len(c) /\ 1 < k /\ k < Len(c)
    BY <1>5
  <2>2. c[1] < c[k] /\ c[k] < c[Len(c)]
    BY <1>5, <2>1
  <2>3. c[k] \in 0 .. len + 1 /\ c[k] \in set
    BY <1>5, <2>1
  <2>4. c[k] \in 1 .. len
    BY <1>1, <1>6, <1>7, <1>8, <2>2, <2>3
  <2>5. QED
    BY <1>4, <2>3, <2>4
<1>11. ASSUME NEW k \in 1 .. Len(c) - 1, NEW i \in 1 .. len, c[k] < i, i < c[k + 1]
       PROVE  key[i] # Slash
  <2>1. SUFFICES ASSUME i \in set PROVE FALSE
    BY <1>4
  <2>2. k \in 1 .. Len(c) /\ k + 1 \in 1 .. Len(c)
    BY <1>5
  <2>3. c[k + 1] <= i
    BY <1>3, <1>11, <2>1, <2>2, AscendsGapless
  <2>4. c[k + 1] \in Nat
    BY <1>5, <2>2
  <2>5. QED
    BY <1>11, <2>3, <2>4
<1>12. Len(c) >= 2
  BY <1>5, <1>8
<1>13. QED
  BY <1>5, <1>6, <1>7, <1>8, <1>9, <1>10, <1>11, <1>12 DEF Delimits, c, set, len

Piece(key, cuts, n) == SubSeq(key, cuts[n] + 1, cuts[n + 1] - 1)

LEMMA SubSeqSpec ==
  ASSUME NEW S, NEW s \in Seq(S), NEW a \in 1 .. Len(s) + 1, NEW b \in a - 1 .. Len(s)
  PROVE  /\ SubSeq(s, a, b) \in Seq(S)
         /\ Len(SubSeq(s, a, b)) = b - a + 1
         /\ \A i \in 1 .. b - a + 1 : SubSeq(s, a, b)[i] = s[a + i - 1]
OBVIOUS

LEMMA PieceSpec ==
  ASSUME NEW key \in Seq(Nat), NEW cuts, Delimits(cuts, key), NEW n \in 1 .. Len(cuts) - 1
  PROVE  /\ Piece(key, cuts, n) \in Seq(Nat)
         /\ Len(Piece(key, cuts, n)) = cuts[n + 1] - cuts[n] - 1
         /\ \A i \in 1 .. Len(Piece(key, cuts, n)) : Piece(key, cuts, n)[i] = key[cuts[n] + i]
<1>1. /\ cuts \in Seq(Nat) /\ Len(cuts) \in Nat /\ cuts[n] < cuts[n + 1]
      /\ cuts[n + 1] <= Len(key) + 1
  BY DEF Delimits
<1>2. n \in 1 .. Len(cuts) /\ n + 1 \in 1 .. Len(cuts)
  BY <1>1
<1>3. cuts[n] \in Nat /\ cuts[n + 1] \in Nat /\ Len(key) \in Nat
  BY <1>1, <1>2
<1> DEFINE a == cuts[n] + 1
           b == cuts[n + 1] - 1
<1>4. a \in 1 .. Len(key) + 1 /\ b \in a - 1 .. Len(key)
  BY <1>1, <1>3
<1>5. /\ b - a + 1 = cuts[n + 1] - cuts[n] - 1
      /\ \A i \in Int : a + i - 1 = cuts[n] + i
  BY <1>3
<1>6. Piece(key, cuts, n) = SubSeq(key, a, b)
  BY DEF Piece
<1> HIDE DEF a, b
<1>7. /\ SubSeq(key, a, b) \in Seq(Nat)
      /\ Len(SubSeq(key, a, b)) = b - a + 1
      /\ \A i \in 1 .. b - a + 1 : SubSeq(key, a, b)[i] = key[a + i - 1]
  BY <1>4, SubSeqSpec
<1>8. ASSUME NEW i \in 1 .. Len(SubSeq(key, a, b))
      PROVE  SubSeq(key, a, b)[i] = key[cuts[n] + i]
  <2>1. i \in 1 .. b - a + 1 /\ i \in Int
    BY <1>7
  <2>2. QED
    BY <1>5, <1>7, <2>1
<1>9. QED
  BY <1>5, <1>6, <1>7, <1>8

LEMMA PieceClean ==
  ASSUME NEW key \in Seq(Nat), WellEscaped(key), NEW cuts, Delimits(cuts, key),
         NEW n \in 1 .. Len(cuts) - 1
  PROVE  Clean(Piece(key, cuts, n))
<1> DEFINE p == Piece(key, cuts, n)
           c == cuts[n]
           d == cuts[n + 1]
<1>1. p \in Seq(Nat) /\ Len(p) = d - c - 1 /\ \A i \in 1 .. Len(p) : p[i] = key[c + i]
  BY PieceSpec
<1>2. /\ c < d /\ d <= Len(key) + 1 /\ c \in Nat /\ d \in Nat /\ Len(key) \in Nat
      /\ \A i \in 1 .. Len(key) : c < i /\ i < d => key[i] # Slash
      /\ d \in 1 .. Len(key) => key[d] = Slash
  <2>1. cuts \in Seq(Nat) /\ n \in 1 .. Len(cuts) /\ n + 1 \in 1 .. Len(cuts) /\ Len(cuts) \in Nat
    BY DEF Delimits
  <2>2. n + 1 = Len(cuts) \/ n + 1 \in 2 .. Len(cuts) - 1
    BY <2>1
  <2>3. c \in Nat /\ d \in Nat /\ Len(key) \in Nat
    BY <2>1
  <2>4. d \in 1 .. Len(key) => key[d] = Slash
    BY <2>2, <2>3 DEF Delimits
  <2>5. QED
    BY <2>3, <2>4 DEF Delimits
<1> HIDE DEF p, c, d
<1>3. \A i \in 1 .. Len(p) : p[i] # Slash
  <2> SUFFICES ASSUME NEW i \in 1 .. Len(p) PROVE p[i] # Slash
    OBVIOUS
  <2>1. c + i \in 1 .. Len(key) /\ c < c + i /\ c + i < d
    BY <1>1, <1>2
  <2>2. QED
    BY <1>1, <1>2, <2>1
<1>4. ASSUME NEW i \in 1 .. Len(p), p[i] = Tilde
      PROVE  i < Len(p) /\ p[i + 1] \in {Zero, One}
  <2>1. c + i \in 1 .. Len(key) /\ key[c + i] = Tilde
    BY <1>1, <1>2, <1>4
  <2>2. c + i < Len(key) /\ key[c + i + 1] \in {Zero, One}
    BY <2>1 DEF WellEscaped
  <2>3. c + i + 1 # d
    <3>1. key[c + i + 1] # Slash
      BY <2>2 DEF Zero, One, Slash
    <3>2. c + i + 1 \in 1 .. Len(key)
      BY <1>2, <2>1, <2>2
    <3>3. QED
      BY <1>2, <3>1, <3>2
  <2>4. i < Len(p) /\ i + 1 \in 1 .. Len(p) /\ c + (i + 1) = c + i + 1
    BY <1>1, <1>2, <2>3
  <2>5. QED
    BY <1>1, <2>2, <2>4
<1>5. DOMAIN p = 1 .. Len(p)
  BY <1>1
<1>6. QED
  BY <1>1, <1>3, <1>4, <1>5 DEF Clean, WellEscaped, p

LEMMA TokensSpec ==
  ASSUME NEW key \in Seq(Nat), NEW cuts, cuts = Ascending(Cuts(key))
  PROVE  /\ Tokens(key) = [n \in 1 .. Len(cuts) - 1 |-> Unescape(Piece(key, cuts, n))]
         /\ Len(Tokens(key)) = Len(cuts) - 1
<1>1. Len(cuts) \in Nat /\ Len(cuts) >= 2
  BY CutsDelimit DEF Delimits
<1>2. Split(key) = [n \in 1 .. Len(cuts) - 1 |-> Piece(key, cuts, n)]
  BY DEF Split, Piece
<1>3. Tokens(key) = [n \in 1 .. Len(cuts) - 1 |-> Unescape(Piece(key, cuts, n))]
  BY <1>2 DEF Tokens
<1>4. Len(Tokens(key)) = Len(cuts) - 1
  BY <1>1, <1>3
<1>5. QED
  BY <1>3, <1>4

(***************************************************************************)
(* Whatever the key, there is at least one token, and tokens are texts.    *)
(***************************************************************************)
LEMMA ReplaceType ==
  ASSUME NEW text \in Seq(Nat), NEW digit \in Nat, NEW char \in Nat, digit # Tilde
  PROVE  ReplaceEscape(text, digit, char) \in Seq(Nat)
BY ReplaceSpec DEF Writes

LEMMA TokensSequence ==
  ASSUME NEW key \in Seq(Nat)
  PROVE  /\ Tokens(key) \in Seq(Seq(Nat))
         /\ Len(Tokens(key)) \in Nat \ {0}
         /\ Tokens(key) = [n \in 1 .. Len(Tokens(key)) |-> Tokens(key)[n]]
<1> DEFINE cuts == Ascending(Cuts(key))
<1>1. Delimits(cuts, key)
  BY CutsDelimit
<1>2. /\ Tokens(key) = [n \in 1 .. Len(cuts) - 1 |-> Unescape(Piece(key, cuts, n))]
      /\ Len(Tokens(key)) = Len(cuts) - 1
  BY TokensSpec
<1> HIDE DEF cuts
<1>3. Len(cuts) - 1 \in Nat \ {0}
  BY <1>1 DEF Delimits
<1>4. \A n \in 1 .. Len(cuts) - 1 : Unescape(Piece(key, cuts, n)) \in Seq(Nat)
  <2> SUFFICES ASSUME NEW n \in 1 .. Len(cuts) - 1
               PROVE  Unescape(Piece(key, cuts, n)) \in Seq(Nat)
    OBVIOUS
  <2>1. Piece(key, cuts, n) \in Seq(Nat)
    BY <1>1, PieceSpec
  <2>2. /\ One \in Nat /\ Zero \in Nat /\ Slash \in Nat /\ Tilde \in Nat
        /\ One # Tilde /\ Zero # Tilde
    BY DEF One, Zero, Slash, Tilde
  <2>3. ReplaceEscape(Piece(key, cuts, n), One, Slash) \in Seq(Nat)
    BY <2>1, <2>2, ReplaceType
  <2>4. QED
    BY <2>2, <2>3, ReplaceType DEF Unescape
<1>5. Tokens(key) \in Seq(Seq(Nat))
  BY <1>2, <1>3, <1>4
<1>6. QED
  BY <1>2, <1>3, <1>5

-----------------------------------------------------------------------------
(***************************************************************************)
(* Two well-escaped keys that agree on the first tokens agree on the text  *)
(* up to there: as long as the tokens of one last, the cuts are the same.  *)
(***************************************************************************)
Agree(k, l) ==
  /\ Len(Tokens(k)) <= Len(Tokens(l))
  /\ \A n \in 1 .. Len(Tokens(k)) : Tokens(k)[n] = Tokens(l)[n]

LEMMA SameCuts ==
  ASSUME NEW k \in Seq(Nat), WellEscaped(k), NEW l \in Seq(Nat), WellEscaped(l), Agree(k, l),
         NEW c, c = Ascending(Cuts(k)), NEW d, d = Ascending(Cuts(l))
  PROVE  /\ Len(c) <= Len(d)
         /\ \A n \in 1 .. Len(c) - 1 : Piece(k, c, n) = Piece(l, d, n)
         /\ \A n \in 1 .. Len(c) : c[n] = d[n]
<1>1. Delimits(c, k) /\ Delimits(d, l)
  BY CutsDelimit
<1>2. /\ Len(c) \in Nat /\ Len(d) \in Nat /\ Len(c) >= 2 /\ c[1] = 0 /\ d[1] = 0
      /\ c \in Seq(Nat) /\ d \in Seq(Nat)
  BY <1>1 DEF Delimits
<1>3. Len(c) <= Len(d)
  <2>1. Len(Tokens(k)) = Len(c) - 1 /\ Len(Tokens(l)) = Len(d) - 1
    BY TokensSpec
  <2>2. QED
    BY <1>2, <2>1 DEF Agree
<1>4. ASSUME NEW n \in 1 .. Len(c) - 1 PROVE Piece(k, c, n) = Piece(l, d, n)
  <2>1. n \in 1 .. Len(d) - 1 /\ n \in 1 .. Len(Tokens(k))
    <3>1. Len(Tokens(k)) = Len(c) - 1
      BY TokensSpec
    <3>2. QED
      BY <1>2, <1>3, <3>1
  <2>2. Tokens(k)[n] = Unescape(Piece(k, c, n)) /\ Tokens(l)[n] = Unescape(Piece(l, d, n))
    BY <2>1, TokensSpec
  <2>3. Clean(Piece(k, c, n)) /\ Clean(Piece(l, d, n))
    BY <1>1, <2>1, PieceClean
  <2>4. Unescape(Piece(k, c, n)) = Unescape(Piece(l, d, n))
    BY <2>1, <2>2 DEF Agree
  <2>5. QED
    BY <2>3, <2>4, UnescapeInjective
<1>5. ASSUME NEW m \in 1 .. Len(c) - 1, c[m] = d[m] PROVE c[m + 1] = d[m + 1]
  <2>1. m \in 1 .. Len(d) - 1 /\ m \in 1 .. Len(c) /\ m \in 1 .. Len(d)
          /\ m + 1 \in 1 .. Len(c) /\ m + 1 \in 1 .. Len(d)
    BY <1>2, <1>3
  <2>2. Len(Piece(k, c, m)) = c[m + 1] - c[m] - 1
    BY <1>1, PieceSpec
  <2>3. Len(Piece(l, d, m)) = d[m + 1] - d[m] - 1
    BY <1>1, <2>1, PieceSpec
  <2>4. Piece(k, c, m) = Piece(l, d, m)
    BY <1>4
  <2>5. c[m + 1] \in Nat /\ d[m + 1] \in Nat /\ c[m] \in Nat /\ d[m] \in Nat
    <3>1. c \in Seq(Nat) /\ d \in Seq(Nat)
      BY <1>2
    <3>2. c[m + 1] \in Nat /\ c[m] \in Nat
      BY <2>1, <3>1
    <3>3. d[m + 1] \in Nat /\ d[m] \in Nat
      BY <2>1, <3>1
    <3>4. QED
      BY <3>2, <3>3
  <2>6. QED
    BY <1>5, <2>2, <2>3, <2>4, <2>5
<1>6. \A n \in 1 .. Len(c) : c[n] = d[n]
  <2> DEFINE T == {n \in 1 .. Len(c) : c[n] # d[n]}
  <2>1. SUFFICES ASSUME T # {} PROVE FALSE
    OBVIOUS
  <2>2. \E n \in T : \A m \in T : n <= m
    <3>1. T \subseteq Nat
      BY <1>2
    <3>2. QED
      BY <2>1, <3>1, LeastNat
  <2>3. PICK n \in 1 .. Len(c) : c[n] # d[n] /\ \A m \in 1 .. Len(c) : c[m] # d[m] => n <= m
    BY <2>2
  <2>4. PICK m \in 1 .. Len(c) - 1 : n = m + 1
    <3>1. n # 1
      BY <1>2, <2>3
    <3>2. n - 1 \in 1 .. Len(c) - 1 /\ n = (n - 1) + 1
      BY <1>2, <3>1
    <3>3. QED
      BY <3>2
  <2>5. m \in 1 .. Len(c) /\ ~(n <= m)
    BY <1>2, <2>4
  <2>6. QED
    BY <1>5, <2>3, <2>4, <2>5
<1>7. QED
  BY <1>3, <1>4, <1>6

(***************************************************************************)
(* Every position of a key is a cut or lies in a piece.                    *)
(***************************************************************************)
LEMMA CutOrPiece ==
  ASSUME NEW key \in Seq(Nat), NEW cuts, Delimits(cuts, key), NEW i \in 1 .. Len(key)
  PROVE  \E n \in 1 .. Len(cuts) - 1 : cuts[n] <= i /\ i < cuts[n + 1]
<1> DEFINE T == {n \in 1 .. Len(cuts) : i < cuts[n]}
<1>1. /\ cuts \in Seq(Nat) /\ Len(cuts) \in Nat /\ Len(cuts) >= 2
      /\ cuts[1] = 0 /\ cuts[Len(cuts)] = Len(key) + 1
  BY DEF Delimits
<1>2. T \subseteq Nat /\ T # {}
  <2>1. Len(cuts) \in 1 .. Len(cuts) /\ i < Len(key) + 1
    BY <1>1
  <2>2. Len(cuts) \in T
    BY <1>1, <2>1
  <2>3. \A n \in T : n \in Nat
    BY <1>1
  <2>4. QED
    BY <2>2, <2>3
<1>3. \E n \in T : \A m \in T : n <= m
  BY <1>2, LeastNat
<1>4. PICK n \in 1 .. Len(cuts) : i < cuts[n] /\ \A m \in 1 .. Len(cuts) : i < cuts[m] => n <= m
  BY <1>3
<1>5. n - 1 \in 1 .. Len(cuts) /\ n - 1 \in 1 .. Len(cuts) - 1 /\ (n - 1) + 1 = n
  BY <1>1, <1>4
<1>6. ~(i < cuts[n - 1])
  BY <1>4, <1>5
<1>7. cuts[n - 1] \in Nat
  BY <1>1, <1>5
<1>8. cuts[n - 1] <= i
  BY <1>6, <1>7
<1>9. QED
  BY <1>4, <1>5, <1>8

LEMMA AgreeingKeys ==
  ASSUME NEW k \in Seq(Nat), WellEscaped(k), NEW l \in Seq(Nat), WellEscaped(l), Agree(k, l)
  PROVE  /\ Len(k) <= Len(l)
         /\ \A i \in 1 .. Len(k) : k[i] = l[i]
         /\ Len(Tokens(k)) = Len(Tokens(l)) => Len(k) = Len(l)
         /\ Len(Tokens(k)) # Len(Tokens(l)) => Len(k) < Len(l)
<1> DEFINE c == Ascending(Cuts(k))
           d == Ascending(Cuts(l))
<1>1. Delimits(c, k) /\ Delimits(d, l)
  BY CutsDelimit
<1>2. /\ Len(c) <= Len(d)
      /\ \A n \in 1 .. Len(c) - 1 : Piece(k, c, n) = Piece(l, d, n)
      /\ \A n \in 1 .. Len(c) : c[n] = d[n]
  BY SameCuts
<1>3. Len(Tokens(k)) = Len(c) - 1 /\ Len(Tokens(l)) = Len(d) - 1
  BY TokensSpec
<1> HIDE DEF c, d
<1>4. /\ Len(c) \in Nat /\ Len(d) \in Nat /\ Len(k) \in Nat /\ Len(l) \in Nat
      /\ Len(c) >= 2 /\ c[Len(c)] = Len(k) + 1 /\ d[Len(d)] = Len(l) + 1
  BY <1>1 DEF Delimits
<1>5. d[Len(c)] = Len(k) + 1
  <2>1. Len(c) \in 1 .. Len(c)
    BY <1>4
  <2>2. QED
    BY <1>2, <1>4, <2>1
<1>6. Len(c) = Len(d) => Len(k) = Len(l)
  BY <1>4, <1>5
<1>7. Len(c) # Len(d) => Len(k) < Len(l)
  <2> SUFFICES ASSUME Len(c) # Len(d) PROVE Len(k) < Len(l)
    OBVIOUS
  <2>1. Len(c) \in 2 .. Len(d) - 1
    BY <1>2, <1>4
  <2>2. d[Len(c)] \in 1 .. Len(l)
    BY <1>1, <2>1 DEF Delimits
  <2>3. QED
    BY <1>4, <1>5, <2>2
<1>8. Len(k) <= Len(l)
  BY <1>4, <1>6, <1>7
<1>9. ASSUME NEW i \in 1 .. Len(k) PROVE k[i] = l[i]
  <2>1. PICK n \in 1 .. Len(c) - 1 : c[n] <= i /\ i < c[n + 1]
    BY <1>1, CutOrPiece
  <2>2. /\ n \in 1 .. Len(c) /\ n \in 1 .. Len(d) - 1
        /\ (n # 1 => n \in 2 .. Len(c) - 1 /\ n \in 2 .. Len(d) - 1)
    BY <1>2, <1>4
  <2>3. c \in Seq(Nat) /\ c[1] = 0 /\ c[n] = d[n] /\ n + 1 \in 1 .. Len(c)
    BY <1>1, <1>2, <1>4, <2>2 DEF Delimits
  <2>4. CASE c[n] = i
    <3>1. n # 1
      BY <2>3, <2>4
    <3>2. k[c[n]] = Slash /\ l[d[n]] = Slash
      BY <1>1, <2>2, <3>1 DEF Delimits
    <3>3. QED
      BY <2>3, <2>4, <3>2
  <2>5. CASE c[n] # i
    <3> DEFINE p == Piece(k, c, n)
               j == i - c[n]
    <3>1. c[n] \in Nat /\ c[n + 1] \in Nat
      <4>1. n \in 1 .. Len(c) /\ n + 1 \in 1 .. Len(c) /\ c \in Seq(Nat)
        BY <2>2, <2>3
      <4>2. QED
        BY <4>1
    <3>2. Len(p) = c[n + 1] - c[n] - 1 /\ \A m \in 1 .. Len(p) : p[m] = k[c[n] + m]
      BY <1>1, PieceSpec
    <3>3. p = Piece(l, d, n) /\ \A m \in 1 .. Len(p) : p[m] = l[d[n] + m]
      <4>1. p = Piece(l, d, n)
        BY <1>2
      <4>2. \A m \in 1 .. Len(Piece(l, d, n)) : Piece(l, d, n)[m] = l[d[n] + m]
        BY <1>1, <2>2, PieceSpec
      <4>3. QED
        BY <4>1, <4>2
    <3> HIDE DEF p
    <3>4. j \in 1 .. Len(p) /\ c[n] + j = i
      BY <2>1, <2>5, <3>1, <3>2
    <3> HIDE DEF j
    <3>5. QED
      BY <2>3, <3>2, <3>3, <3>4
  <2>6. QED
    BY <2>4, <2>5
<1>10. QED
  BY <1>3, <1>4, <1>6, <1>7, <1>8, <1>9

(***************************************************************************)
(* A well-escaped key is determined by its tokens: two keys that address   *)
(* the same member are the same key.                                       *)
(***************************************************************************)
THEOREM TokensInjective ==
  ASSUME NEW k \in Seq(Nat), WellEscaped(k), NEW l \in Seq(Nat), WellEscaped(l),
         Tokens(k) = Tokens(l)
  PROVE  k = l
<1>1. Agree(k, l)
  <2>1. Len(Tokens(k)) \in Nat
    BY TokensSequence
  <2>2. QED
    BY <2>1 DEF Agree
<1>2. Len(k) = Len(l) /\ \A i \in 1 .. Len(k) : k[i] = l[i]
  BY <1>1, AgreeingKeys
<1>3. QED
  BY <1>2

(***************************************************************************)
(* A well-escaped key sorts before every well-escaped key that addresses   *)
(* something inside what it addresses.                                     *)
(***************************************************************************)
THEOREM PrefixesBefore ==
  ASSUME NEW k \in Seq(Nat), WellEscaped(k), NEW l \in Seq(Nat), WellEscaped(l),
         IsStrictPrefix(Tokens(k), Tokens(l))
  PROVE  Before(k, l)
<1> DEFINE s == Tokens(k)
           t == Tokens(l)
<1>1. /\ Len(s) \in Nat /\ Len(t) \in Nat
      /\ s = [n \in 1 .. Len(s) |-> s[n]]
      /\ t = [n \in 1 .. Len(t) |-> t[n]]
  BY TokensSequence
<1>3. Len(s) <= Len(t) /\ SubSeq(s, 1, Len(s)) = SubSeq(t, 1, Len(s)) /\ s # t
  BY DEF IsStrictPrefix, IsPrefix
<1> HIDE DEF s, t
<1>4. \A n \in 1 .. Len(s) : s[n] = t[n]
  <2>1. s \in Seq(Seq(Nat)) /\ t \in Seq(Seq(Nat))
    BY TokensSequence DEF s, t
  <2>2. 1 \in 1 .. Len(s) + 1 /\ 1 \in 1 .. Len(t) + 1 /\ Len(s) \in 0 .. Len(s) /\ Len(s) \in 0 .. Len(t)
    BY <1>1, <1>3
  <2>3. \A n \in 1 .. Len(s) : SubSeq(s, 1, Len(s))[n] = s[n] /\ SubSeq(t, 1, Len(s))[n] = t[n]
    BY <1>1, <2>1, <2>2, SubSeqSpec
  <2>4. QED
    BY <1>3, <2>3
<1>5. Agree(k, l)
  BY <1>3, <1>4 DEF Agree, s, t
<1>6. Len(s) # Len(t)
  BY <1>1, <1>3, <1>4
<1>7. Len(k) < Len(l) /\ \A i \in 1 .. Len(k) : k[i] = l[i]
  BY <1>5, <1>6, AgreeingKeys DEF s, t
<1>8. IsStrictPrefix(k, l)
  <2>1. Len(k) \in Nat /\ Len(l) \in Nat
    OBVIOUS
  <2>2. k # l
    BY <1>7, <2>1
  <2>3. SubSeq(k, 1, Len(k)) = SubSeq(l, 1, Len(k))
    BY <1>7, <2>1
  <2>4. QED
    BY <1>7, <2>1, <2>2, <2>3 DEF IsStrictPrefix, IsPrefix
<1>9. QED
  BY <1>8 DEF Before

(***************************************************************************)
(* A text with neither slash nor tilde is a key of one token, itself.      *)
(***************************************************************************)
LEMMA NothingToReplace ==
  ASSUME NEW text \in Seq(Nat), \A i \in 1 .. Len(text) : text[i] # Tilde,
         NEW digit \in Nat, digit # Tilde, NEW char \in Nat
  PROVE  ReplaceEscape(text, digit, char) = text
<1> DEFINE kept == Ascending(Kept(text, digit))
           r    == ReplaceEscape(text, digit, char)
<1>1. Walks(kept, text, digit) /\ Writes(r, kept, text, digit, char)
  BY KeptSteps, ReplaceSpec
<1> HIDE DEF kept, r
<1>2. \A i \in 1 .. Len(text) : i \notin Hits(text, digit)
  BY DEF Hits
<1>3. /\ kept \in Seq(Nat) /\ Len(kept) \in Nat
      /\ \A n \in 1 .. Len(kept) : kept[n] \in 1 .. Len(text)
  BY <1>1 DEF Walks
<1>4. \A n \in 1 .. Len(kept) : kept[n] \in Int /\ After(text, digit, kept[n]) = kept[n] + 1
  BY <1>2, <1>3 DEF After
<1>5. \A n \in 1 .. Len(kept) : kept[n] = n
  <2> DEFINE T == {n \in 1 .. Len(kept) : kept[n] # n}
  <2>1. SUFFICES ASSUME T # {} PROVE FALSE
    OBVIOUS
  <2>2. \E n \in T : \A m \in T : n <= m
    <3>1. T \subseteq Nat
      BY <1>3
    <3>2. QED
      BY <2>1, <3>1, LeastNat
  <2>3. PICK n \in 1 .. Len(kept) : kept[n] # n /\ \A m \in 1 .. Len(kept) : kept[m] # m => n <= m
    BY <2>2
  <2>4. n # 1
    <3>1. text # <<>>
      BY <1>1, <1>3, <2>3 DEF Walks
    <3>2. QED
      BY <1>1, <2>3, <3>1 DEF Walks
  <2>5. PICK m \in 1 .. Len(kept) - 1 : n = m + 1
    <3>1. n - 1 \in 1 .. Len(kept) - 1 /\ n = (n - 1) + 1
      BY <1>3, <2>3, <2>4
    <3>2. QED
      BY <3>1
  <2>6. m \in 1 .. Len(kept) /\ m < Len(kept) /\ ~(n <= m)
    BY <1>3, <2>5
  <2>7. kept[m] = m
    BY <2>3, <2>6
  <2>8. kept[m + 1] = After(text, digit, kept[m])
    BY <1>1, <2>6 DEF Walks
  <2>9. QED
    BY <1>4, <2>3, <2>5, <2>6, <2>7, <2>8
<1>6. Len(kept) = Len(text)
  <2>1. CASE Len(kept) = 0
    BY <1>1, <1>3, <2>1 DEF Walks
  <2>2. CASE Len(kept) # 0
    <3>1. Len(kept) \in 1 .. Len(kept) /\ ~(Len(kept) < Len(kept))
      BY <1>3, <2>2
    <3>2. After(text, digit, kept[Len(kept)]) = Len(text) + 1
      BY <1>1, <3>1 DEF Walks
    <3>3. Len(kept) + 1 = Len(text) + 1
      BY <1>4, <1>5, <3>1, <3>2
    <3>4. QED
      BY <1>3, <3>3
  <2>3. QED
    BY <2>1, <2>2
<1>7. r \in Seq(Nat) /\ Len(r) = Len(text)
  BY <1>1, <1>6 DEF Writes
<1>8. \A n \in 1 .. Len(text) : r[n] = text[n]
  <2> SUFFICES ASSUME NEW n \in 1 .. Len(text) PROVE r[n] = text[n]
    OBVIOUS
  <2>1. r[n] = IF kept[n] \in Hits(text, digit) THEN char ELSE text[kept[n]]
    BY <1>1, <1>6 DEF Writes
  <2>2. kept[n] = n /\ n \notin Hits(text, digit)
    BY <1>2, <1>5, <1>6
  <2>3. QED
    BY <2>1, <2>2
<1>9. r = text
  BY <1>7, <1>8
<1>10. QED
  BY <1>9 DEF r

LEMMA PlainKeyTokens ==
  ASSUME NEW text \in Seq(Nat), \A i \in 1 .. Len(text) : text[i] # Tilde /\ text[i] # Slash
  PROVE  Tokens(text) = <<text>>
<1> DEFINE c == Ascending(Cuts(text))
<1>1. Delimits(c, text)
  BY CutsDelimit
<1>2. Tokens(text) = [n \in 1 .. Len(c) - 1 |-> Unescape(Piece(text, c, n))]
  BY TokensSpec
<1> HIDE DEF c
<1>3. Len(c) = 2 /\ c[1] = 0 /\ c[2] = Len(text) + 1
  <2>1. Len(c) \in Nat /\ Len(c) >= 2 /\ c[1] = 0 /\ c[Len(c)] = Len(text) + 1
    BY <1>1 DEF Delimits
  <2>2. ASSUME Len(c) # 2 PROVE FALSE
    <3>1. 2 \in 2 .. Len(c) - 1
      <4>1. PICK n \in Nat : n = Len(c)
        BY <2>1
      <4>2. 2 \in 2 .. n - 1
        BY <2>1, <2>2, <4>1
      <4>3. QED
        BY <4>1, <4>2
    <3>2. c[2] \in 1 .. Len(text) /\ text[c[2]] = Slash
      BY <1>1, <3>1 DEF Delimits
    <3>3. QED
      BY <3>2
  <2>3. QED
    BY <2>1, <2>2
<1>4. Piece(text, c, 1) = text
  <2>1. 1 \in 1 .. Len(c) - 1
    BY <1>3
  <2>2. /\ Piece(text, c, 1) \in Seq(Nat)
        /\ Len(Piece(text, c, 1)) = c[1 + 1] - c[1] - 1
        /\ \A i \in 1 .. Len(Piece(text, c, 1)) : Piece(text, c, 1)[i] = text[c[1] + i]
    BY <1>1, <2>1, PieceSpec
  <2>3. Len(Piece(text, c, 1)) = Len(text)
    BY <1>3, <2>2
  <2>4. \A i \in 1 .. Len(text) : Piece(text, c, 1)[i] = text[i]
    BY <1>3, <2>2, <2>3
  <2>5. QED
    BY <2>2, <2>3, <2>4
<1>5. Unescape(text) = text
  <2>1. /\ One \in Nat /\ Zero \in Nat /\ Slash \in Nat /\ Tilde \in Nat
        /\ One # Tilde /\ Zero # Tilde
    BY DEF One, Zero, Slash, Tilde
  <2>2. QED
    BY <2>1, NothingToReplace DEF Unescape
<1>6. Tokens(text) = [n \in 1 .. 1 |-> Unescape(Piece(text, c, n))]
  BY <1>2, <1>3
<1>7. QED
  BY <1>4, <1>5, <1>6

-----------------------------------------------------------------------------
(***************************************************************************)
(* A function defined by recursion on the positions of a text exists, its  *)
(* steps being given as functions.                                         *)
(***************************************************************************)
Recurs(g, N, base, step) ==
  g = [n \in 0 .. N |-> IF n = 0 THEN base ELSE step[n][g[n - 1]]]

LEMMA RecursionExists ==
  ASSUME NEW N \in Nat, NEW S, NEW base \in S, NEW step \in [1 .. N -> [S -> S]]
  PROVE  \E g \in [0 .. N -> S] : Recurs(g, N, base, step)
<1> DEFINE Reached(m) == \E g \in [0 .. m -> S] : Recurs(g, m, base, step)
           T == {m \in 0 .. N : ~Reached(m)}
<1>1. ASSUME T # {} PROVE FALSE
  <2>1. T \subseteq Nat
    OBVIOUS
  <2>2. PICK m \in T : \A i \in T : m <= i
    <3> HIDE DEF T
    <3>1. QED
      BY <1>1, <2>1, LeastNat
  <2>3. m \in 0 .. N /\ ~Reached(m)
    BY <2>2
  <2>4. Reached(0)
    <3> DEFINE g == [n \in 0 .. 0 |-> base]
    <3>1. g \in [0 .. 0 -> S] /\ g = [n \in 0 .. 0 |-> IF n = 0 THEN base ELSE step[n][g[n - 1]]]
      OBVIOUS
    <3> HIDE DEF g
    <3>2. QED
      BY <3>1 DEF Recurs
  <2>5. m # 0
    BY <2>3, <2>4
  <2>6. PICK i \in 0 .. N : m = i + 1
    BY <2>3, <2>5
  <2>7. Reached(i)
    BY <2>2, <2>6
  <2>8. PICK g \in [0 .. i -> S] : Recurs(g, i, base, step)
    BY <2>7
  <2> DEFINE h == [n \in 0 .. i + 1 |-> IF n <= i THEN g[n] ELSE step[i + 1][g[i]]]
  <2>9. i + 1 \in 1 .. N /\ g[i] \in S /\ step[i + 1][g[i]] \in S
    <3>1. i + 1 \in 1 .. N /\ g[i] \in S
      BY <2>3, <2>6
    <3>2. step[i + 1] \in [S -> S]
      BY <3>1
    <3>3. QED
      BY <3>1, <3>2
  <2>10. h \in [0 .. i + 1 -> S]
    BY <2>9
  <2>11. \A n \in 0 .. i + 1 : h[n] = IF n = 0 THEN base ELSE step[n][h[n - 1]]
    <3> SUFFICES ASSUME NEW n \in 0 .. i + 1
                 PROVE  h[n] = IF n = 0 THEN base ELSE step[n][h[n - 1]]
      OBVIOUS
    <3>1. \A j \in 0 .. i : g[j] = IF j = 0 THEN base ELSE step[j][g[j - 1]]
      BY <2>8 DEF Recurs
    <3>2. CASE n <= i
      <4>1. n \in 0 .. i /\ h[n] = g[n] /\ (n # 0 => n - 1 \in 0 .. i + 1 /\ h[n - 1] = g[n - 1])
        BY <3>2
      <4> HIDE DEF h
      <4>2. QED
        BY <3>1, <4>1
    <3>3. CASE ~(n <= i)
      <4>1. n = i + 1 /\ n # 0 /\ h[n] = step[n][g[i]] /\ n - 1 = i /\ h[i] = g[i]
        BY <3>3
      <4> HIDE DEF h
      <4>2. QED
        BY <4>1
    <3>4. QED
      BY <3>2, <3>3
  <2> HIDE DEF h
  <2>12. Recurs(h, i + 1, base, step)
    BY <2>10, <2>11 DEF Recurs
  <2>13. QED
    BY <2>3, <2>6, <2>10, <2>12
<1>2. Reached(N)
  BY <1>1
<1>3. QED
  BY <1>2

LEMMA SameThroughout ==
  ASSUME NEW N \in Nat, NEW g, NEW h, h[0] = g[0],
         \A n \in 1 .. N : h[n - 1] = g[n - 1] => h[n] = g[n]
  PROVE  \A n \in 0 .. N : h[n] = g[n]
<1> DEFINE T == {n \in 0 .. N : h[n] # g[n]}
<1>1. ASSUME T # {} PROVE FALSE
  <2>1. PICK n \in T : \A i \in T : n <= i
    <3>1. T \subseteq Nat
      OBVIOUS
    <3> HIDE DEF T
    <3>2. QED
      BY <1>1, <3>1, LeastNat
  <2>2. n \in 0 .. N /\ h[n] # g[n]
    BY <2>1
  <2>3. n \in 1 .. N /\ n - 1 \in 0 .. N /\ ~(n <= n - 1)
    BY <2>2
  <2>4. h[n - 1] = g[n - 1]
    BY <2>1, <2>3
  <2>5. QED
    BY <2>2, <2>3, <2>4
<1>2. QED
  BY <1>1

(***************************************************************************)
(* Wrapping leaves a number in range as it is.                             *)
(***************************************************************************)
LEMMA WrappedSpec ==
  /\ \A n \in Int : Wrapped(n) \in Int
  /\ \A n \in 0 .. 2 ^ (IntBits - 1) - 1 : Wrapped(n) = n
<1> DEFINE half == 2 ^ (IntBits - 1)
<1>1. half \in Nat \ {0} /\ 2 ^ IntBits = 2 * half
  BY PowersAssumption
<1>2. \A n : Wrapped(n) = IF n % (2 * half) >= half THEN (n % (2 * half)) - 2 * half ELSE n % (2 * half)
  BY <1>1 DEF Wrapped
<1> HIDE DEF half
<1>3. \A n \in Int : n % (2 * half) \in Int
  BY <1>1
<1>4. \A n \in 0 .. half - 1 : n % (2 * half) = n /\ ~(n >= half)
  BY <1>1
<1>5. (\A n \in Int : Wrapped(n) \in Int) /\ (\A n \in 0 .. half - 1 : Wrapped(n) = n)
  BY <1>1, <1>2, <1>3, <1>4
<1>6. QED
  BY <1>5 DEF half

LEMMA Digits ==
  ASSUME NEW tok \in Seq(Nat), IsDecimal(tok)
  PROVE  Len(tok) \in Nat /\ \A n \in 1 .. Len(tok) : tok[n] - Zero \in Nat
BY DEF IsDecimal, Zero, Nine

-----------------------------------------------------------------------------
(***************************************************************************)
(* What has been checked was well formed, and what remains is in order.    *)
(***************************************************************************)
Checked ==
  /\ keys \in KeySets
  /\ unchecked \in Seq(keys)
  /\ \A i, j \in 1 .. Len(unchecked) : i < j => Before(unchecked[i], unchecked[j])
  /\ \A k \in keys : ValidKey(k) \/ \E i \in 1 .. Len(unchecked) : unchecked[i] = k
  /\ \/ verdict = <<>>
     \/ verdict = <<Accepted>> /\ unchecked = <<>>
     \/ /\ unchecked # <<>>
        /\ verdict = <<ErrorPointer(unchecked[1])>>
        /\ ~ValidKey(unchecked[1])

-----------------------------------------------------------------------------
LEMMA InitialChecked == ValidateInit => Checked
BY SortingsCover, KeySetsAssumption DEF ValidateInit, Checked

LEMMA CheckKeyKeeps == Checked /\ CheckKey => Checked'
<1> SUFFICES ASSUME Checked, CheckKey PROVE Checked'
  OBVIOUS
<1>1. /\ unchecked \in Seq(keys) /\ unchecked # <<>> /\ Len(unchecked) \in Nat \ {0}
      /\ Head(unchecked) = unchecked[1] /\ keys' = keys /\ verdict = <<>>
  BY DEF Checked, CheckKey
<1>2. CASE ValidKey(unchecked[1])
  <2>1. unchecked' = Tail(unchecked) /\ verdict' = <<>>
    BY <1>1, <1>2 DEF CheckKey
  <2>2. /\ unchecked' \in Seq(keys) /\ Len(unchecked') = Len(unchecked) - 1
        /\ \A i \in 1 .. Len(unchecked) - 1 : unchecked'[i] = unchecked[i + 1]
    BY <1>1, <2>1
  <2>3. \A i, j \in 1 .. Len(unchecked') : i < j => Before(unchecked'[i], unchecked'[j])
    BY <1>1, <2>2 DEF Checked
  <2>4. ASSUME NEW k \in keys, ~ValidKey(k)
        PROVE  \E i \in 1 .. Len(unchecked') : unchecked'[i] = k
    <3>1. PICK i \in 1 .. Len(unchecked) : unchecked[i] = k
      BY <2>4 DEF Checked
    <3>2. i # 1
      BY <1>2, <2>4, <3>1
    <3>3. i - 1 \in 1 .. Len(unchecked') /\ unchecked'[i - 1] = k
      BY <1>1, <2>2, <3>1, <3>2
    <3>4. QED
      BY <3>3
  <2>5. QED
    BY <1>1, <2>1, <2>2, <2>3, <2>4 DEF Checked
<1>3. CASE ~ValidKey(unchecked[1])
  BY <1>1, <1>3 DEF Checked, CheckKey
<1>4. QED
  BY <1>2, <1>3

(***************************************************************************)
(* What the walk over the sorted keys maintains: every key passed is well  *)
(* formed, and a verdict is given for the first that is not.               *)
(***************************************************************************)
THEOREM KeysChecked == ValidateSpec => []Checked
<1>1. Checked /\ [ValidateNext]_validation => Checked'
  <2> SUFFICES ASSUME Checked, [ValidateNext]_validation PROVE Checked'
    OBVIOUS
  <2>1. CASE CheckKey
    BY <2>1, CheckKeyKeeps
  <2>2. CASE Accept
    BY <2>2 DEF Accept, Checked
  <2>3. CASE UNCHANGED validation
    BY <2>3 DEF validation, Checked
  <2>4. QED
    BY <2>1, <2>2, <2>3 DEF ValidateNext
<1>2. QED
  BY InitialChecked, <1>1, PTL DEF ValidateSpec

(***************************************************************************)
(* Neither text an error can name is the nil error.                        *)
(***************************************************************************)
LEMMA NoErrorAccepts ==
  ASSUME keys \in KeySets, NEW k \in keys
  PROVE  k \in Seq(Nat) /\ ErrorPointer(k) # Accepted
<1>1. k \in UNION KeySets /\ k \in Seq(Nat)
  BY KeySetsAssumption
<1>2. QED
  BY <1>1, KeySetsAssumption DEF ErrorPointer

(***************************************************************************)
(* The error Validate gives is that of the least key that is not well      *)
(* formed.                                                                 *)
(***************************************************************************)
THEOREM LeastOffenderNamed == ValidateSpec => []FirstOffender
<1>1. Checked => FirstOffender
  <2> SUFFICES ASSUME Checked, Refused PROVE FirstOffender
    BY DEF FirstOffender
  <2> DEFINE k == unchecked[1]
  <2>1. /\ unchecked \in Seq(keys) /\ unchecked # <<>>
        /\ verdict = <<ErrorPointer(k)>> /\ ~ValidKey(k)
    BY DEF Checked, Refused
  <2>2. 1 \in 1 .. Len(unchecked) /\ k \in keys
    BY <2>1
  <2>3. ASSUME NEW l \in keys, l # k, ~ValidKey(l)
        PROVE  Before(k, l)
    <3>1. PICK i \in 1 .. Len(unchecked) : unchecked[i] = l
      BY <2>3 DEF Checked
    <3>2. i # 1
      BY <2>3, <3>1
    <3>3. QED
      BY <2>2, <3>1, <3>2 DEF Checked
  <2>4. k \in Seq(Nat)
    BY <2>2, NoErrorAccepts DEF Checked
  <2> HIDE DEF k
  <2>5. verdict[1] = ErrorPointer(k) /\ (k # <<>> => Head(k) = k[1])
    BY <2>1, <2>4
  <2>6. QED
    BY <2>1, <2>2, <2>3, <2>5 DEF FirstOffender, ErrorPointer
<1>2. QED
  BY KeysChecked, <1>1, PTL

(***************************************************************************)
(* Validate accepts exactly the patches whose keys are all well formed.    *)
(***************************************************************************)
AcceptsWellFormed ==
  verdict # <<>> => (verdict = <<Accepted>> <=> \A k \in keys : ValidKey(k))

(***************************************************************************)
(* For every patch, Patch.Validate answers as ValidateKey does of each key. *)
(***************************************************************************)
THEOREM AcceptsExactly == ValidateSpec => []AcceptsWellFormed
<1>1. Checked => AcceptsWellFormed
  <2> SUFFICES ASSUME Checked, verdict # <<>> PROVE verdict = <<Accepted>> <=> \A k \in keys : ValidKey(k)
    BY DEF AcceptsWellFormed
  <2>1. CASE verdict = <<Accepted>> /\ unchecked = <<>>
    BY <2>1 DEF Checked
  <2>2. CASE /\ unchecked # <<>>
             /\ verdict = <<ErrorPointer(unchecked[1])>>
             /\ ~ValidKey(unchecked[1])
    <3>1. unchecked[1] \in keys
      BY <2>2 DEF Checked
    <3>2. ErrorPointer(unchecked[1]) # Accepted
      BY <3>1, NoErrorAccepts DEF Checked
    <3>3. QED
      BY <2>2, <3>1, <3>2
  <2>3. QED
    BY <2>1, <2>2 DEF Checked
<1>2. QED
  BY KeysChecked, <1>1, PTL

(***************************************************************************)
(* Every key of an accepted patch is a well-escaped text.                  *)
(***************************************************************************)
LEMMA AcceptedKeys == Checked /\ verdict = <<Accepted>> => \A k \in keys : k \in Seq(Nat) /\ WellEscaped(k)
<1> SUFFICES ASSUME Checked, verdict = <<Accepted>>, NEW k \in keys
             PROVE  k \in Seq(Nat) /\ WellEscaped(k)
  OBVIOUS
<1>1. keys \in KeySets /\ k \in Seq(Nat)
  BY KeySetsAssumption DEF Checked
<1>2. ValidKey(k)
  <2>1. CASE unchecked = <<>>
    BY <2>1 DEF Checked
  <2>2. CASE unchecked # <<>> /\ verdict = <<ErrorPointer(unchecked[1])>>
    <3>1. unchecked[1] \in keys
      BY <2>2 DEF Checked
    <3>2. ErrorPointer(unchecked[1]) # Accepted
      BY <3>1, NoErrorAccepts DEF Checked
    <3>3. QED
      BY <2>2, <3>2
  <2>3. QED
    BY <2>1, <2>2 DEF Checked
<1>3. QED
  BY <1>1, <1>2 DEF ValidKey

(***************************************************************************)
(* However many keys and however long, no two of an accepted patch address *)
(* the same member: escapes give no second way to write a token.           *)
(***************************************************************************)
THEOREM NoAliases == ValidateSpec => []Unaliased
<1>1. Checked => Unaliased
  <2> SUFFICES ASSUME Checked, verdict = <<Accepted>>, NEW k \in keys, NEW l \in keys,
                      Tokens(k) = Tokens(l)
               PROVE  k = l
    BY DEF Unaliased
  <2>1. QED
    BY AcceptedKeys, TokensInjective
<1>2. QED
  BY KeysChecked, <1>1, PTL

(***************************************************************************)
(* The byte order of the keys, escapes and all, puts a container before    *)
(* what is inside it: the order ApplyPatch relies on.                      *)
(***************************************************************************)
THEOREM ContainersFirst == ValidateSpec => []ParentsFirst
<1>1. Checked => ParentsFirst
  <2> SUFFICES ASSUME Checked, verdict = <<Accepted>>, NEW k \in keys, NEW l \in keys,
                      IsStrictPrefix(Tokens(k), Tokens(l))
               PROVE  Before(k, l)
    BY DEF ParentsFirst
  <2>1. QED
    BY AcceptedKeys, PrefixesBefore
<1>2. QED
  BY KeysChecked, <1>1, PTL


-----------------------------------------------------------------------------
Token    == Seq(Nat)
Location == Seq(Token)

-----------------------------------------------------------------------------
(***************************************************************************)
(* Locations: prefixes and what follows them.                              *)
(***************************************************************************)
LEMMA PrefixSpec ==
  ASSUME NEW a \in Location, NEW p \in Location
  PROVE  IsPrefix(a, p) <=> Len(a) <= Len(p) /\ \A i \in 1 .. Len(a) : a[i] = p[i]
<1>1. CASE Len(a) <= Len(p)
  <2>1. /\ Len(a) \in Nat /\ Len(p) \in Nat
        /\ 1 \in 1 .. Len(a) + 1 /\ 1 \in 1 .. Len(p) + 1
        /\ Len(a) \in 0 .. Len(a) /\ Len(a) \in 0 .. Len(p)
    BY <1>1 DEF Location
  <2> DEFINE s == SubSeq(a, 1, Len(a))
             t == SubSeq(p, 1, Len(a))
  <2>2. /\ s \in Location /\ Len(s) = Len(a) /\ \A i \in 1 .. Len(a) : s[i] = a[i]
        /\ t \in Location /\ Len(t) = Len(a) /\ \A i \in 1 .. Len(a) : t[i] = p[i]
    BY <2>1, SubSeqSpec DEF Location
  <2>3. s = t <=> \A i \in 1 .. Len(a) : a[i] = p[i]
    <3> HIDE DEF s, t
    <3>1. s = t <=> \A i \in 1 .. Len(a) : s[i] = t[i]
      BY <2>2, SeqEqual DEF Location
    <3>2. QED
      BY <2>2, <3>1
  <2>4. QED
    BY <1>1, <2>3 DEF IsPrefix
<1>2. CASE ~(Len(a) <= Len(p))
  BY <1>2 DEF IsPrefix
<1>3. QED
  BY <1>1, <1>2

LEMMA BelowSpec ==
  ASSUME NEW a \in Location, NEW p \in Location, IsPrefix(a, p)
  PROVE  /\ Below(a, p) \in Location /\ Len(Below(a, p)) = Len(p) - Len(a)
         /\ p = a \o Below(a, p)
<1> DEFINE r == Below(a, p)
<1>1. Len(a) <= Len(p) /\ \A i \in 1 .. Len(a) : a[i] = p[i]
  BY PrefixSpec
<1>2. /\ Len(a) \in Nat /\ Len(p) \in Nat
      /\ Len(a) + 1 \in 1 .. Len(p) + 1 /\ Len(p) \in (Len(a) + 1) - 1 .. Len(p)
      /\ Len(p) - (Len(a) + 1) + 1 = Len(p) - Len(a)
      /\ \A i \in Int : (Len(a) + 1) + i - 1 = Len(a) + i
  BY <1>1 DEF Location
<1>3. /\ r \in Location /\ Len(r) = Len(p) - Len(a)
      /\ \A i \in 1 .. Len(p) - Len(a) : r[i] = p[Len(a) + i]
  BY <1>2, SubSeqSpec DEF Location, Below
<1> HIDE DEF r
<1>4. /\ a \o r \in Location /\ Len(a \o r) = Len(a) + Len(r)
      /\ \A i \in 1 .. Len(a) + Len(r) : (a \o r)[i] = IF i <= Len(a) THEN a[i] ELSE r[i - Len(a)]
  BY <1>3, ConcatProperties DEF Location
<1>5. Len(a \o r) = Len(p) /\ \A i \in 1 .. Len(p) : (a \o r)[i] = p[i]
  <2>1. Len(a) + Len(r) = Len(p)
    BY <1>2, <1>3
  <2>2. ASSUME NEW i \in 1 .. Len(p) PROVE (a \o r)[i] = p[i]
    <3>1. CASE i <= Len(a)
      BY <1>1, <1>4, <2>1, <3>1
    <3>2. CASE ~(i <= Len(a))
      <4>1. i - Len(a) \in 1 .. Len(p) - Len(a) /\ Len(a) + (i - Len(a)) = i
        BY <1>2, <3>2
      <4>2. r[i - Len(a)] = p[i]
        BY <1>3, <4>1
      <4>3. QED
        BY <1>4, <2>1, <3>2, <4>2
    <3>3. QED
      BY <3>1, <3>2
  <2>3. QED
    BY <1>4, <2>1, <2>2
<1>6. a \o r = p
  BY <1>4, <1>5, SeqEqual DEF Location
<1>7. QED
  BY <1>3, <1>6 DEF r

LEMMA ConcatSpec ==
  ASSUME NEW a \in Location, NEW r \in Location
  PROVE  /\ a \o r \in Location /\ Len(a \o r) = Len(a) + Len(r)
         /\ IsPrefix(a, a \o r) /\ Below(a, a \o r) = r
<1>1. /\ a \o r \in Location /\ Len(a \o r) = Len(a) + Len(r)
      /\ \A i \in 1 .. Len(a) : (a \o r)[i] = a[i]
      /\ Len(a) \in Nat /\ Len(r) \in Nat /\ Len(a) <= Len(a \o r)
  BY DEF Location
<1>2. IsPrefix(a, a \o r)
  BY <1>1, PrefixSpec
<1>3. Below(a, a \o r) \in Location /\ a \o r = a \o Below(a, a \o r)
  BY <1>1, <1>2, BelowSpec
<1>4. Below(a, a \o r) = r
  BY <1>3, ConcatSimplifications DEF Location
<1>5. QED
  BY <1>1, <1>2, <1>4

LEMMA FrontSpec ==
  ASSUME NEW p \in Location, p # <<>>
  PROVE  /\ Front(p) \in Location /\ Len(Front(p)) = Len(p) - 1
         /\ Last(p) \in Token /\ p = Append(Front(p), Last(p))
         /\ \A i \in 1 .. Len(p) - 1 : Front(p)[i] = p[i]
         /\ IsPrefix(Front(p), p)
<1>1. Len(p) \in Nat /\ Len(p) # 0
  BY DEF Location
<1>2. /\ 1 \in 1 .. Len(p) + 1 /\ Len(p) - 1 \in 1 - 1 .. Len(p)
      /\ (Len(p) - 1) - 1 + 1 = Len(p) - 1 /\ \A i \in Int : 1 + i - 1 = i
  BY <1>1
<1>3. /\ Front(p) \in Location /\ Len(Front(p)) = Len(p) - 1
      /\ \A i \in 1 .. Len(p) - 1 : Front(p)[i] = p[i]
  BY <1>2, SubSeqSpec DEF Front, Location
<1>4. Last(p) = p[Len(p)] /\ Last(p) \in Token
  BY <1>1 DEF Last, Location
<1>5. p = Append(Front(p), Last(p))
  <2> DEFINE q == Append(Front(p), Last(p))
  <2>1. q \in Location /\ Len(q) = Len(p)
    BY <1>1, <1>3, <1>4 DEF Location
  <2>2. \A i \in 1 .. Len(p) : q[i] = p[i]
    BY <1>1, <1>3, <1>4 DEF Location
  <2> HIDE DEF q
  <2>3. q = p
    BY <2>1, <2>2, SeqEqual DEF Location
  <2>4. QED
    BY <2>3 DEF q
<1>6. IsPrefix(Front(p), p)
  BY <1>1, <1>3, PrefixSpec
<1>7. QED
  BY <1>3, <1>4, <1>5, <1>6

LEMMA AppendSpec ==
  ASSUME NEW p \in Location, NEW tok \in Token
  PROVE  /\ Append(p, tok) \in Location /\ Len(Append(p, tok)) = Len(p) + 1
         /\ Append(p, tok) # <<>> /\ Front(Append(p, tok)) = p /\ Last(Append(p, tok)) = tok
<1> DEFINE q == Append(p, tok)
<1>1. /\ q \in Location /\ Len(q) = Len(p) + 1 /\ q # <<>> /\ q[Len(p) + 1] = tok
      /\ \A i \in 1 .. Len(p) : q[i] = p[i]
      /\ Len(p) \in Nat
  BY AppendProperties DEF Location
<1>2. Last(q) = tok
  BY <1>1 DEF Last
<1> HIDE DEF q
<1>3. Front(q) \in Location /\ Len(Front(q)) = Len(p) /\ \A i \in 1 .. Len(p) : Front(q)[i] = p[i]
  BY <1>1, FrontSpec
<1>4. Front(q) = p
  BY <1>3, SeqEqual DEF Location
<1>5. QED
  BY <1>1, <1>2, <1>4 DEF q

LEMMA PrefixFront ==
  ASSUME NEW l \in Location, NEW q \in Location
  PROVE  /\ IsPrefix(q, q) /\ IsPrefix(<<>>, q)
         /\ q # <<>> /\ IsPrefix(l, Front(q)) => IsPrefix(l, q) /\ l # q
         /\ IsPrefix(l, q) /\ l # q => q # <<>> /\ IsPrefix(l, Front(q))
<1>1. Len(l) \in Nat /\ Len(q) \in Nat /\ <<>> \in Location /\ Len(<<>>) = 0
  BY DEF Location
<1>2. IsPrefix(q, q) /\ IsPrefix(<<>>, q)
  BY <1>1, PrefixSpec
<1>3. ASSUME q # <<>>, IsPrefix(l, Front(q)) PROVE IsPrefix(l, q) /\ l # q
  <2>1. /\ Front(q) \in Location /\ Len(Front(q)) = Len(q) - 1
        /\ \A i \in 1 .. Len(q) - 1 : Front(q)[i] = q[i]
    BY <1>3, FrontSpec
  <2>2. Len(l) <= Len(q) - 1 /\ \A i \in 1 .. Len(l) : l[i] = Front(q)[i]
    BY <1>3, <2>1, PrefixSpec
  <2>3. Len(l) <= Len(q) /\ Len(l) # Len(q) /\ \A i \in 1 .. Len(l) : l[i] = q[i]
    BY <1>1, <2>1, <2>2
  <2>4. QED
    BY <2>3, PrefixSpec
<1>4. ASSUME IsPrefix(l, q), l # q PROVE q # <<>> /\ IsPrefix(l, Front(q))
  <2>1. Len(l) <= Len(q) /\ \A i \in 1 .. Len(l) : l[i] = q[i]
    BY <1>4, PrefixSpec
  <2>2. Len(l) # Len(q)
    BY <1>4, <2>1, SeqEqual DEF Location
  <2>3. q # <<>>
    BY <1>1, <2>1, <2>2
  <2>4. /\ Front(q) \in Location /\ Len(Front(q)) = Len(q) - 1
        /\ \A i \in 1 .. Len(q) - 1 : Front(q)[i] = q[i]
    BY <2>3, FrontSpec
  <2>5. Len(l) <= Len(Front(q)) /\ \A i \in 1 .. Len(l) : l[i] = Front(q)[i]
    BY <1>1, <2>1, <2>2, <2>4
  <2>6. QED
    BY <2>3, <2>4, <2>5, PrefixSpec
<1>5. QED
  BY <1>2, <1>3, <1>4

LEMMA FrontConcat ==
  ASSUME NEW l \in Location, NEW r \in Location, r # <<>>
  PROVE  /\ l \o r # <<>> /\ Front(l \o r) = l \o Front(r) /\ Last(l \o r) = Last(r)
<1>1. Front(r) \in Location /\ Last(r) \in Token /\ r = Append(Front(r), Last(r))
  BY FrontSpec
<1> DEFINE f == Front(r)
           t == Last(r)
<1> HIDE DEF f, t
<1>2. f \in Seq(Token) /\ t \in Token /\ l \in Seq(Token) /\ <<t>> \in Seq(Token) /\ r = Append(f, t)
  BY <1>1 DEF f, t, Location
<1>3. l \o f \in Seq(Token)
  BY <1>2, ConcatProperties
<1>4. r = f \o <<t>> /\ Append(l \o f, t) = (l \o f) \o <<t>>
  BY <1>2, <1>3, AppendIsConcat
<1>5. (l \o f) \o <<t>> = l \o (f \o <<t>>)
  BY <1>2, ConcatAssociative
<1>6. l \o r = Append(l \o f, t)
  BY <1>4, <1>5
<1>7. l \o f \in Location
  BY <1>3 DEF Location
<1>8. l \o r # <<>> /\ Front(l \o r) = l \o f /\ Last(l \o r) = t
  BY <1>2, <1>6, <1>7, AppendSpec
<1>9. QED
  BY <1>8 DEF f, t

-----------------------------------------------------------------------------
(***************************************************************************)
(* The children of a node, and the copy with a location gone or replaced.  *)
(***************************************************************************)
LEMMA ChildrenSpec ==
  ASSUME NEW tree, DOMAIN tree \subseteq Location, NEW at \in Location
  PROVE  Children(tree, at) = {q \in DOMAIN tree : q # <<>> /\ Front(q) = at}
<1>1. ASSUME NEW q \in DOMAIN tree, q # <<>>, Front(q) = at
      PROVE  Len(q) = Len(at) + 1 /\ IsPrefix(at, q)
  <2>1. q \in Location
    OBVIOUS
  <2>2. Len(at) = Len(q) - 1 /\ Len(q) \in Nat /\ IsPrefix(at, q)
    BY <1>1, <2>1, FrontSpec DEF Location
  <2>3. QED
    BY <2>2
<1>2. ASSUME NEW q \in DOMAIN tree, Len(q) = Len(at) + 1, IsPrefix(at, q)
      PROVE  q # <<>> /\ Front(q) = at
  <2>1. q \in Location /\ Len(at) \in Nat /\ Len(q) \in Nat
    BY DEF Location
  <2>2. at # q
    BY <1>2, <2>1
  <2>3. q # <<>> /\ IsPrefix(at, Front(q))
    BY <1>2, <2>1, <2>2, PrefixFront
  <2>4. Front(q) \in Location /\ Len(Front(q)) = Len(at)
    BY <1>2, <2>1, <2>3, FrontSpec
  <2>5. \A i \in 1 .. Len(at) : at[i] = Front(q)[i]
    BY <2>3, <2>4, PrefixSpec
  <2>6. Front(q) = at
    BY <2>4, <2>5, SeqEqual DEF Location
  <2>7. QED
    BY <2>3, <2>6
<1>3. QED
  BY <1>1, <1>2 DEF Children

LEMMA DecodedSpec ==
  ASSUME NEW tree, Decoded(tree)
  PROVE  /\ DOMAIN tree \subseteq Location
         /\ IsFiniteSet(DOMAIN tree) /\ <<>> \in DOMAIN tree
         /\ tree = [p \in DOMAIN tree |-> tree[p]]
         /\ \A p \in DOMAIN tree :
              p # <<>> => Front(p) \in DOMAIN tree /\ tree[Front(p)] \in {"object", "array"}
         /\ \A p \in DOMAIN tree : tree[p] = "array" =>
              \A c \in Children(tree, p) :
                /\ NamesElement(Last(c), Length(tree, p))
                /\ \A d \in Children(tree, p) : Index(Last(c)) = Index(Last(d)) => c = d
BY DEF Decoded, IsTree, Location, Token

LEMMA PrunedSpec ==
  ASSUME NEW tree, DOMAIN tree \subseteq Location, NEW l
  PROVE  /\ DOMAIN Pruned(tree, l) = {p \in DOMAIN tree : ~IsPrefix(l, p)}
         /\ \A p \in DOMAIN Pruned(tree, l) : Pruned(tree, l)[p] = tree[p]
         /\ Pruned(tree, l) = [p \in DOMAIN Pruned(tree, l) |-> Pruned(tree, l)[p]]
BY DEF Pruned, Restrict

(***************************************************************************)
(* Removing a member of an object leaves a tree.                           *)
(***************************************************************************)
LEMMA PrunedDecoded ==
  ASSUME NEW tree, Decoded(tree), NEW l \in Location, l # <<>>,
         Front(l) \in DOMAIN tree, tree[Front(l)] = "object"
  PROVE  Decoded(Pruned(tree, l))
<1> DEFINE new == Pruned(tree, l)
           dom == DOMAIN tree
<1>1. /\ dom \subseteq Location /\ IsFiniteSet(dom) /\ <<>> \in dom
      /\ \A p \in dom : p # <<>> => Front(p) \in dom /\ tree[Front(p)] \in {"object", "array"}
  BY DecodedSpec
<1>2. /\ DOMAIN new = {p \in dom : ~IsPrefix(l, p)}
      /\ \A p \in DOMAIN new : new[p] = tree[p]
      /\ new = [p \in DOMAIN new |-> new[p]]
  BY <1>1, PrunedSpec
<1> HIDE DEF new
<1>3. DOMAIN new \subseteq Location /\ IsFiniteSet(DOMAIN new)
  BY <1>1, <1>2, FS_Subset
<1>4. <<>> \in DOMAIN new
  <2>1. ~IsPrefix(l, <<>>)
    BY PrefixFront, <<>> \in Location DEF Location
  <2>2. QED
    BY <1>1, <1>2, <2>1
<1>5. ASSUME NEW p \in DOMAIN new, p # <<>>
      PROVE  Front(p) \in DOMAIN new /\ new[Front(p)] \in {"object", "array"}
  <2>1. p \in Location /\ p \in dom /\ ~IsPrefix(l, p)
    BY <1>1, <1>2
  <2>2. Front(p) \in dom /\ tree[Front(p)] \in {"object", "array"}
    BY <1>1, <1>5, <2>1
  <2>3. ~IsPrefix(l, Front(p))
    BY <1>5, <2>1, PrefixFront
  <2>4. QED
    BY <1>2, <2>2, <2>3
<1>6. ASSUME NEW p \in DOMAIN new, new[p] = "array"
      PROVE  Children(new, p) = Children(tree, p)
  <2>1. p \in Location /\ p \in dom /\ ~IsPrefix(l, p) /\ tree[p] = "array"
    BY <1>1, <1>2, <1>6
  <2>2. /\ Children(new, p) = {q \in DOMAIN new : q # <<>> /\ Front(q) = p}
        /\ Children(tree, p) = {q \in dom : q # <<>> /\ Front(q) = p}
    BY <1>1, <1>3, <2>1, ChildrenSpec
  <2>3. ASSUME NEW q \in dom, q # <<>>, Front(q) = p PROVE ~IsPrefix(l, q)
    <3>1. q \in Location
      BY <1>1
    <3>2. IsPrefix(l, q) => l = q
      BY <2>1, <2>3, <3>1, PrefixFront
    <3>3. l # q
      BY <2>1, <2>3
    <3>4. QED
      BY <3>2, <3>3
  <2>4. QED
    BY <1>2, <2>2, <2>3
<1>7. ASSUME NEW p \in DOMAIN new, new[p] = "array", NEW c \in Children(new, p)
      PROVE  /\ NamesElement(Last(c), Length(new, p))
             /\ \A d \in Children(new, p) : Index(Last(c)) = Index(Last(d)) => c = d
  <2>1. Children(new, p) = Children(tree, p) /\ Length(new, p) = Length(tree, p)
    BY <1>6, <1>7 DEF Length
  <2>2. p \in dom /\ tree[p] = "array"
    BY <1>2, <1>7
  <2>3. QED
    BY <1>7, <2>1, <2>2, DecodedSpec
<1>8. QED
  BY <1>2, <1>3, <1>4, <1>5, <1>7 DEF Decoded, IsTree, Location, Token, new

(***************************************************************************)
(* Putting a value at a member, or at an element that is there, leaves a   *)
(* tree: the elements of no other array change.                            *)
(***************************************************************************)
Settable(tree, l) ==
  /\ l \in Location /\ l # <<>>
  /\ Front(l) \in DOMAIN tree
  /\ tree[Front(l)] = "object" \/ (tree[Front(l)] = "array" /\ l \in DOMAIN tree)

LEMMA GraftedSpec ==
  ASSUME NEW tree, Decoded(tree), NEW l \in Location, NEW value, Decoded(value)
  PROVE  /\ DOMAIN Grafted(tree, l, value) = {p \in DOMAIN tree : ~IsPrefix(l, p)}
                                               \cup {l \o r : r \in DOMAIN value}
         /\ \A p \in DOMAIN tree : ~IsPrefix(l, p) => Grafted(tree, l, value)[p] = tree[p]
         /\ \A r \in DOMAIN value : Grafted(tree, l, value)[l \o r] = value[r]
         /\ Grafted(tree, l, value) =
              [p \in DOMAIN Grafted(tree, l, value) |-> Grafted(tree, l, value)[p]]
         /\ DOMAIN Grafted(tree, l, value) \subseteq Location
<1> DEFINE new == Grafted(tree, l, value)
<1>1. DOMAIN tree \subseteq Location /\ DOMAIN value \subseteq Location
  BY DecodedSpec
<1>2. DOMAIN new = {p \in DOMAIN tree : ~IsPrefix(l, p)} \cup {l \o r : r \in DOMAIN value}
  BY <1>1, PrunedSpec DEF Grafted
<1>3. new = [p \in DOMAIN new |-> IF IsPrefix(l, p) THEN value[Below(l, p)] ELSE tree[p]]
  BY DEF Grafted
<1> HIDE DEF new
<1>4. \A p \in DOMAIN tree : ~IsPrefix(l, p) => new[p] = tree[p]
  BY <1>2, <1>3
<1>5. ASSUME NEW r \in DOMAIN value PROVE new[l \o r] = value[r] /\ l \o r \in Location
  <2>1. r \in Location
    BY <1>1
  <2>2. IsPrefix(l, l \o r) /\ Below(l, l \o r) = r /\ l \o r \in Location
    BY <2>1, ConcatSpec
  <2>3. l \o r \in DOMAIN new
    BY <1>2
  <2>4. QED
    BY <1>3, <2>2, <2>3
<1>6. DOMAIN new \subseteq Location
  BY <1>1, <1>2, <1>5
<1>7. new = [p \in DOMAIN new |-> new[p]]
  BY <1>3
<1>8. QED
  BY <1>2, <1>4, <1>5, <1>6, <1>7 DEF new

LEMMA GraftedDomain ==
  ASSUME NEW tree, Decoded(tree), NEW l \in Location, NEW value
  PROVE  DOMAIN Grafted(tree, l, value) =
           {p \in DOMAIN tree : ~IsPrefix(l, p)} \cup {l \o r : r \in DOMAIN value}
BY DecodedSpec, PrunedSpec DEF Grafted

LEMMA GraftedFinite ==
  ASSUME NEW tree, Decoded(tree), NEW l \in Location, NEW value, Decoded(value)
  PROVE  IsFiniteSet(DOMAIN Grafted(tree, l, value))
<1> DEFINE f == [r \in DOMAIN value |-> l \o r]
           T == {l \o r : r \in DOMAIN value}
           U == {p \in DOMAIN tree : ~IsPrefix(l, p)}
<1>1. f \in Surjection(DOMAIN value, T)
  BY DEF Surjection
<1>2. IsFiniteSet(DOMAIN value) /\ IsFiniteSet(DOMAIN tree)
  BY DecodedSpec
<1>3. IsFiniteSet(T)
  <2> HIDE DEF f, T
  <2>1. QED
    BY <1>1, <1>2, FS_Surjection
<1>4. U \in SUBSET DOMAIN tree
  OBVIOUS
<1>5. IsFiniteSet(U)
  <2> HIDE DEF U
  <2>1. QED
    BY <1>2, <1>4, FS_Subset
<1>6. IsFiniteSet(U \cup T)
  <2> HIDE DEF U, T
  <2>1. QED
    BY <1>3, <1>5, FS_Union
<1>7. DOMAIN Grafted(tree, l, value) =
        {p \in DOMAIN tree : ~IsPrefix(l, p)} \cup {l \o r : r \in DOMAIN value}
  BY GraftedDomain
<1>8. QED
  BY <1>6, <1>7

(***************************************************************************)
(* Below the location the children are those of the value, one for one.    *)
(***************************************************************************)
LEMMA GraftedChildren ==
  ASSUME NEW tree, Decoded(tree), NEW l, Settable(tree, l), NEW value, Decoded(value),
         NEW new, new = Grafted(tree, l, value)
  PROVE  /\ \A p \in DOMAIN tree : ~IsPrefix(l, p) /\ tree[p] = "array" =>
              Children(new, p) = Children(tree, p)
         /\ \A r \in DOMAIN value :
              /\ Children(new, l \o r) = {l \o c : c \in Children(value, r)}
              /\ Length(new, l \o r) = Length(value, r)
<1>1. /\ l \in Location /\ l # <<>>
      /\ DOMAIN tree \subseteq Location /\ DOMAIN value \subseteq Location
      /\ <<>> \in DOMAIN value /\ IsFiniteSet(DOMAIN value)
  BY DecodedSpec DEF Settable
<1>2. /\ DOMAIN new = {p \in DOMAIN tree : ~IsPrefix(l, p)} \cup {l \o r : r \in DOMAIN value}
      /\ DOMAIN new \subseteq Location
  <2>1. DOMAIN Grafted(tree, l, value) =
          {p \in DOMAIN tree : ~IsPrefix(l, p)} \cup {l \o r : r \in DOMAIN value}
    BY <1>1, GraftedDomain
  <2>2. \A r \in DOMAIN value : l \o r \in Location
    BY <1>1, ConcatSpec
  <2>3. QED
    BY <1>1, <2>1, <2>2
<1>3. \A r \in DOMAIN value : IsPrefix(l, l \o r) /\ Below(l, l \o r) = r /\ l \o r \in Location
  BY <1>1, ConcatSpec
<1>4. ASSUME NEW p \in DOMAIN tree, ~IsPrefix(l, p), tree[p] = "array"
      PROVE  Children(new, p) = Children(tree, p)
  <2>1. /\ Children(new, p) = {q \in DOMAIN new : q # <<>> /\ Front(q) = p}
        /\ Children(tree, p) = {q \in DOMAIN tree : q # <<>> /\ Front(q) = p}
    BY <1>1, <1>2, ChildrenSpec
  <2>2. ASSUME NEW q \in Location, q # <<>>, Front(q) = p, IsPrefix(l, q)
        PROVE  q = l /\ q \in DOMAIN tree /\ q \in DOMAIN new
    <3>1. q = l
      BY <1>1, <1>4, <2>2, PrefixFront
    <3>2. q \in DOMAIN tree
      BY <1>4, <2>2, <3>1 DEF Settable
    <3>3. l \o <<>> = l
      BY <1>1, ConcatEmptySeq DEF Location
    <3>4. QED
      BY <1>1, <1>2, <3>1, <3>2, <3>3
  <2>3. \A q \in Location : q # <<>> /\ Front(q) = p => (q \in DOMAIN new <=> q \in DOMAIN tree)
    BY <1>2, <1>3, <2>2
  <2>4. QED
    BY <1>1, <1>2, <2>1, <2>3
<1>5. ASSUME NEW r \in DOMAIN value
      PROVE  Children(new, l \o r) = {l \o c : c \in Children(value, r)}
  <2>1. /\ Children(new, l \o r) = {q \in DOMAIN new : q # <<>> /\ Front(q) = l \o r}
        /\ Children(value, r) = {q \in DOMAIN value : q # <<>> /\ Front(q) = r}
    BY <1>1, <1>2, <1>3, ChildrenSpec
  <2>2. ASSUME NEW c \in DOMAIN value, c # <<>>, Front(c) = r
        PROVE  l \o c \in DOMAIN new /\ l \o c # <<>> /\ Front(l \o c) = l \o r
    BY <1>1, <1>2, <2>2, FrontConcat
  <2>3. ASSUME NEW q \in DOMAIN new, q # <<>>, Front(q) = l \o r
        PROVE  \E c \in DOMAIN value : c # <<>> /\ Front(c) = r /\ q = l \o c
    <3>1. q \in Location /\ IsPrefix(l, q) /\ l # q
      <4>1. q \in Location /\ IsPrefix(l, Front(q))
        BY <1>2, <1>3, <2>3
      <4>2. QED
        BY <1>1, <2>3, <4>1, PrefixFront
    <3>2. PICK c \in DOMAIN value : q = l \o c
      BY <1>2, <3>1
    <3>3. l \o <<>> = l
      BY <1>1, ConcatEmptySeq DEF Location
    <3>4. c # <<>> /\ c \in Location
      BY <1>1, <3>1, <3>2, <3>3
    <3>5. Front(q) = l \o Front(c) /\ Front(c) \in Location
      BY <1>1, <3>2, <3>4, FrontConcat, FrontSpec
    <3>6. Front(c) = r
      BY <1>1, <1>3, <2>3, <3>5, ConcatSpec
    <3>7. QED
      BY <3>2, <3>4, <3>6
  <2>4. Children(new, l \o r) \subseteq {l \o c : c \in Children(value, r)}
    BY <2>1, <2>3
  <2>5. {l \o c : c \in Children(value, r)} \subseteq Children(new, l \o r)
    BY <2>1, <2>2
  <2>6. QED
    BY <2>4, <2>5
<1>6. ASSUME NEW r \in DOMAIN value
      PROVE  Length(new, l \o r) = Length(value, r)
  <2> DEFINE S == Children(value, r)
             T == Children(new, l \o r)
             f == [c \in S |-> l \o c]
  <2>1. T = {l \o c : c \in S}
    BY <1>5
  <2>2. S \in SUBSET DOMAIN value
    BY DEF Children
  <2>3. f \in Surjection(S, T)
    BY <2>1 DEF Surjection
  <2>4. f \in Injection(S, T)
    <3>1. \A c, d \in S : l \o c = l \o d => c = d
      BY <1>3, <2>2
    <3>2. QED
      BY <2>1, <3>1 DEF Injection, IsInjective
  <2>5. IsFiniteSet(S)
    <3> HIDE DEF S
    <3>1. QED
      BY <1>1, <2>2, FS_Subset
  <2>6. Cardinality(T) = Cardinality(S)
    <3> HIDE DEF S, T, f
    <3>1. QED
      BY <2>3, <2>4, <2>5, FS_Surjection
  <2>7. QED
    BY <2>6 DEF Length
<1>7. QED
  BY <1>4, <1>5, <1>6

LEMMA GraftedDecoded ==
  ASSUME NEW tree, Decoded(tree), NEW l, Settable(tree, l), NEW value, Decoded(value)
  PROVE  Decoded(Grafted(tree, l, value))
<1> DEFINE new == Grafted(tree, l, value)
<1>1. /\ l \in Location /\ l # <<>>
      /\ DOMAIN tree \subseteq Location /\ DOMAIN value \subseteq Location
      /\ <<>> \in DOMAIN tree /\ <<>> \in DOMAIN value
      /\ Front(l) \in DOMAIN tree /\ tree[Front(l)] \in {"object", "array"}
  BY DecodedSpec DEF Settable
<1>2. /\ DOMAIN new = {p \in DOMAIN tree : ~IsPrefix(l, p)} \cup {l \o r : r \in DOMAIN value}
      /\ \A p \in DOMAIN tree : ~IsPrefix(l, p) => new[p] = tree[p]
      /\ \A r \in DOMAIN value : new[l \o r] = value[r]
      /\ new = [p \in DOMAIN new |-> new[p]]
      /\ DOMAIN new \subseteq Location
  BY <1>1, GraftedSpec
<1>3. IsFiniteSet(DOMAIN new)
  BY <1>1, GraftedFinite
<1>4. /\ \A p \in DOMAIN tree : ~IsPrefix(l, p) /\ tree[p] = "array" =>
            Children(new, p) = Children(tree, p)
      /\ \A r \in DOMAIN value :
            /\ Children(new, l \o r) = {l \o c : c \in Children(value, r)}
            /\ Length(new, l \o r) = Length(value, r)
  BY GraftedChildren
<1> HIDE DEF new
<1>5. <<>> \in DOMAIN new
  <2>1. ~IsPrefix(l, <<>>)
    BY <1>1, PrefixFront
  <2>2. QED
    BY <1>1, <1>2, <2>1
<1>6. ASSUME NEW p \in DOMAIN new, p # <<>>
      PROVE  Front(p) \in DOMAIN new /\ new[Front(p)] \in {"object", "array"}
  <2>1. CASE p \in DOMAIN tree /\ ~IsPrefix(l, p)
    <3>1. Front(p) \in DOMAIN tree /\ tree[Front(p)] \in {"object", "array"}
      BY <1>6, <2>1, DecodedSpec
    <3>2. p \in Location /\ ~IsPrefix(l, Front(p))
      BY <1>1, <1>6, <2>1, PrefixFront
    <3>3. QED
      BY <1>2, <3>1, <3>2
  <2>2. CASE \E r \in DOMAIN value : p = l \o r
    <3>1. PICK r \in DOMAIN value : p = l \o r
      BY <2>2
    <3>2. CASE r = <<>>
      <4>1. p = l
        BY <1>1, <3>1, <3>2, ConcatEmptySeq DEF Location
      <4>2. ~IsPrefix(l, Front(l))
        BY <1>1, PrefixFront
      <4>3. QED
        BY <1>1, <1>2, <4>1, <4>2
    <3>3. CASE r # <<>>
      <4>1. r \in Location /\ Front(p) = l \o Front(r)
        BY <1>1, <3>1, <3>3, FrontConcat
      <4>2. Front(r) \in DOMAIN value /\ value[Front(r)] \in {"object", "array"}
        BY <3>3, DecodedSpec
      <4>3. QED
        BY <1>2, <4>1, <4>2
    <3>4. QED
      BY <3>2, <3>3
  <2>3. QED
    BY <1>2, <2>1, <2>2
<1>7. ASSUME NEW p \in DOMAIN new, new[p] = "array", NEW c \in Children(new, p)
      PROVE  /\ NamesElement(Last(c), Length(new, p))
             /\ \A d \in Children(new, p) : Index(Last(c)) = Index(Last(d)) => c = d
  <2>1. CASE p \in DOMAIN tree /\ ~IsPrefix(l, p)
    <3>1. tree[p] = "array"
      BY <1>2, <1>7, <2>1
    <3>2. Children(new, p) = Children(tree, p) /\ Length(new, p) = Length(tree, p)
      BY <1>4, <2>1, <3>1 DEF Length
    <3>3. QED
      BY <1>7, <2>1, <3>1, <3>2, DecodedSpec
  <2>2. CASE \E r \in DOMAIN value : p = l \o r
    <3>1. PICK r \in DOMAIN value : p = l \o r
      BY <2>2
    <3>2. /\ Children(new, p) = {l \o e : e \in Children(value, r)}
          /\ Length(new, p) = Length(value, r) /\ value[r] = "array"
      BY <1>2, <1>4, <1>7, <3>1
    <3>3. \A e \in Children(value, r) : e \in Location /\ Last(l \o e) = Last(e)
      <4>1. Children(value, r) = {q \in DOMAIN value : q # <<>> /\ Front(q) = r}
        BY <1>1, ChildrenSpec
      <4>2. QED
        BY <1>1, <4>1, FrontConcat
    <3>4. \A e \in Children(value, r) :
            /\ NamesElement(Last(e), Length(value, r))
            /\ \A d \in Children(value, r) : Index(Last(e)) = Index(Last(d)) => e = d
      BY <3>2, DecodedSpec
    <3>5. QED
      BY <1>7, <3>2, <3>3, <3>4
  <2>3. QED
    BY <1>2, <2>1, <2>2
<1>8. QED
  BY <1>2, <1>3, <1>5, <1>6, <1>7 DEF Decoded, IsTree, Location, Token, new

-----------------------------------------------------------------------------
(***************************************************************************)
(* Where a key leads: as many tokens down as it has, each named or, in an  *)
(* array, numbered by its token.                                           *)
(***************************************************************************)
Leads(tree, tokens, l) ==
  /\ Settable(tree, l)
  /\ Len(l) = Len(tokens) /\ Addresses(tokens, l)
  /\ tree[<<>>] = "object" => l[1] = tokens[1]

LEMMA Holding ==
  ASSUME NEW tree, Decoded(tree), NEW tokens \in Location, NEW h \in Holders(tree, tokens),
         NEW l, l \in Location, l # <<>>, Front(l) = h,
         \/ tree[h] = "object" /\ Last(l) = Last(tokens)
         \/ tree[h] = "array" /\ l \in DOMAIN tree /\ Reaches(tree, h, Last(tokens), Last(l))
  PROVE  Leads(tree, tokens, l)
<1>1. /\ h \in DOMAIN tree /\ h \in Location /\ Len(h) + 1 = Len(tokens)
      /\ \A i \in 1 .. Len(h) : Reaches(tree, SubSeq(h, 1, i - 1), tokens[i], h[i])
  <2>1. h \in DOMAIN tree /\ h \in Location
    BY DecodedSpec DEF Holders
  <2>2. DOMAIN h = 1 .. Len(h)
    BY <2>1 DEF Location
  <2>3. QED
    BY <2>1, <2>2 DEF Holders
<1>2. /\ Len(h) \in Nat /\ Len(tokens) \in Nat /\ Len(l) \in Nat
      /\ Len(h) = Len(l) - 1 /\ \A i \in 1 .. Len(h) : h[i] = l[i]
      /\ Last(l) = l[Len(l)] /\ Last(tokens) = tokens[Len(tokens)]
  BY <1>1, FrontSpec DEF Location, Last
<1>3. Len(l) = Len(tokens)
  BY <1>1, <1>2
<1>4. Settable(tree, l)
  BY <1>1 DEF Settable
<1>5. ASSUME NEW i \in 1 .. Len(tokens)
      PROVE  l[i] = tokens[i] \/ (IsDecimal(tokens[i]) /\ Index(l[i]) = Index(tokens[i]))
  <2>1. CASE i \in 1 .. Len(h)
    BY <1>1, <1>2, <2>1 DEF Reaches, NamesElement
  <2>2. CASE i \notin 1 .. Len(h)
    <3>1. i = Len(tokens)
      BY <1>1, <1>2, <2>2
    <3>2. l[i] = Last(l) /\ tokens[i] = Last(tokens)
      BY <1>2, <1>3, <3>1
    <3>3. QED
      BY <3>2 DEF Reaches, NamesElement
  <2>3. QED
    BY <2>1, <2>2
<1>6. Addresses(tokens, l)
  BY <1>2, <1>3, <1>5 DEF Addresses
<1>7. ASSUME tree[<<>>] = "object" PROVE l[1] = tokens[1]
  <2>1. CASE Len(h) = 0
    <3>1. h = <<>> /\ Len(tokens) = 1
      BY <1>1, <2>1
    <3>2. Last(l) = Last(tokens)
      BY <1>7, <3>1 DEF Reaches
    <3>3. QED
      BY <1>2, <1>3, <3>1, <3>2
  <2>2. CASE Len(h) # 0
    <3>1. 1 \in 1 .. Len(h)
      BY <1>2, <2>2
    <3>2. SubSeq(h, 1, 1 - 1) = <<>>
      BY <1>1 DEF Location
    <3>3. Reaches(tree, <<>>, tokens[1], h[1])
      BY <1>1, <3>1, <3>2
    <3>4. h[1] = tokens[1]
      BY <1>7, <3>3 DEF Reaches
    <3>5. QED
      BY <1>2, <3>1, <3>4
  <2>3. QED
    BY <2>1, <2>2
<1>8. QED
  BY <1>3, <1>4, <1>6, <1>7 DEF Leads

LEMMA Targets ==
  ASSUME NEW tree, Decoded(tree), NEW tokens \in Location, tokens # <<>>
  PROVE  /\ \A l \in Members(tree, tokens) : Leads(tree, tokens, l) /\ tree[Front(l)] = "object"
         /\ \A l \in Elements(tree, tokens) : Leads(tree, tokens, l)
<1>1. Last(tokens) \in Token /\ DOMAIN tree \subseteq Location
  BY FrontSpec, DecodedSpec
<1>2. ASSUME NEW l \in Members(tree, tokens)
      PROVE  Leads(tree, tokens, l) /\ tree[Front(l)] = "object"
  <2>1. PICK h \in Holders(tree, tokens) : tree[h] = "object" /\ l = Append(h, Last(tokens))
    BY DEF Members
  <2>2. h \in Location
    BY <1>1 DEF Holders
  <2>3. l \in Location /\ l # <<>> /\ Front(l) = h /\ Last(l) = Last(tokens)
    BY <1>1, <2>1, <2>2, AppendSpec
  <2>4. QED
    BY <2>1, <2>3, Holding
<1>3. ASSUME NEW l \in Elements(tree, tokens)
      PROVE  Leads(tree, tokens, l)
  <2>1. PICK h \in Holders(tree, tokens) :
          tree[h] = "array" /\ l \in Children(tree, h) /\ Reaches(tree, h, Last(tokens), Last(l))
    BY DEF Elements
  <2>2. h \in Location
    BY <1>1 DEF Holders
  <2>3. l \in DOMAIN tree /\ l \in Location /\ l # <<>> /\ Front(l) = h
    BY <1>1, <2>1, <2>2, ChildrenSpec
  <2>4. QED
    BY <2>1, <2>3, Holding
<1>4. QED
  BY <1>2, <1>3

(***************************************************************************)
(* What a step does to the copy: it stays a tree, and nothing changes but  *)
(* at one location and below.                                              *)
(***************************************************************************)
ChangedAt(l, old, new) ==
  /\ Decoded(new)
  /\ \A p \in Location : ~IsPrefix(l, p) =>
       /\ p \in DOMAIN new <=> p \in DOMAIN old
       /\ p \in DOMAIN old => new[p] = old[p]

LEMMA PrunedChanges ==
  ASSUME NEW tree, Decoded(tree), NEW l, Settable(tree, l), tree[Front(l)] = "object"
  PROVE  ChangedAt(l, tree, Pruned(tree, l))
<1>1. Decoded(Pruned(tree, l))
  BY PrunedDecoded DEF Settable
<1>2. DOMAIN tree \subseteq Location
  BY DecodedSpec
<1>3. /\ DOMAIN Pruned(tree, l) = {p \in DOMAIN tree : ~IsPrefix(l, p)}
      /\ \A p \in DOMAIN Pruned(tree, l) : Pruned(tree, l)[p] = tree[p]
      /\ Pruned(tree, l) = [p \in DOMAIN Pruned(tree, l) |-> Pruned(tree, l)[p]]
  BY <1>2, PrunedSpec
<1>4. \A p \in Location : ~IsPrefix(l, p) =>
        /\ p \in DOMAIN Pruned(tree, l) <=> p \in DOMAIN tree
        /\ p \in DOMAIN tree => Pruned(tree, l)[p] = tree[p]
  BY <1>3
<1>5. QED
  BY <1>1, <1>4 DEF ChangedAt

LEMMA GraftedChanges ==
  ASSUME NEW tree, Decoded(tree), NEW l, Settable(tree, l), NEW value, Decoded(value)
  PROVE  ChangedAt(l, tree, Grafted(tree, l, value))
<1> DEFINE new == Grafted(tree, l, value)
<1>1. Decoded(new) /\ l \in Location
  BY GraftedDecoded DEF Settable
<1>2. /\ DOMAIN new = {p \in DOMAIN tree : ~IsPrefix(l, p)} \cup {l \o r : r \in DOMAIN value}
      /\ \A p \in DOMAIN tree : ~IsPrefix(l, p) => new[p] = tree[p]
      /\ \A r \in DOMAIN value : new[l \o r] = value[r]
      /\ new = [p \in DOMAIN new |-> new[p]]
      /\ DOMAIN new \subseteq Location
  BY <1>1, GraftedSpec
<1> HIDE DEF new
<1>3. \A r \in DOMAIN value : IsPrefix(l, l \o r)
  <2>1. DOMAIN value \subseteq Location
    BY DecodedSpec
  <2>2. QED
    BY <1>1, <2>1, ConcatSpec
<1>4. \A p \in Location : ~IsPrefix(l, p) =>
        /\ p \in DOMAIN new <=> p \in DOMAIN tree
        /\ p \in DOMAIN tree => new[p] = tree[p]
  BY <1>2, <1>3
<1>5. QED
  BY <1>1, <1>4 DEF ChangedAt, new

-----------------------------------------------------------------------------
(***************************************************************************)
(* The invariant.  The keys still to apply are in strict order, so none of *)
(* them has been applied; the root of the copy stays an object, so the     *)
(* first token of a key is always a name.                                  *)
(***************************************************************************)
TypeKept ==
  (\A k \in DOMAIN patch : ValidKey(k)) =>
    /\ <<AtType>> \in DOMAIN root <=> <<AtType>> \in DOMAIN document
    /\ <<AtType>> \in DOMAIN root => root[<<AtType>>] = document[<<AtType>>]

IInv ==
  /\ document \in Documents
  /\ patch \in Patches
  /\ status \in {"pending", "applying", "ok", "error"}
  /\ todo \in Seq(DOMAIN patch)
  /\ \A i, j \in 1 .. Len(todo) : i < j => Before(todo[i], todo[j])
  /\ status = "pending" => root = Null
  /\ status \in {"applying", "ok"} =>
       Decoded(root) /\ Decoded(document) /\ root[<<>>] = "object" /\ TypeKept
  /\ Framed

LEMMA InitialInv == Init => IInv
<1> SUFFICES ASSUME Init PROVE IInv
  OBVIOUS
<1>1. IsFiniteSet(DOMAIN patch) /\ DOMAIN patch \subseteq Seq(Nat)
  BY PatchesAssumption DEF Init
<1>2. todo \in Seq(DOMAIN patch) /\ \A i, j \in 1 .. Len(todo) : i < j => Before(todo[i], todo[j])
  BY <1>1, SortingsCover DEF Init
<1>3. QED
  BY <1>2 DEF Init, IInv, Framed

LEMMA DecodeKeeps == IInv /\ DecodeDocument => IInv'
<1> SUFFICES ASSUME IInv, DecodeDocument PROVE IInv'
  OBVIOUS
<1>1. CASE document # Malformed /\ document[<<>>] = "object"
  <2>1. root' = document /\ status' = "applying" /\ UNCHANGED <<document, patch, todo>>
    BY <1>1 DEF DecodeDocument
  <2>2. Decoded(document)
    BY <1>1, DocumentsAssumption DEF IInv
  <2>3. TypeKept'
    BY <2>1 DEF TypeKept
  <2>4. Framed'
    BY <2>1 DEF Framed
  <2>5. QED
    BY <1>1, <2>1, <2>2, <2>3, <2>4 DEF IInv
<1>2. CASE ~(document # Malformed /\ document[<<>>] = "object")
  <2>1. status' = "error" /\ UNCHANGED <<document, patch, todo, root>>
    BY <1>2 DEF DecodeDocument, Fail
  <2>2. Framed'
    BY <2>1 DEF Framed
  <2>3. QED
    BY <2>1, <2>2 DEF IInv
<1>3. QED
  BY <1>1, <1>2

(***************************************************************************)
(* Applying a key that can be applied.                                     *)
(***************************************************************************)
LEMMA ApplyEffect ==
  ASSUME IInv, ApplyKey, CanApply(Head(todo))
  PROVE  \E l : Leads(root, Tokens(Head(todo)), l) /\ ChangedAt(l, root, root')
<1> DEFINE key == Head(todo)
           tokens == Tokens(key)
<1>1. /\ status = "applying" /\ todo # <<>> /\ Decoded(root)
      /\ IF patch[key] = Null THEN RemovePointer(key) ELSE SetPointer(key, patch[key])
  BY DEF ApplyKey, IInv
<1>2. key \in DOMAIN patch /\ key \in Token /\ (patch[key] \in {Null, Malformed} \/ Decoded(patch[key]))
  <2>1. key \in DOMAIN patch
    BY <1>1 DEF IInv
  <2>2. QED
    BY <2>1, PatchesAssumption DEF IInv, Token
<1>3. tokens \in Location /\ tokens # <<>>
  <2>1. key \in Seq(Nat)
    BY <1>1, PatchesAssumption DEF IInv
  <2>2. Tokens(key) \in Seq(Seq(Nat)) /\ Len(Tokens(key)) # 0
    BY <2>1, TokensSequence
  <2>3. QED
    BY <2>2 DEF Location, Token
<1> HIDE DEF tokens
<1>4. CASE patch[key] = Null
  <2>1. PICK m \in Members(root, tokens) : root' = Pruned(root, m)
    BY <1>1, <1>4 DEF RemovePointer, tokens
  <2>2. Leads(root, tokens, m) /\ root[Front(m)] = "object"
    BY <1>1, <1>3, Targets
  <2>3. ChangedAt(m, root, root')
    BY <1>1, <2>1, <2>2, PrunedChanges DEF Leads
  <2>4. QED
    BY <2>2, <2>3 DEF tokens
<1>5. CASE patch[key] # Null
  <2>1. PICK l \in Members(root, tokens) \cup Elements(root, tokens) :
          root' = Grafted(root, l, patch[key])
    BY <1>1, <1>5 DEF SetPointer, tokens
  <2>2. Leads(root, tokens, l)
    BY <1>1, <1>3, Targets
  <2>3. Decoded(patch[key])
    <3>1. patch[key] # Malformed
      BY DEF CanApply
    <3>2. QED
      BY <1>1, <1>5, <3>1, PatchesAssumption DEF IInv
  <2>4. ChangedAt(l, root, root')
    BY <1>1, <2>1, <2>2, <2>3, GraftedChanges DEF Leads
  <2>5. QED
    BY <2>2, <2>4 DEF tokens
<1>6. QED
  BY <1>4, <1>5

LEMMA AppliedNext ==
  ASSUME IInv, todo # <<>>, todo' = Tail(todo), patch' = patch
  PROVE  /\ Head(todo) \in DOMAIN patch /\ Head(todo) \in Seq(Nat)
         /\ todo' \in Seq(DOMAIN patch)
         /\ \A i, j \in 1 .. Len(todo') : i < j => Before(todo'[i], todo'[j])
         /\ Applied' = Applied \cup {Head(todo)} /\ Head(todo) \notin Applied
<1>1. /\ todo \in Seq(DOMAIN patch) /\ Len(todo) \in Nat /\ Len(todo) > 0
      /\ DOMAIN patch \subseteq Seq(Nat)
      /\ \A i, j \in 1 .. Len(todo) : i < j => Before(todo[i], todo[j])
  BY PatchesAssumption DEF IInv
<1>2. /\ Head(todo) = todo[1] /\ todo' \in Seq(DOMAIN patch) /\ Len(todo') = Len(todo) - 1
      /\ \A i \in 1 .. Len(todo) - 1 : todo'[i] = todo[i + 1]
      /\ DOMAIN todo = 1 .. Len(todo) /\ DOMAIN todo' = 1 .. Len(todo) - 1
  BY <1>1
<1>3. Head(todo) \in DOMAIN patch /\ Head(todo) \in Seq(Nat) /\ 1 \in 1 .. Len(todo)
  BY <1>1, <1>2
<1>4. \A i, j \in 1 .. Len(todo') : i < j => Before(todo'[i], todo'[j])
  BY <1>1, <1>2
<1>5. ASSUME NEW i \in 1 .. Len(todo) - 1 PROVE todo'[i] # Head(todo)
  <2>1. i + 1 \in 1 .. Len(todo) /\ 1 < i + 1
    BY <1>1
  <2>2. Before(todo[1], todo[i + 1])
    BY <1>1, <1>3, <2>1
  <2>3. QED
    BY <1>2, <1>3, <2>2, BeforeIrreflexive
<1>6. ASSUME NEW k \in DOMAIN patch
      PROVE  (\A i \in DOMAIN todo' : todo'[i] # k)
               <=> (k = Head(todo) \/ \A i \in DOMAIN todo : todo[i] # k)
  <2>1. ASSUME NEW i \in DOMAIN todo, todo[i] = k, k # Head(todo)
        PROVE  \E j \in DOMAIN todo' : todo'[j] = k
    <3>1. i # 1 /\ i \in 1 .. Len(todo)
      BY <1>2, <2>1
    <3>2. i - 1 \in 1 .. Len(todo) - 1 /\ (i - 1) + 1 = i
      BY <1>1, <3>1
    <3>3. todo'[i - 1] = k
      BY <1>2, <2>1, <3>2
    <3>4. QED
      BY <1>2, <3>2, <3>3
  <2>2. ASSUME NEW j \in DOMAIN todo', todo'[j] = k
        PROVE  k # Head(todo) /\ \E i \in DOMAIN todo : todo[i] = k
    <3>1. j \in 1 .. Len(todo) - 1 /\ j + 1 \in DOMAIN todo
      BY <1>1, <1>2
    <3>2. QED
      BY <1>2, <1>5, <2>2, <3>1
  <2>3. QED
    BY <2>1, <2>2
<1>7. Applied' = Applied \cup {Head(todo)}
  BY <1>3, <1>6 DEF Applied
<1>8. Head(todo) \notin Applied
  BY <1>2, <1>3 DEF Applied
<1>9. QED
  BY <1>2, <1>3, <1>4, <1>7, <1>8

(***************************************************************************)
(* "@type" is a key of one token, and no other well-escaped key has it.    *)
(***************************************************************************)
LEMMA AtTypeKey ==
  /\ AtType \in Seq(Nat) /\ WellEscaped(AtType)
  /\ Tokens(AtType) = <<AtType>>
<1>1. /\ AtType \in Seq(Nat)
      /\ \A i \in 1 .. Len(AtType) : AtType[i] # Tilde /\ AtType[i] # Slash
  <2>1. AtType \in Seq(Nat \ {47, 126})
    BY PointerAssumption
  <2>2. \A i \in 1 .. Len(AtType) : AtType[i] \in Nat \ {47, 126}
    BY <2>1
  <2>3. AtType \in Seq(Nat)
    BY <2>1
  <2>4. QED
    BY <2>2, <2>3 DEF Tilde, Slash
<1>2. WellEscaped(AtType)
  BY <1>1 DEF WellEscaped
<1>3. QED
  BY <1>1, <1>2, PlainKeyTokens

LEMMA TypeUntouched ==
  ASSUME IInv, status = "applying", NEW key \in DOMAIN patch, ValidKey(key),
         NEW l, Leads(root, Tokens(key), l)
  PROVE  <<AtType>> \in Location /\ ~IsPrefix(l, <<AtType>>)
<1>1. <<AtType>> \in Location /\ Len(<<AtType>>) = 1 /\ <<AtType>>[1] = AtType
  BY AtTypeKey DEF Location, Token
<1>2. SUFFICES ASSUME IsPrefix(l, <<AtType>>) PROVE FALSE
  BY <1>1
<1>3. /\ l \in Location /\ l # <<>> /\ Len(l) = Len(Tokens(key)) /\ l[1] = Tokens(key)[1]
  BY DEF Leads, Settable, IInv
<1>4. Len(l) <= 1 /\ \A i \in 1 .. Len(l) : l[i] = <<AtType>>[i]
  BY <1>1, <1>2, <1>3, PrefixSpec
<1>5. Len(l) = 1 /\ l[1] = AtType
  <2>1. Len(l) \in Nat /\ Len(l) # 0
    BY <1>3 DEF Location
  <2>2. Len(l) = 1 /\ 1 \in 1 .. Len(l)
    BY <1>4, <2>1
  <2>3. l[1] = <<AtType>>[1]
    BY <1>4, <2>2
  <2>4. QED
    BY <1>1, <2>2, <2>3
<1>6. key \in Seq(Nat) /\ WellEscaped(key) /\ key # AtType
  BY PatchesAssumption DEF IInv, ValidKey
<1>7. Tokens(key) = <<AtType>>
  <2> DEFINE t == Tokens(key)
  <2>1. t \in Seq(Seq(Nat)) /\ Len(t) = 1 /\ t[1] = AtType
    BY <1>3, <1>5, <1>6, TokensSequence
  <2> HIDE DEF t
  <2>2. t = <<AtType>>
    BY <2>1
  <2>3. QED
    BY <2>2 DEF t
<1>8. QED
  BY <1>6, <1>7, AtTypeKey, TokensInjective

LEMMA AddressesBelow ==
  ASSUME NEW tokens \in Location, NEW l \in Location, Len(l) = Len(tokens), Addresses(tokens, l),
         NEW p \in Location, IsPrefix(l, p)
  PROVE  Addresses(tokens, p)
<1>1. Len(l) <= Len(p) /\ \A i \in 1 .. Len(l) : l[i] = p[i]
  BY PrefixSpec
<1>2. QED
  BY <1>1 DEF Addresses

LEMMA ApplyKeeps == IInv /\ ApplyKey => IInv'
<1> SUFFICES ASSUME IInv, ApplyKey PROVE IInv'
  OBVIOUS
<1> DEFINE key == Head(todo)
<1>1. status = "applying" /\ todo # <<>>
  BY DEF ApplyKey
<1>2. CASE CanApply(key)
  <2>1. todo' = Tail(todo) /\ UNCHANGED <<document, patch, status>>
    BY <1>2 DEF ApplyKey
  <2>2. PICK l : Leads(root, Tokens(key), l) /\ ChangedAt(l, root, root')
    BY <1>2, ApplyEffect
  <2>3. /\ key \in DOMAIN patch /\ key \in Seq(Nat)
        /\ todo' \in Seq(DOMAIN patch)
        /\ \A i, j \in 1 .. Len(todo') : i < j => Before(todo'[i], todo'[j])
        /\ Applied' = Applied \cup {key}
    BY <1>1, <2>1, AppliedNext
  <2> HIDE DEF key
  <2>4. /\ Decoded(root) /\ Decoded(document) /\ root[<<>>] = "object" /\ TypeKept
        /\ Decoded(root') /\ l \in Location /\ l # <<>>
    BY <1>1, <2>2 DEF IInv, Leads, Settable, ChangedAt
  <2>5. root'[<<>>] = "object"
    <3>1. ~IsPrefix(l, <<>>) /\ <<>> \in Location
      <4>1. <<>> \in Location
        BY DEF Location
      <4>2. QED
        BY <2>4, <4>1, PrefixFront
    <3>2. <<>> \in DOMAIN root
      BY <2>4, DecodedSpec
    <3>3. QED
      BY <2>2, <2>4, <3>1, <3>2 DEF ChangedAt
  <2>6. TypeKept'
    <3> SUFFICES ASSUME \A k \in DOMAIN patch : ValidKey(k)
                 PROVE  /\ <<AtType>> \in DOMAIN root' <=> <<AtType>> \in DOMAIN document
                        /\ <<AtType>> \in DOMAIN root' => root'[<<AtType>>] = document[<<AtType>>]
      BY <2>1 DEF TypeKept
    <3>1. <<AtType>> \in Location /\ ~IsPrefix(l, <<AtType>>)
      BY <1>1, <2>2, <2>3, TypeUntouched
    <3>2. /\ <<AtType>> \in DOMAIN root' <=> <<AtType>> \in DOMAIN root
          /\ <<AtType>> \in DOMAIN root => root'[<<AtType>>] = root[<<AtType>>]
      BY <2>2, <3>1 DEF ChangedAt
    <3>3. QED
      BY <2>4, <3>2 DEF TypeKept
  <2>7. Framed'
    <3> SUFFICES ASSUME NEW p \in DOMAIN root' \cup DOMAIN document
                 PROVE  \/ \E k \in Applied' : Addresses(Tokens(k), p)
                        \/ p \in DOMAIN root' /\ p \in DOMAIN document /\ root'[p] = document[p]
      BY <2>1 DEF Framed
    <3>1. p \in Location
      BY <2>4, DecodedSpec
    <3>2. CASE IsPrefix(l, p)
      <4>1. Tokens(key) \in Location
        BY <2>3, TokensSequence DEF Location, Token
      <4>2. Addresses(Tokens(key), p)
        BY <2>2, <2>4, <3>1, <3>2, <4>1, AddressesBelow DEF Leads
      <4>3. QED
        BY <2>3, <4>2
    <3>3. CASE ~IsPrefix(l, p)
      <4>1. /\ p \in DOMAIN root' <=> p \in DOMAIN root
            /\ p \in DOMAIN root => root'[p] = root[p]
        BY <2>2, <3>1, <3>3 DEF ChangedAt
      <4>2. \/ \E k \in Applied : Addresses(Tokens(k), p)
            \/ p \in DOMAIN root /\ p \in DOMAIN document /\ root[p] = document[p]
        BY <1>1, <4>1 DEF IInv, Framed
      <4>3. QED
        BY <2>3, <4>1, <4>2
    <3>4. QED
      BY <3>2, <3>3
  <2>8. QED
    BY <1>1, <2>1, <2>3, <2>4, <2>5, <2>6, <2>7 DEF IInv
<1>3. CASE ~CanApply(key)
  <2>1. status' = "error" /\ UNCHANGED <<document, patch, todo, root>>
    BY <1>3 DEF ApplyKey, Fail
  <2>2. Framed'
    BY <2>1 DEF Framed
  <2>3. QED
    BY <1>1, <2>1, <2>2 DEF IInv
<1>4. QED
  BY <1>2, <1>3

(***************************************************************************)
(* The invariant holds, whatever the documents and the patches.            *)
(***************************************************************************)
THEOREM Inductive == Spec => []IInv
<1>1. IInv /\ [Next]_vars => IInv'
  <2> SUFFICES ASSUME IInv, [Next]_vars PROVE IInv'
    OBVIOUS
  <2>1. CASE DecodeDocument
    BY <2>1, DecodeKeeps
  <2>2. CASE ApplyKey
    BY <2>2, ApplyKeeps
  <2>3. CASE EncodeDocument
    <3>1. status = "applying" /\ status' = "ok" /\ UNCHANGED <<document, patch, todo, root>>
      BY <2>3 DEF EncodeDocument
    <3>2. Framed' /\ (TypeKept => TypeKept')
      BY <3>1 DEF IInv, Framed, TypeKept, Applied
    <3>3. QED
      BY <3>1, <3>2 DEF IInv
  <2>4. CASE UNCHANGED vars
    <3>1. UNCHANGED <<document, patch, todo, root, status>>
      BY <2>4 DEF vars
    <3>2. Framed' /\ (TypeKept => TypeKept')
      BY <3>1 DEF IInv, Framed, TypeKept, Applied
    <3>3. QED
      BY <3>1, <3>2 DEF IInv
  <2>5. QED
    BY <2>1, <2>2, <2>3, <2>4 DEF Next
<1>2. QED
  BY InitialInv, <1>1, PTL DEF Spec

(***************************************************************************)
(* The copy is a tree at every step, whatever has been set or removed.     *)
(***************************************************************************)
THEOREM TypeCorrect == Spec => []TypeOK
<1>1. IInv => TypeOK
  <2> SUFFICES ASSUME IInv PROVE TypeOK
    OBVIOUS
  <2>1. \A i \in DOMAIN todo : todo[i] \in DOMAIN patch
    BY DEF IInv
  <2>2. status \in {"applying", "ok"} => IsTree(root)
    BY DEF IInv, Decoded
  <2>3. QED
    BY <2>1, <2>2 DEF IInv, TypeOK
<1>2. QED
  BY Inductive, <1>1, PTL

(***************************************************************************)
(* What no applied key addresses is as it was in the document.             *)
(***************************************************************************)
THEOREM FrameHolds == Spec => []Framed
<1>1. IInv => Framed
  BY DEF IInv
<1>2. QED
  BY Inductive, <1>1, PTL

(***************************************************************************)
(* Keys that ValidatePatchKey accepts cannot change or remove "@type", by  *)
(* an escape of it, through an index or together with other keys.          *)
(***************************************************************************)
THEOREM TypePreserved == Spec => []KeepsType
<1>1. IInv => KeepsType
  BY DEF IInv, TypeKept, KeepsType
<1>2. QED
  BY Inductive, <1>1, PTL

-----------------------------------------------------------------------------
(***************************************************************************)
(* PatchOverlay reads keys as this module does.                            *)
(***************************************************************************)
LEMMA SameText ==
  /\ \A set : Contract!Ascending(set) = Ascending(set)
  /\ \A key : Contract!Cuts(key) = Cuts(key)
  /\ \A t, d : Contract!Hits(t, d) = Hits(t, d)
  /\ Contract!Slash = Slash /\ Contract!Zero = Zero /\ Contract!One = One /\ Contract!Tilde = Tilde
<1>1. \A set : Contract!Ascending(set) = Ascending(set)
  BY DEF Contract!Rank, Rank, Contract!Ascending, Ascending, Contract!Cardinality, Cardinality
<1>2. \A key : Contract!Cuts(key) = Cuts(key)
  BY DEF Contract!Cuts, Cuts, Contract!Slash, Slash
<1>3. \A t, d : Contract!Hits(t, d) = Hits(t, d)
  BY DEF Contract!Hits, Hits, Contract!Tilde, Tilde
<1>4. Contract!Slash = Slash /\ Contract!Zero = Zero /\ Contract!One = One /\ Contract!Tilde = Tilde
  BY DEF Contract!Slash, Slash, Contract!Zero, Zero, Contract!One, One, Contract!Tilde, Tilde
<1>5. QED
  BY <1>1, <1>2, <1>3, <1>4

LEMMA SameTokens == \A key : Contract!Tokens(key) = Tokens(key)
<1>1. \A t, d : Contract!Kept(t, d) = Kept(t, d)
  BY SameText DEF Contract!Kept, Kept
<1>2. \A t, d, c : Contract!ReplaceEscape(t, d, c) = ReplaceEscape(t, d, c)
  BY SameText, <1>1 DEF Contract!ReplaceEscape, ReplaceEscape
<1>3. \A piece : Contract!Unescape(piece) = Unescape(piece)
  BY SameText, <1>2 DEF Contract!Unescape, Unescape
<1>4. \A key : Contract!Split(key) = Split(key)
  BY SameText DEF Contract!Split, Split
<1>5. QED
  BY <1>3, <1>4 DEF Contract!Tokens, Tokens

LEMMA SamePaths ==
  /\ \A a, p : Contract!IsPrefix(a, p) = IsPrefix(a, p)
  /\ \A a, p : Contract!IsStrictPrefix(a, p) = IsStrictPrefix(a, p)
  /\ \A a, p : Contract!Below(a, p) = Below(a, p)
  /\ \A p : Contract!Front(p) = Front(p)
  /\ \A f, S : Contract!Restrict(f, S) = Restrict(f, S)
BY DEF Contract!IsPrefix, IsPrefix, Contract!IsStrictPrefix, IsStrictPrefix, Contract!Below, Below,
       Contract!Front, Front, Contract!Restrict, Restrict

-----------------------------------------------------------------------------
(***************************************************************************)
(* Orders and prefixes: a key comes before another or after it, not both;  *)
(* two prefixes of one location with the same length are one.              *)
(***************************************************************************)
LEMMA BeforeAsymmetric ==
  ASSUME NEW k \in Seq(Nat), NEW l \in Seq(Nat), Before(k, l)
  PROVE  ~Before(l, k)
<1> SUFFICES ASSUME Before(l, k) PROVE FALSE
  OBVIOUS
<1> DEFINE Less(a, b) == \E i \in 1 .. Len(a) \cap 1 .. Len(b) :
                           a[i] < b[i] /\ \A j \in 1 .. i - 1 : a[j] = b[j]
           Starts(a, b) == Len(a) < Len(b) /\ \A i \in 1 .. Len(a) : a[i] = b[i]
<1>1. ASSUME NEW a \in Seq(Nat), NEW b \in Seq(Nat), Before(a, b)
      PROVE  Less(a, b) \/ Starts(a, b)
  <2>1. CASE IsStrictPrefix(a, b)
    <3>1. IsPrefix(a, b) /\ a # b
      BY <2>1 DEF IsStrictPrefix
    <3>2. a \in Seq(Int) /\ b \in Seq(Int)
      OBVIOUS
    <3>3. Len(a) <= Len(b) /\ \A i \in 1 .. Len(a) : a[i] = b[i]
      BY <3>1 DEF IsPrefix
    <3>4. Len(a) # Len(b)
      BY <3>1, <3>3, SeqEqual
    <3>5. QED
      BY <3>3, <3>4
  <2>2. CASE ~IsStrictPrefix(a, b)
    <3>1. DOMAIN a = 1 .. Len(a) /\ DOMAIN b = 1 .. Len(b)
      OBVIOUS
    <3>2. \E i \in DOMAIN a \cap DOMAIN b : a[i] < b[i] /\ \A j \in 1 .. i - 1 : a[j] = b[j]
      BY <1>1, <2>2 DEF Before
    <3>3. Less(a, b)
      BY <3>1, <3>2
    <3>4. QED
      BY <3>3
  <2>3. QED
    BY <2>1, <2>2
<1>2. (Less(k, l) \/ Starts(k, l)) /\ (Less(l, k) \/ Starts(l, k))
  BY <1>1
<1>3. Len(k) \in Nat /\ Len(l) \in Nat /\ \A i \in 1 .. Len(k) : k[i] \in Nat
  OBVIOUS
<1>4. \A i \in 1 .. Len(l) : l[i] \in Nat
  OBVIOUS
<1>5. ~(Less(k, l) /\ Less(l, k))
  BY <1>3, <1>4
<1>6. ~(Starts(k, l) /\ Starts(l, k))
  BY <1>3
<1>7. ~(Starts(k, l) /\ Less(l, k)) /\ ~(Less(k, l) /\ Starts(l, k))
  BY <1>3, <1>4
<1>8. QED
  BY <1>2, <1>5, <1>6, <1>7

LEMMA OnePrefix ==
  ASSUME NEW a \in Location, NEW b \in Location, NEW p \in Location,
         IsPrefix(a, p), IsPrefix(b, p), Len(a) = Len(b)
  PROVE  a = b
<1>1. /\ \A i \in 1 .. Len(a) : a[i] = p[i]
      /\ \A i \in 1 .. Len(b) : b[i] = p[i]
  BY PrefixSpec
<1>2. QED
  BY <1>1 DEF Location

(***************************************************************************)
(* The keys above a location, the lowest of them, and what a document is   *)
(* once a set of keys has been laid over it.                               *)
(***************************************************************************)
KeysOver(ptrs, p) == {k \in ptrs : IsPrefix(Tokens(k), p)}

Governs(ptrs, k, p) ==
  /\ k \in KeysOver(ptrs, p)
  /\ \A l \in KeysOver(ptrs, p) : Len(Tokens(l)) <= Len(Tokens(k))

SameAt(new, old, p) ==
  /\ p \in DOMAIN new <=> p \in DOMAIN old
  /\ p \in DOMAIN old => new[p] = old[p]

GivenAt(new, value, at, p) ==
  /\ p \in DOMAIN new <=> value # Null /\ Below(at, p) \in DOMAIN value
  /\ p \in DOMAIN new => new[p] = value[Below(at, p)]

Overlaid(new, tree, values, ptrs) ==
  /\ DOMAIN new \subseteq Location
  /\ new = [p \in DOMAIN new |-> new[p]]
  /\ \A p \in Location : KeysOver(ptrs, p) = {} => SameAt(new, tree, p)
  /\ \A p \in Location, k \in ptrs :
       Governs(ptrs, k, p) => GivenAt(new, values[k], Tokens(k), p)

Pointers(ptrs) == ptrs \subseteq Seq(Nat) /\ \A k \in ptrs : WellEscaped(k)

LEMMA KeyLocation ==
  ASSUME NEW k \in Seq(Nat)
  PROVE  /\ Tokens(k) \in Location /\ Tokens(k) # <<>> /\ Len(Tokens(k)) \in Nat \ {0}
<1>1. Tokens(k) \in Seq(Seq(Nat)) /\ Len(Tokens(k)) \in Nat \ {0}
  BY TokensSequence
<1>2. QED
  BY <1>1 DEF Location, Token

LEMMA GovernorUnique ==
  ASSUME NEW ptrs, Pointers(ptrs), NEW p \in Location,
         NEW k, Governs(ptrs, k, p), NEW l, Governs(ptrs, l, p)
  PROVE  k = l
<1>1. /\ k \in ptrs /\ l \in ptrs /\ IsPrefix(Tokens(k), p) /\ IsPrefix(Tokens(l), p)
      /\ Len(Tokens(l)) <= Len(Tokens(k)) /\ Len(Tokens(k)) <= Len(Tokens(l))
  BY DEF Governs, KeysOver
<1>2. k \in Seq(Nat) /\ l \in Seq(Nat) /\ WellEscaped(k) /\ WellEscaped(l)
  BY <1>1 DEF Pointers
<1>3. Tokens(k) \in Location /\ Tokens(l) \in Location
  BY <1>2, KeyLocation
<1>4. Len(Tokens(k)) = Len(Tokens(l))
  BY <1>1, <1>2, KeyLocation
<1>5. Tokens(k) = Tokens(l)
  BY <1>1, <1>3, <1>4, OnePrefix
<1>6. QED
  BY <1>2, <1>5, TokensInjective

LEMMA GovernorExists ==
  ASSUME NEW ptrs, Pointers(ptrs), NEW p \in Location, KeysOver(ptrs, p) # {}
  PROVE  \E k \in ptrs : Governs(ptrs, k, p)
<1> DEFINE over == KeysOver(ptrs, p)
           gaps == {Len(p) - Len(Tokens(k)) : k \in over}
<1>1. Len(p) \in Nat
  BY DEF Location
<1>2. \A k \in over : k \in ptrs /\ Len(Tokens(k)) \in Nat /\ Len(Tokens(k)) <= Len(p)
  <2> SUFFICES ASSUME NEW k \in over
               PROVE  k \in ptrs /\ Len(Tokens(k)) \in Nat /\ Len(Tokens(k)) <= Len(p)
    OBVIOUS
  <2>1. k \in ptrs /\ k \in Seq(Nat) /\ IsPrefix(Tokens(k), p)
    BY DEF KeysOver, Pointers
  <2>2. Tokens(k) \in Location /\ Len(Tokens(k)) \in Nat
    BY <2>1, KeyLocation
  <2>3. QED
    BY <2>1, <2>2, PrefixSpec
<1> HIDE DEF over
<1>3. gaps \subseteq Nat /\ gaps # {}
  <2>1. over # {}
    BY DEF over
  <2>2. QED
    BY <1>1, <1>2, <2>1
<1>4. PICK n \in gaps : \A m \in gaps : n <= m
  <2> HIDE DEF gaps
  <2>1. QED
    BY <1>3, LeastNat
<1>5. PICK k \in over : n = Len(p) - Len(Tokens(k))
  BY <1>4
<1>6. \A l \in over : Len(Tokens(l)) <= Len(Tokens(k))
  <2> SUFFICES ASSUME NEW l \in over PROVE Len(Tokens(l)) <= Len(Tokens(k))
    OBVIOUS
  <2>1. n <= Len(p) - Len(Tokens(l))
    BY <1>4
  <2>2. QED
    BY <1>1, <1>2, <1>5, <2>1
<1>7. QED
  BY <1>2, <1>5, <1>6 DEF over, Governs

LEMMA OverlaidUnique ==
  ASSUME NEW ptrs, Pointers(ptrs), NEW tree, NEW values,
         NEW a, Overlaid(a, tree, values, ptrs), NEW b, Overlaid(b, tree, values, ptrs)
  PROVE  a = b
<1>1. ASSUME NEW p \in Location PROVE SameAt(a, b, p)
  <2>1. CASE KeysOver(ptrs, p) = {}
    <3>1. SameAt(a, tree, p) /\ SameAt(b, tree, p)
      BY <2>1 DEF Overlaid
    <3>2. QED
      BY <3>1 DEF SameAt
  <2>2. CASE KeysOver(ptrs, p) # {}
    <3>1. PICK k \in ptrs : Governs(ptrs, k, p)
      BY <2>2, GovernorExists
    <3>2. GivenAt(a, values[k], Tokens(k), p) /\ GivenAt(b, values[k], Tokens(k), p)
      BY <3>1 DEF Overlaid
    <3>3. QED
      BY <3>2 DEF GivenAt, SameAt
  <2>3. QED
    BY <2>1, <2>2
<1>2. /\ DOMAIN a \subseteq Location /\ a = [p \in DOMAIN a |-> a[p]]
      /\ DOMAIN b \subseteq Location /\ b = [p \in DOMAIN b |-> b[p]]
  BY DEF Overlaid
<1>3. DOMAIN a = DOMAIN b
  BY <1>1, <1>2 DEF SameAt
<1>4. \A p \in DOMAIN a : a[p] = b[p]
  BY <1>1, <1>2, <1>3 DEF SameAt
<1>5. QED
  BY <1>2, <1>3, <1>4

(***************************************************************************)
(* PatchOverlay!Overlay is the document with the keys laid over it.        *)
(***************************************************************************)
LEMMA SameGovernor ==
  ASSUME NEW pt, Pointers(DOMAIN pt), NEW p \in Location
  PROVE  /\ Contract!Governors(pt, p) = KeysOver(DOMAIN pt, p)
         /\ \A k : Governs(DOMAIN pt, k, p) => Contract!Governor(pt, p) = k
<1>1. Contract!Governors(pt, p) = KeysOver(DOMAIN pt, p)
  BY SameTokens, SamePaths DEF Contract!Governors, KeysOver
<1>2. \A k : Governs(DOMAIN pt, k, p) <=>
               /\ k \in Contract!Governors(pt, p)
               /\ \A l \in Contract!Governors(pt, p) :
                    Len(Contract!Tokens(l)) <= Len(Contract!Tokens(k))
  BY <1>1, SameTokens DEF Governs
<1>3. ASSUME NEW k, Governs(DOMAIN pt, k, p)
      PROVE  Contract!Governor(pt, p) = k
  <2>1. Governs(DOMAIN pt, Contract!Governor(pt, p), p)
    BY <1>2, <1>3 DEF Contract!Governor
  <2>2. QED
    BY <1>3, <2>1, GovernorUnique
<1>4. QED
  BY <1>1, <1>3

LEMMA OverlayIs ==
  ASSUME NEW pt, Pointers(DOMAIN pt), NEW tree, DOMAIN tree \subseteq Location,
         \A k \in DOMAIN pt : pt[k] # Null =>
           DOMAIN pt[k] \subseteq Location /\ \A r \in DOMAIN pt[k] : pt[k][r] # Null
  PROVE  Overlaid(Contract!Overlay(tree, pt), tree, pt, DOMAIN pt)
<1> DEFINE new   == Contract!Overlay(tree, pt)
           ptrs  == DOMAIN pt
           kept  == {p \in DOMAIN tree : Contract!Governors(pt, p) = {}}
           given == UNION {{Contract!Tokens(k) \o r : r \in DOMAIN pt[k]} :
                             k \in {l \in DOMAIN pt : pt[l] # Null}}
           laid  == {q \in given : Contract!Given(pt, q) # Null}
<1>1. /\ DOMAIN new = kept \cup laid
      /\ \A p \in kept \cup laid : new[p] = IF p \in kept THEN tree[p] ELSE Contract!Given(pt, p)
      /\ new = [p \in DOMAIN new |-> new[p]]
  BY DEF Contract!Overlay
<1> HIDE DEF new
<1>2. ASSUME NEW q
      PROVE  q \in given <=> \E k \in ptrs : pt[k] # Null /\ \E r \in DOMAIN pt[k] : q = Tokens(k) \o r
  <2> DEFINE laidBy(k) == {Contract!Tokens(k) \o r : r \in DOMAIN pt[k]}
  <2>1. q \in given <=> \E k \in {l \in ptrs : pt[l] # Null} : q \in laidBy(k)
    OBVIOUS
  <2>2. \A k : q \in laidBy(k) <=> \E r \in DOMAIN pt[k] : q = Tokens(k) \o r
    BY SameTokens
  <2> HIDE DEF laidBy, given
  <2>3. QED
    BY <2>1, <2>2
<1>3. \A q : q \in given <=> \E k \in ptrs : pt[k] # Null /\ \E r \in DOMAIN pt[k] : q = Tokens(k) \o r
  <2> HIDE DEF given
  <2>1. QED
    BY <1>2
<1> HIDE DEF given
<1>4. ASSUME NEW k \in ptrs, pt[k] # Null, NEW r \in DOMAIN pt[k]
      PROVE  /\ Tokens(k) \o r \in Location /\ IsPrefix(Tokens(k), Tokens(k) \o r)
             /\ Below(Tokens(k), Tokens(k) \o r) = r
  <2>1. Tokens(k) \in Location /\ r \in Location
    BY <1>4, KeyLocation DEF Pointers
  <2>2. QED
    BY <2>1, ConcatSpec
<1>5. given \subseteq Location
  <2> SUFFICES ASSUME NEW q \in given PROVE q \in Location
    OBVIOUS
  <2>1. PICK k \in ptrs : pt[k] # Null /\ \E r \in DOMAIN pt[k] : q = Tokens(k) \o r
    BY <1>3
  <2>2. QED
    BY <1>4, <2>1
<1>6. DOMAIN new \subseteq Location
  BY <1>1, <1>5
<1>7. ASSUME NEW p \in Location, KeysOver(ptrs, p) = {}
      PROVE  SameAt(new, tree, p)
  <2>1. Contract!Governors(pt, p) = {}
    BY <1>7, SameGovernor
  <2>2. p \notin given
    <3> SUFFICES ASSUME NEW k \in ptrs, pt[k] # Null, NEW r \in DOMAIN pt[k], p = Tokens(k) \o r
                 PROVE  FALSE
      BY <1>3
    <3>1. IsPrefix(Tokens(k), p)
      BY <1>4
    <3>2. QED
      BY <1>7, <3>1 DEF KeysOver
  <2>3. QED
    BY <1>1, <2>1, <2>2 DEF SameAt
<1>8. ASSUME NEW p \in Location, NEW k \in ptrs, Governs(ptrs, k, p)
      PROVE  GivenAt(new, pt[k], Tokens(k), p)
  <2> DEFINE r == Below(Tokens(k), p)
  <2>1. Contract!Governor(pt, p) = k /\ Contract!Governors(pt, p) # {}
    <3>1. Contract!Governors(pt, p) = KeysOver(DOMAIN pt, p) /\ Contract!Governor(pt, p) = k
      BY <1>8, SameGovernor
    <3>2. QED
      BY <1>8, <3>1 DEF Governs
  <2>2. Contract!Given(pt, p) = IF pt[k] # Null /\ r \in DOMAIN pt[k] THEN pt[k][r] ELSE Null
    <3>1. Contract!Below(Contract!Tokens(k), p) = r
      BY SameTokens, SamePaths
    <3> HIDE DEF r
    <3>2. QED
      BY <2>1, <3>1 DEF Contract!Given
  <2>3. p = Tokens(k) \o r
    <3>1. IsPrefix(Tokens(k), p) /\ Tokens(k) \in Location
      BY <1>8, KeyLocation DEF Governs, KeysOver, Pointers
    <3>2. QED
      BY <3>1, BelowSpec
  <2> HIDE DEF r
  <2>4. p \notin kept
    BY <2>1
  <2>5. p \in laid <=> pt[k] # Null /\ r \in DOMAIN pt[k]
    <3>1. pt[k] # Null /\ r \in DOMAIN pt[k] => p \in given /\ Contract!Given(pt, p) # Null
      BY <1>3, <2>2, <2>3
    <3>2. QED
      BY <2>2, <3>1
  <2>6. p \in DOMAIN new <=> pt[k] # Null /\ r \in DOMAIN pt[k]
    BY <1>1, <2>4, <2>5
  <2>7. p \in DOMAIN new => new[p] = pt[k][r]
    BY <1>1, <2>2, <2>4, <2>6
  <2>8. QED
    BY <2>6, <2>7 DEF GivenAt, r
<1>9. QED
  BY <1>1, <1>6, <1>7, <1>8 DEF Overlaid, new

LEMMA OverlayOfSome ==
  ASSUME NEW pt, Pointers(DOMAIN pt), NEW ptrs, ptrs \subseteq DOMAIN pt,
         NEW tree, DOMAIN tree \subseteq Location,
         \A k \in ptrs : pt[k] # Null =>
           DOMAIN pt[k] \subseteq Location /\ \A r \in DOMAIN pt[k] : pt[k][r] # Null
  PROVE  Overlaid(Contract!Overlay(tree, Contract!Restrict(pt, ptrs)), tree, pt, ptrs)
<1> DEFINE some == Contract!Restrict(pt, ptrs)
<1>1. DOMAIN some = ptrs /\ \A k \in ptrs : some[k] = pt[k]
  BY SamePaths DEF Restrict
<1> HIDE DEF some
<1>2. Pointers(DOMAIN some)
  BY <1>1 DEF Pointers
<1>3. Overlaid(Contract!Overlay(tree, some), tree, some, DOMAIN some)
  BY <1>1, <1>2, OverlayIs
<1>4. QED
  BY <1>1, <1>3 DEF Overlaid, some

-----------------------------------------------------------------------------
(***************************************************************************)
(* What a key reaches when no two indexes are confused: the location of    *)
(* its tokens and no other.                                                *)
(***************************************************************************)
LEMMA PrefixClosed ==
  ASSUME NEW tree, Decoded(tree), NEW p \in DOMAIN tree, NEW q \in Location, IsPrefix(q, p)
  PROVE  q \in DOMAIN tree /\ (q # p => tree[q] \in {"object", "array"})
<1> SUFFICES ASSUME q # p PROVE q \in DOMAIN tree /\ tree[q] \in {"object", "array"}
  OBVIOUS
<1> DEFINE over == {x \in DOMAIN tree : IsPrefix(q, x) /\ x # q}
           lens == {Len(x) : x \in over}
<1>1. DOMAIN tree \subseteq Location
  BY DecodedSpec
<1>2. \A x \in over : x \in DOMAIN tree /\ x \in Location /\ Len(x) \in Nat /\ IsPrefix(q, x) /\ x # q
  BY <1>1 DEF Location
<1>3. lens \subseteq Nat /\ lens # {}
  BY <1>2
<1>4. PICK n \in lens : \A m \in lens : n <= m
  <2> HIDE DEF lens
  <2>1. QED
    BY <1>3, LeastNat
<1>5. PICK x \in over : n = Len(x)
  BY <1>4
<1>6. /\ x # <<>> /\ IsPrefix(q, Front(x)) /\ Front(x) \in DOMAIN tree
      /\ tree[Front(x)] \in {"object", "array"} /\ Len(Front(x)) = Len(x) - 1
  <2>1. x # <<>> /\ IsPrefix(q, Front(x))
    BY <1>2, PrefixFront
  <2>2. QED
    BY <1>2, <2>1, DecodedSpec, FrontSpec
<1>7. Front(x) = q
  <2> SUFFICES ASSUME Front(x) # q PROVE FALSE
    OBVIOUS
  <2>1. Front(x) \in over
    BY <1>6
  <2>2. n <= Len(Front(x))
    BY <1>4, <2>1
  <2>3. QED
    BY <1>2, <1>5, <1>6, <2>2
<1>8. QED
  BY <1>6, <1>7

LEMMA StepsDown ==
  ASSUME NEW h \in Location, NEW i \in 1 .. Len(h)
  PROVE  /\ SubSeq(h, 1, i - 1) \in Location /\ IsPrefix(SubSeq(h, 1, i - 1), h)
         /\ SubSeq(h, 1, i) \in Location /\ IsPrefix(SubSeq(h, 1, i), h)
         /\ SubSeq(h, 1, i) # <<>> /\ Front(SubSeq(h, 1, i)) = SubSeq(h, 1, i - 1)
         /\ Last(SubSeq(h, 1, i)) = h[i]
         /\ SubSeq(h, 1, i - 1) # h
<1> DEFINE q == SubSeq(h, 1, i - 1)
           c == SubSeq(h, 1, i)
<1>1. h \in Seq(Token) /\ Len(h) \in Nat
  BY DEF Location
<1>2. q \in Seq(Token) /\ Len(q) = i - 1 /\ \A j \in 1 .. i - 1 : q[j] = h[j]
  <2>1. 1 \in 1 .. Len(h) + 1 /\ i - 1 \in 1 - 1 .. Len(h) /\ (i - 1) - 1 + 1 = i - 1
        /\ \A j \in Int : 1 + j - 1 = j
    BY <1>1
  <2>2. QED
    BY <1>1, <2>1, SubSeqSpec
<1>3. c \in Seq(Token) /\ Len(c) = i /\ \A j \in 1 .. i : c[j] = h[j]
  <2>1. 1 \in 1 .. Len(h) + 1 /\ i \in 1 - 1 .. Len(h) /\ i - 1 + 1 = i
        /\ \A j \in Int : 1 + j - 1 = j
    BY <1>1
  <2>2. QED
    BY <1>1, <2>1, SubSeqSpec
<1> HIDE DEF q, c
<1>4. q \in Location /\ c \in Location
  BY <1>2, <1>3 DEF Location
<1>5. IsPrefix(q, h) /\ IsPrefix(c, h)
  BY <1>1, <1>2, <1>3, <1>4, PrefixSpec
<1>6. c # <<>> /\ q # h
  BY <1>1, <1>2, <1>3
<1>7. /\ Front(c) \in Location /\ Len(Front(c)) = i - 1
      /\ \A j \in 1 .. i - 1 : Front(c)[j] = h[j]
  BY <1>3, <1>4, <1>6, FrontSpec
<1>8. Front(c) = q
  <2>1. Len(Front(c)) = Len(q) /\ \A j \in 1 .. Len(q) : Front(c)[j] = q[j]
    BY <1>2, <1>7
  <2>2. QED
    BY <1>4, <1>7, <2>1 DEF Location
<1>9. Last(c) = h[i]
  BY <1>3 DEF Last
<1>10. QED
  BY <1>4, <1>5, <1>6, <1>8, <1>9 DEF q, c

LEMMA ArrayChild ==
  ASSUME NEW tree, Decoded(tree), NEW c \in DOMAIN tree, c # <<>>, tree[Front(c)] = "array"
  PROVE  NamesElement(Last(c), Length(tree, Front(c)))
<1>1. DOMAIN tree \subseteq Location /\ Front(c) \in DOMAIN tree
  BY DecodedSpec
<1>2. c \in Children(tree, Front(c))
  BY <1>1, ChildrenSpec
<1>3. QED
  BY <1>1, <1>2, DecodedSpec

Distinct(tree, tokens) ==
  \A p \in DOMAIN tree : \A i \in 1 .. Len(p), j \in 1 .. Len(tokens) :
    IsDecimal(p[i]) /\ IsDecimal(tokens[j]) /\ Index(p[i]) = Index(tokens[j]) => p[i] = tokens[j]

LEMMA HoldersExact ==
  ASSUME NEW tree, Decoded(tree), NEW tokens \in Location, tokens # <<>>, Distinct(tree, tokens)
  PROVE  Holders(tree, tokens) = {h \in DOMAIN tree : tokens # <<<<>>>> /\ h = Front(tokens)}
<1>1. /\ DOMAIN tree \subseteq Location /\ Front(tokens) \in Location
      /\ Len(Front(tokens)) = Len(tokens) - 1 /\ Len(tokens) \in Nat
      /\ \A i \in 1 .. Len(tokens) - 1 : Front(tokens)[i] = tokens[i]
  BY DecodedSpec, FrontSpec DEF Location
<1>2. ASSUME NEW h \in DOMAIN tree, NEW i \in 1 .. Len(h)
      PROVE  /\ SubSeq(h, 1, i - 1) \in DOMAIN tree
             /\ tree[SubSeq(h, 1, i - 1)] \in {"object", "array"}
             /\ tree[SubSeq(h, 1, i - 1)] = "array" =>
                  NamesElement(h[i], Length(tree, SubSeq(h, 1, i - 1)))
  <2> DEFINE q == SubSeq(h, 1, i - 1)
             c == SubSeq(h, 1, i)
  <2>1. /\ q \in Location /\ IsPrefix(q, h) /\ q # h /\ c \in Location /\ IsPrefix(c, h)
        /\ c # <<>> /\ Front(c) = q /\ Last(c) = h[i]
    BY <1>1, StepsDown
  <2> HIDE DEF q, c
  <2>2. q \in DOMAIN tree /\ tree[q] \in {"object", "array"} /\ c \in DOMAIN tree
    BY <2>1, PrefixClosed
  <2>3. tree[q] = "array" => NamesElement(h[i], Length(tree, q))
    BY <2>1, <2>2, ArrayChild
  <2>4. QED
    BY <2>2, <2>3 DEF q
<1>3. ASSUME NEW h \in Holders(tree, tokens)
      PROVE  tokens # <<<<>>>> /\ h = Front(tokens)
  <2>1. /\ h \in DOMAIN tree /\ h \in Location /\ tokens # <<<<>>>> /\ Len(h) + 1 = Len(tokens)
        /\ \A i \in DOMAIN h : Reaches(tree, SubSeq(h, 1, i - 1), tokens[i], h[i])
    BY <1>1 DEF Holders
  <2>2. DOMAIN h = 1 .. Len(h) /\ Len(h) \in Nat
    BY <2>1 DEF Location
  <2>3. ASSUME NEW i \in 1 .. Len(h) PROVE h[i] = tokens[i]
    <3>1. Reaches(tree, SubSeq(h, 1, i - 1), tokens[i], h[i])
      BY <2>1, <2>2
    <3>2. CASE tree[SubSeq(h, 1, i - 1)] = "array"
      <4>1. IsDecimal(h[i])
        BY <1>2, <2>1, <3>2 DEF NamesElement
      <4>2. IsDecimal(tokens[i]) /\ Index(h[i]) = Index(tokens[i])
        BY <3>1, <3>2 DEF Reaches, NamesElement
      <4>3. i \in 1 .. Len(tokens)
        BY <1>1, <2>1, <2>2
      <4>4. QED
        BY <2>1, <4>1, <4>2, <4>3 DEF Distinct
    <3>3. CASE tree[SubSeq(h, 1, i - 1)] # "array"
      BY <3>1, <3>3 DEF Reaches
    <3>4. QED
      BY <3>2, <3>3
  <2>4. Len(h) = Len(Front(tokens)) /\ \A i \in 1 .. Len(h) : h[i] = Front(tokens)[i]
    BY <1>1, <2>1, <2>2, <2>3
  <2>5. h = Front(tokens)
    BY <1>1, <2>1, <2>4 DEF Location
  <2>6. QED
    BY <2>1, <2>5
<1>4. ASSUME tokens # <<<<>>>>, NEW h \in DOMAIN tree, h = Front(tokens)
      PROVE  h \in Holders(tree, tokens)
  <2>1. Len(h) + 1 = Len(tokens) /\ h \in Location
    BY <1>1, <1>4
  <2>2. DOMAIN h = 1 .. Len(h)
    BY <2>1 DEF Location
  <2>3. ASSUME NEW i \in 1 .. Len(h) PROVE Reaches(tree, SubSeq(h, 1, i - 1), tokens[i], h[i])
    <3>1. h[i] = tokens[i]
      BY <1>1, <1>4, <2>1, <2>3
    <3>2. QED
      BY <1>2, <3>1 DEF Reaches
  <2>4. QED
    BY <1>4, <2>1, <2>2, <2>3 DEF Holders
<1>5. Holders(tree, tokens) \subseteq DOMAIN tree
  BY DEF Holders
<1>6. QED
  BY <1>3, <1>4, <1>5

LEMMA TargetExact ==
  ASSUME NEW tree, Decoded(tree), NEW tokens \in Location, tokens # <<>>, Distinct(tree, tokens)
  PROVE  /\ \A m : m \in Members(tree, tokens) <=>
              /\ m = tokens /\ tokens # <<<<>>>> /\ Front(tokens) \in DOMAIN tree
              /\ tree[Front(tokens)] = "object"
         /\ \A e : e \in Elements(tree, tokens) <=>
              /\ e = tokens /\ tokens # <<<<>>>> /\ Front(tokens) \in DOMAIN tree
              /\ tree[Front(tokens)] = "array" /\ tokens \in DOMAIN tree
<1>1. /\ DOMAIN tree \subseteq Location /\ Front(tokens) \in Location
      /\ Last(tokens) \in Token /\ tokens = Append(Front(tokens), Last(tokens))
      /\ Len(tokens) \in Nat \ {0} /\ Last(tokens) = tokens[Len(tokens)]
  BY DecodedSpec, FrontSpec DEF Location, Last
<1>2. \A h : h \in Holders(tree, tokens) <=> 
               h \in DOMAIN tree /\ tokens # <<<<>>>> /\ h = Front(tokens)
  BY HoldersExact
<1>3. ASSUME NEW m
      PROVE  m \in Members(tree, tokens) <=>
              /\ m = tokens /\ tokens # <<<<>>>> /\ Front(tokens) \in DOMAIN tree
              /\ tree[Front(tokens)] = "object"
  <2>1. m \in Members(tree, tokens) <=>
          \E h \in Holders(tree, tokens) : tree[h] = "object" /\ m = Append(h, Last(tokens))
    BY DEF Members
  <2>2. QED
    BY <1>1, <1>2, <2>1
<1>4. ASSUME NEW e
      PROVE  e \in Elements(tree, tokens) <=>
              /\ e = tokens /\ tokens # <<<<>>>> /\ Front(tokens) \in DOMAIN tree
              /\ tree[Front(tokens)] = "array" /\ tokens \in DOMAIN tree
  <2>1. e \in Elements(tree, tokens) <=>
          \E h \in Holders(tree, tokens) :
            tree[h] = "array" /\ e \in Children(tree, h) /\ Reaches(tree, h, Last(tokens), Last(e))
    BY DEF Elements
  <2>2. ASSUME Front(tokens) \in DOMAIN tree, tree[Front(tokens)] = "array",
               e \in Children(tree, Front(tokens)), Reaches(tree, Front(tokens), Last(tokens), Last(e))
        PROVE  e = tokens /\ tokens \in DOMAIN tree
    <3>1. e \in DOMAIN tree /\ e \in Location /\ e # <<>> /\ Front(e) = Front(tokens)
      BY <1>1, <2>2, ChildrenSpec
    <3>2. IsDecimal(Last(e)) /\ IsDecimal(Last(tokens)) /\ Index(Last(e)) = Index(Last(tokens))
      <4>1. NamesElement(Last(e), Length(tree, Front(e)))
        BY <2>2, <3>1, ArrayChild
      <4>2. QED
        BY <2>2, <4>1 DEF NamesElement, Reaches
    <3>3. Len(e) \in Nat \ {0} /\ Last(e) = e[Len(e)] /\ e = Append(Front(e), Last(e))
      BY <3>1, FrontSpec DEF Location, Last
    <3>4. Last(e) = Last(tokens)
      BY <1>1, <3>1, <3>2, <3>3 DEF Distinct
    <3>5. QED
      BY <1>1, <3>1, <3>3, <3>4
  <2>3. ASSUME Front(tokens) \in DOMAIN tree, tree[Front(tokens)] = "array", tokens \in DOMAIN tree
        PROVE  /\ tokens \in Children(tree, Front(tokens))
               /\ Reaches(tree, Front(tokens), Last(tokens), Last(tokens))
    <3>1. tokens \in Children(tree, Front(tokens))
      BY <1>1, <2>3, ChildrenSpec
    <3>2. NamesElement(Last(tokens), Length(tree, Front(tokens)))
      BY <2>3, ArrayChild
    <3>3. QED
      BY <2>3, <3>1, <3>2 DEF Reaches
  <2>4. QED
    BY <1>2, <2>1, <2>2, <2>3
<1>5. QED
  BY <1>3, <1>4

-----------------------------------------------------------------------------
(***************************************************************************)
(* Laying one more key, the last in order, over what has been laid.        *)
(***************************************************************************)
LEMMA OneMore ==
  ASSUME NEW ptrs, NEW key, Pointers(ptrs \cup {key}), \A l \in ptrs : Before(l, key),
         NEW tree, NEW values, NEW old, Overlaid(old, tree, values, ptrs),
         NEW new, DOMAIN new \subseteq Location, new = [p \in DOMAIN new |-> new[p]],
         \A p \in Location : ~IsPrefix(Tokens(key), p) => SameAt(new, old, p),
         \A p \in Location : IsPrefix(Tokens(key), p) => GivenAt(new, values[key], Tokens(key), p)
  PROVE  Overlaid(new, tree, values, ptrs \cup {key})
<1> DEFINE all == ptrs \cup {key}
<1>1. /\ key \in Seq(Nat) /\ WellEscaped(key) /\ key \notin ptrs
      /\ \A l \in ptrs : l \in Seq(Nat) /\ WellEscaped(l)
  BY BeforeIrreflexive DEF Pointers
<1>2. ASSUME NEW p \in Location, ~IsPrefix(Tokens(key), p)
      PROVE  KeysOver(all, p) = KeysOver(ptrs, p)
  BY <1>2 DEF KeysOver
<1>3. ASSUME NEW p \in Location, KeysOver(all, p) = {}
      PROVE  SameAt(new, tree, p)
  <2>1. ~IsPrefix(Tokens(key), p) /\ KeysOver(ptrs, p) = {}
    BY <1>3 DEF KeysOver
  <2>2. SameAt(new, old, p) /\ SameAt(old, tree, p)
    BY <2>1 DEF Overlaid
  <2>3. QED
    BY <2>2 DEF SameAt
<1>4. ASSUME NEW p \in Location, NEW k \in all, Governs(all, k, p)
      PROVE  GivenAt(new, values[k], Tokens(k), p)
  <2>1. CASE ~IsPrefix(Tokens(key), p)
    <3>1. k \in ptrs /\ Governs(ptrs, k, p)
      BY <1>2, <1>4, <2>1 DEF Governs, KeysOver
    <3>2. GivenAt(old, values[k], Tokens(k), p) /\ SameAt(new, old, p)
      BY <2>1, <3>1 DEF Overlaid
    <3>3. QED
      BY <3>2 DEF GivenAt, SameAt
  <2>2. CASE IsPrefix(Tokens(key), p)
    <3>1. k = key
      <4> SUFFICES ASSUME k # key PROVE FALSE
        OBVIOUS
      <4>1. k \in ptrs /\ IsPrefix(Tokens(k), p) /\ Len(Tokens(key)) <= Len(Tokens(k))
        BY <1>4, <2>2 DEF Governs, KeysOver
      <4>2. Tokens(k) \in Location /\ Tokens(key) \in Location
        BY <1>1, <4>1, KeyLocation
      <4>3. IsPrefix(Tokens(key), Tokens(k))
        <5>1. /\ Len(Tokens(key)) <= Len(p) /\ Len(Tokens(k)) <= Len(p)
              /\ \A i \in 1 .. Len(Tokens(key)) : Tokens(key)[i] = p[i]
              /\ \A i \in 1 .. Len(Tokens(k)) : Tokens(k)[i] = p[i]
          BY <2>2, <4>1, <4>2, PrefixSpec
        <5>2. Len(Tokens(key)) \in Nat /\ Len(Tokens(k)) \in Nat
          BY <4>2 DEF Location
        <5>3. \A i \in 1 .. Len(Tokens(key)) : Tokens(key)[i] = Tokens(k)[i]
          BY <4>1, <5>1, <5>2
        <5>4. QED
          BY <4>1, <4>2, <5>3, PrefixSpec
      <4>4. Tokens(key) # Tokens(k)
        BY <1>1, <4>1, TokensInjective
      <4>5. Before(key, k)
        BY <1>1, <4>1, <4>3, <4>4, PrefixesBefore DEF IsStrictPrefix
      <4>6. QED
        BY <1>1, <4>1, <4>5, BeforeAsymmetric
    <3>2. QED
      BY <2>2, <3>1
  <2>3. QED
    BY <2>1, <2>2
<1>5. QED
  BY <1>3, <1>4 DEF Overlaid

LEMMA NothingLaid ==
  ASSUME NEW tree, Decoded(tree), NEW values
  PROVE  Overlaid(tree, tree, values, {})
<1>1. DOMAIN tree \subseteq Location /\ tree = [p \in DOMAIN tree |-> tree[p]]
  BY DecodedSpec
<1>2. QED
  BY <1>1 DEF Overlaid, SameAt

LEMMA PrunedGives ==
  ASSUME NEW tree, Decoded(tree), NEW l \in Location
  PROVE  /\ DOMAIN Pruned(tree, l) \subseteq Location
         /\ Pruned(tree, l) = [p \in DOMAIN Pruned(tree, l) |-> Pruned(tree, l)[p]]
         /\ \A p \in Location : ~IsPrefix(l, p) => SameAt(Pruned(tree, l), tree, p)
         /\ \A p \in Location : IsPrefix(l, p) => GivenAt(Pruned(tree, l), Null, l, p)
<1> DEFINE new == Pruned(tree, l)
<1>1. DOMAIN tree \subseteq Location
  BY DecodedSpec
<1>2. /\ DOMAIN new = {p \in DOMAIN tree : ~IsPrefix(l, p)}
      /\ \A p \in DOMAIN new : new[p] = tree[p]
      /\ new = [p \in DOMAIN new |-> new[p]]
  BY <1>1, PrunedSpec
<1> HIDE DEF new
<1>3. QED
  BY <1>1, <1>2 DEF SameAt, GivenAt, new

LEMMA GraftedGives ==
  ASSUME NEW tree, Decoded(tree), NEW l \in Location, NEW value, Decoded(value), value # Null
  PROVE  /\ DOMAIN Grafted(tree, l, value) \subseteq Location
         /\ Grafted(tree, l, value) =
              [p \in DOMAIN Grafted(tree, l, value) |-> Grafted(tree, l, value)[p]]
         /\ \A p \in Location : ~IsPrefix(l, p) => SameAt(Grafted(tree, l, value), tree, p)
         /\ \A p \in Location : IsPrefix(l, p) => GivenAt(Grafted(tree, l, value), value, l, p)
<1> DEFINE new == Grafted(tree, l, value)
<1>1. DOMAIN tree \subseteq Location /\ DOMAIN value \subseteq Location
  BY DecodedSpec
<1>2. /\ DOMAIN new = {p \in DOMAIN tree : ~IsPrefix(l, p)} \cup {l \o r : r \in DOMAIN value}
      /\ \A p \in DOMAIN tree : ~IsPrefix(l, p) => new[p] = tree[p]
      /\ \A r \in DOMAIN value : new[l \o r] = value[r]
      /\ new = [p \in DOMAIN new |-> new[p]]
      /\ DOMAIN new \subseteq Location
  BY GraftedSpec
<1> HIDE DEF new
<1>3. \A r \in DOMAIN value : IsPrefix(l, l \o r) /\ Below(l, l \o r) = r
  BY <1>1, ConcatSpec
<1>4. ASSUME NEW p \in Location, ~IsPrefix(l, p) PROVE SameAt(new, tree, p)
  BY <1>2, <1>3, <1>4 DEF SameAt
<1>5. ASSUME NEW p \in Location, IsPrefix(l, p) PROVE GivenAt(new, value, l, p)
  <2>1. p = l \o Below(l, p)
    BY <1>5, BelowSpec
  <2>2. p \in DOMAIN new <=> \E r \in DOMAIN value : p = l \o r
    BY <1>2, <1>5
  <2>3. p \in DOMAIN new <=> Below(l, p) \in DOMAIN value
    BY <1>3, <2>1, <2>2
  <2>4. p \in DOMAIN new => new[p] = value[Below(l, p)]
    BY <1>2, <2>1, <2>3
  <2>5. QED
    BY <2>3, <2>4 DEF GivenAt
<1>6. QED
  BY <1>2, <1>4, <1>5 DEF new

(***************************************************************************)
(* Two sets of keys with the same keys above a location give it the same   *)
(* node.                                                                   *)
(***************************************************************************)
LEMMA SameOver ==
  ASSUME NEW tree, NEW values, NEW ptrs, Pointers(ptrs), NEW others,
         NEW a, Overlaid(a, tree, values, ptrs), NEW b, Overlaid(b, tree, values, others),
         NEW p \in Location, KeysOver(ptrs, p) = KeysOver(others, p)
  PROVE  SameAt(a, b, p)
<1>1. CASE KeysOver(ptrs, p) = {}
  <2>1. SameAt(a, tree, p) /\ SameAt(b, tree, p)
    BY <1>1 DEF Overlaid
  <2>2. QED
    BY <2>1 DEF SameAt
<1>2. CASE KeysOver(ptrs, p) # {}
  <2>1. PICK k \in ptrs : Governs(ptrs, k, p)
    BY <1>2, GovernorExists
  <2>2. k \in others /\ Governs(others, k, p)
    BY <2>1 DEF Governs, KeysOver
  <2>3. GivenAt(a, values[k], Tokens(k), p) /\ GivenAt(b, values[k], Tokens(k), p)
    BY <2>1, <2>2 DEF Overlaid
  <2>4. QED
    BY <2>3 DEF GivenAt, SameAt
<1>3. QED
  BY <1>1, <1>2

(***************************************************************************)
(* The container a key needs.                                              *)
(***************************************************************************)
CanLay(tree, value, tokens) ==
  /\ tokens # <<<<>>>>
  /\ Front(tokens) \in DOMAIN tree
  /\ \/ tree[Front(tokens)] = "object"
     \/ tree[Front(tokens)] = "array" /\ value # Null /\ tokens \in DOMAIN tree

Above(pt, key) == {k \in DOMAIN pt : IsStrictPrefix(Tokens(k), Tokens(key))}

LEMMA UnderSpec ==
  ASSUME NEW tree, DOMAIN tree \subseteq Location, NEW pt, Pointers(DOMAIN pt), NEW key,
         \A k \in Above(pt, key) : pt[k] # Null =>
           DOMAIN pt[k] \subseteq Location /\ \A r \in DOMAIN pt[k] : pt[k][r] # Null
  PROVE  /\ Overlaid(Contract!Under(tree, pt, key), tree, pt, Above(pt, key))
         /\ Contract!Lays(tree, pt, key) <=>
              CanLay(Contract!Under(tree, pt, key), pt[key], Tokens(key))
<1>1. Contract!Under(tree, pt, key) = Contract!Overlay(tree, Contract!Restrict(pt, Above(pt, key)))
  BY SameTokens, SamePaths DEF Contract!Under, Above
<1>2. Above(pt, key) \subseteq DOMAIN pt
  BY DEF Above
<1>3. Overlaid(Contract!Under(tree, pt, key), tree, pt, Above(pt, key))
  BY <1>1, <1>2, OverlayOfSome
<1>4. Contract!Lays(tree, pt, key) <=>
        CanLay(Contract!Under(tree, pt, key), pt[key], Tokens(key))
  BY SameTokens, SamePaths DEF Contract!Lays, CanLay
<1>5. QED
  BY <1>3, <1>4

LEMMA LaysSpec ==
  ASSUME NEW tree, DOMAIN tree \subseteq Location, NEW pt, NEW key \in DOMAIN pt, Pointers(DOMAIN pt),
         NEW ptrs, ptrs \subseteq DOMAIN pt,
         \A k \in ptrs : Before(k, key),
         \A k \in DOMAIN pt : k \in ptrs \/ k = key \/ Before(key, k),
         \A k \in ptrs : pt[k] # Null =>
           DOMAIN pt[k] \subseteq Location /\ \A r \in DOMAIN pt[k] : pt[k][r] # Null,
         NEW now, Overlaid(now, tree, pt, ptrs)
  PROVE  Contract!Lays(tree, pt, key) <=> CanLay(now, pt[key], Tokens(key))
<1> DEFINE tokens == Tokens(key)
           above  == Above(pt, key)
           under  == Contract!Under(tree, pt, key)
<1>1. /\ \A k \in DOMAIN pt : k \in Seq(Nat) /\ WellEscaped(k) /\ Tokens(k) \in Location
      /\ tokens # <<>> /\ key \notin ptrs
  BY KeyLocation, BeforeIrreflexive DEF Pointers
<1>2. above \subseteq ptrs
  <2> SUFFICES ASSUME NEW k \in above, k \notin ptrs PROVE FALSE
    OBVIOUS
  <2>1. k \in DOMAIN pt /\ IsStrictPrefix(Tokens(k), Tokens(key))
    BY DEF Above
  <2>2. Before(k, key)
    BY <1>1, <2>1, PrefixesBefore
  <2>3. k # key /\ ~Before(key, k)
    BY <1>1, <2>1, <2>2, BeforeAsymmetric, BeforeIrreflexive
  <2>4. QED
    BY <2>1, <2>3
<1>3. \A k \in above : pt[k] # Null =>
        DOMAIN pt[k] \subseteq Location /\ \A r \in DOMAIN pt[k] : pt[k][r] # Null
  BY <1>2
<1>4. /\ Overlaid(under, tree, pt, above)
      /\ Contract!Lays(tree, pt, key) <=> CanLay(under, pt[key], tokens)
  BY <1>3, UnderSpec
<1> HIDE DEF under
<1>5. Pointers(ptrs)
  BY DEF Pointers
<1>6. ASSUME NEW p \in Location, IsPrefix(p, tokens)
      PROVE  SameAt(now, under, p)
  <2>1. KeysOver(ptrs, p) = KeysOver(above, p)
    <3>1. ASSUME NEW k \in ptrs, IsPrefix(Tokens(k), p) PROVE k \in above
      <4>1. IsPrefix(Tokens(k), tokens)
        <5>1. tokens \in Location /\ Tokens(k) \in Location
          BY <1>1
        <5>2. /\ Len(Tokens(k)) <= Len(p) /\ Len(p) <= Len(tokens)
              /\ \A i \in 1 .. Len(Tokens(k)) : Tokens(k)[i] = p[i]
              /\ \A i \in 1 .. Len(p) : p[i] = tokens[i]
          BY <1>6, <3>1, <5>1, PrefixSpec
        <5>3. Len(Tokens(k)) \in Nat /\ Len(p) \in Nat /\ Len(tokens) \in Nat
          BY <5>1 DEF Location
        <5> HIDE DEF tokens
        <5>4. Len(Tokens(k)) <= Len(tokens) /\ \A i \in 1 .. Len(Tokens(k)) : Tokens(k)[i] = tokens[i]
          BY <5>2, <5>3
        <5>5. QED
          BY <5>1, <5>4, PrefixSpec
      <4>2. Tokens(k) # tokens
        BY <1>1, TokensInjective
      <4>3. QED
        BY <4>1, <4>2 DEF IsStrictPrefix, Above
    <3>2. QED
      BY <1>2, <3>1 DEF KeysOver
  <2> HIDE DEF above
  <2>2. QED
    BY <1>4, <1>5, <2>1, SameOver
<1>7. SameAt(now, under, tokens) /\ SameAt(now, under, Front(tokens))
  <2>1. tokens \in Location /\ Front(tokens) \in Location
        /\ IsPrefix(Front(tokens), tokens) /\ IsPrefix(tokens, tokens)
    BY <1>1, FrontSpec, PrefixFront
  <2>2. QED
    BY <1>6, <2>1
<1>8. CanLay(under, pt[key], tokens) <=> CanLay(now, pt[key], tokens)
  BY <1>7 DEF CanLay, SameAt
<1>9. QED
  BY <1>4, <1>8

-----------------------------------------------------------------------------
(***************************************************************************)
(* What is kept while the keys are applied: those applied could be laid,   *)
(* they come before those to apply, and the copy is the document with them *)
(* laid over it.                                                           *)
(***************************************************************************)
LInv ==
  /\ status = "pending" => Applied = {}
  /\ status \in {"applying", "ok"} =>
       /\ document # Malformed /\ document[<<>>] = "object"
       /\ \A k \in Applied : patch[k] # Malformed /\ Contract!Lays(document, patch, k)
       /\ \A k \in Applied, i \in 1 .. Len(todo) : Before(k, todo[i])
       /\ Overlaid(root, document, patch, Applied)
  /\ status = "ok" => todo = <<>>

LEMMA PatchTyped ==
  ASSUME Unambiguous, IInv
  PROVE  /\ Pointers(DOMAIN patch)
         /\ \A k \in DOMAIN patch : patch[k] # Malformed /\ patch[k] # Null =>
              /\ Decoded(patch[k]) /\ DOMAIN patch[k] \subseteq Location
              /\ \A r \in DOMAIN patch[k] : patch[k][r] # Null
         /\ Applied \subseteq DOMAIN patch
<1>1. patch \in Patches /\ Applied \subseteq DOMAIN patch
  BY DEF IInv, Applied
<1>2. DOMAIN patch \subseteq Seq(Nat) /\ \A k \in DOMAIN patch : WellEscaped(k)
  BY <1>1, PatchesAssumption DEF Unambiguous
<1>3. ASSUME NEW k \in DOMAIN patch, patch[k] # Malformed, patch[k] # Null
      PROVE  /\ Decoded(patch[k]) /\ DOMAIN patch[k] \subseteq Location
             /\ \A r \in DOMAIN patch[k] : patch[k][r] # Null
  <2>1. Decoded(patch[k]) /\ \A r \in DOMAIN patch[k] : patch[k][r] # Null
    BY <1>1, <1>3, PatchesAssumption
  <2>2. QED
    BY <2>1, DecodedSpec
<1>4. QED
  BY <1>1, <1>2, <1>3 DEF Pointers

LEMMA ValueNames ==
  ASSUME NEW d, NEW p, NEW k \in {l \in DOMAIN p : p[l] \notin {Null, Malformed}}
  PROVE  Names(p[k]) \subseteq NamesUsed(d, p)
<1> DEFINE set == {l \in DOMAIN p : p[l] \notin {Null, Malformed}}
<1> SUFFICES ASSUME NEW t \in Names(p[k]) PROVE t \in NamesUsed(d, p)
  OBVIOUS
<1>1. t \in UNION {Names(p[l]) : l \in set}
  <2> HIDE DEF set
  <2>1. k \in set
    BY DEF set
  <2>2. QED
    BY <2>1
<1>2. QED
  BY <1>1 DEF NamesUsed

(***************************************************************************)
(* No index of the copy is confused with one of a key.                     *)
(***************************************************************************)
LEMMA CopyDistinct ==
  ASSUME Unambiguous, IInv, LInv, status \in {"applying", "ok"}, NEW key \in DOMAIN patch
  PROVE  Distinct(root, Tokens(key))
<1> DEFINE used == NamesUsed(document, patch)
<1>1. /\ patch \in Patches /\ document \in Documents /\ document # Malformed
      /\ Decoded(document) /\ Decoded(root)
      /\ Overlaid(root, document, patch, Applied)
  BY DEF IInv, LInv
<1>2. /\ Pointers(DOMAIN patch) /\ Applied \subseteq DOMAIN patch
      /\ \A k \in Applied : patch[k] # Malformed
  BY PatchTyped DEF LInv
<1>3. \A k \in DOMAIN patch : Tokens(k) \in Location
  BY <1>2, KeyLocation DEF Pointers
<1>4. \A k \in DOMAIN patch : \A j \in 1 .. Len(Tokens(k)) : Tokens(k)[j] \in used
  <2> SUFFICES ASSUME NEW k \in DOMAIN patch, NEW j \in 1 .. Len(Tokens(k))
               PROVE  Tokens(k)[j] \in used
    OBVIOUS
  <2>1. DOMAIN Tokens(k) = 1 .. Len(Tokens(k))
    BY <1>3 DEF Location
  <2>2. Tokens(k)[j] \in Range(Tokens(k))
    BY <2>1 DEF Range
  <2>3. QED
    BY <2>2 DEF NamesUsed
<1>5. ASSUME NEW p \in DOMAIN root, NEW i \in 1 .. Len(p) PROVE p[i] \in used
  <2>1. p \in Location /\ DOMAIN p = 1 .. Len(p)
    BY <1>1 DEF Overlaid, Location
  <2>2. CASE KeysOver(Applied, p) = {}
    <3>1. p \in DOMAIN document
      BY <1>1, <2>1, <2>2 DEF Overlaid, SameAt
    <3>2. p[i] \in Names(document)
      BY <2>1, <3>1 DEF Names
    <3>3. QED
      BY <3>2 DEF NamesUsed
  <2>3. CASE KeysOver(Applied, p) # {}
    <3>1. Pointers(Applied)
      BY <1>2 DEF Pointers
    <3>2. PICK k \in Applied : Governs(Applied, k, p)
      BY <2>1, <2>3, <3>1, GovernorExists
    <3>3. GivenAt(root, patch[k], Tokens(k), p)
      BY <1>1, <2>1, <3>2 DEF Overlaid
    <3>4. /\ patch[k] # Null /\ patch[k] # Malformed /\ k \in DOMAIN patch
          /\ Below(Tokens(k), p) \in DOMAIN patch[k]
      BY <1>2, <3>3 DEF GivenAt
    <3> DEFINE t == Tokens(k)
               r == Below(t, p)
    <3>5. t \in Location /\ r \in Location /\ p = t \o r /\ Len(r) = Len(p) - Len(t)
      <4>1. t \in Location /\ IsPrefix(t, p)
        BY <1>3, <3>2, <3>4 DEF Governs, KeysOver
      <4>2. QED
        BY <2>1, <4>1, BelowSpec
    <3>6. r \in DOMAIN patch[k]
      BY <3>4
    <3> HIDE DEF r
    <3>7. CASE i <= Len(t)
      <4>1. i \in 1 .. Len(t)
        BY <3>5, <3>7 DEF Location
      <4>2. p[i] = t[i]
        BY <3>5, <4>1 DEF Location
      <4>3. QED
        BY <1>4, <3>4, <4>1, <4>2
    <3>8. CASE ~(i <= Len(t))
      <4> HIDE DEF t
      <4>1. PICK j \in 1 .. Len(r) : i = Len(t) + j
        <5>1. Len(t) \in Nat /\ Len(r) \in Nat /\ Len(p) \in Nat /\ Len(r) = Len(p) - Len(t)
          BY <2>1, <3>5 DEF Location
        <5>2. i - Len(t) \in 1 .. Len(r) /\ i = Len(t) + (i - Len(t))
          BY <3>8, <5>1
        <5>3. QED
          BY <5>2
      <4>2. p[i] = r[j]
        BY <3>5, <4>1 DEF Location
      <4>3. DOMAIN r = 1 .. Len(r)
        BY <3>5 DEF Location
      <4>4. p[i] \in Names(patch[k])
        BY <3>6, <4>1, <4>2, <4>3 DEF Names
      <4>5. k \in {l \in DOMAIN patch : patch[l] \notin {Null, Malformed}}
        BY <3>4
      <4>6. Names(patch[k]) \subseteq used
        BY <4>5, ValueNames
      <4>7. QED
        BY <4>4, <4>6
    <3>9. QED
      BY <3>7, <3>8
  <2>4. QED
    BY <2>2, <2>3
<1>6. \A t, u \in used : IsDecimal(t) /\ IsDecimal(u) /\ Index(t) = Index(u) => t = u
  BY <1>1 DEF Unambiguous
<1> HIDE DEF used
<1>7. QED
  BY <1>4, <1>5, <1>6 DEF Distinct

(***************************************************************************)
(* A key can be applied to the copy when it can be laid over the document, *)
(* and the copy then is the document with that key laid over it too.       *)
(***************************************************************************)
LEMMA ApplyMeans ==
  ASSUME Unambiguous, IInv, LInv, status = "applying", todo # <<>>
  PROVE  /\ CanApply(Head(todo)) <=>
              patch[Head(todo)] # Malformed /\ Contract!Lays(document, patch, Head(todo))
         /\ CanApply(Head(todo)) /\ ApplyKey =>
              Overlaid(root', document, patch, Applied \cup {Head(todo)})
<1> DEFINE key == Head(todo)
           tokens == Tokens(key)
<1>1. /\ Decoded(root) /\ Decoded(document) /\ todo \in Seq(DOMAIN patch)
      /\ Overlaid(root, document, patch, Applied)
      /\ \A k \in Applied, i \in 1 .. Len(todo) : Before(k, todo[i])
      /\ \A i, j \in 1 .. Len(todo) : i < j => Before(todo[i], todo[j])
  BY DEF IInv, LInv
<1>2. /\ Pointers(DOMAIN patch) /\ Applied \subseteq DOMAIN patch
      /\ \A k \in Applied : patch[k] # Malformed
      /\ \A k \in DOMAIN patch : patch[k] # Malformed /\ patch[k] # Null =>
              /\ Decoded(patch[k]) /\ DOMAIN patch[k] \subseteq Location
              /\ \A r \in DOMAIN patch[k] : patch[k][r] # Null
  BY PatchTyped DEF LInv
<1>3. /\ key \in DOMAIN patch /\ key = todo[1] /\ 1 \in 1 .. Len(todo)
      /\ \A i \in 1 .. Len(todo) : i = 1 \/ 1 < i
  BY <1>1
<1>4. tokens \in Location /\ tokens # <<>>
  BY <1>2, <1>3, KeyLocation DEF Pointers
<1>5. Distinct(root, tokens)
  BY <1>3, CopyDistinct
<1>6. \A k \in Applied : Before(k, key)
  BY <1>1, <1>3
<1>7. \A k \in DOMAIN patch : k \in Applied \/ k = key \/ Before(key, k)
  <2> SUFFICES ASSUME NEW k \in DOMAIN patch, k \notin Applied PROVE k = key \/ Before(key, k)
    OBVIOUS
  <2>1. PICK i \in DOMAIN todo : todo[i] = k
    BY DEF Applied
  <2>2. i \in 1 .. Len(todo)
    BY <1>1, <2>1
  <2>3. QED
    BY <1>1, <1>3, <2>1, <2>2
<1> HIDE DEF key, tokens
<1>8. CanApply(key) <=> patch[key] # Malformed /\ CanLay(root, patch[key], tokens)
  <2>1. /\ \A m : m \in Members(root, tokens) <=>
              /\ m = tokens /\ tokens # <<<<>>>> /\ Front(tokens) \in DOMAIN root
              /\ root[Front(tokens)] = "object"
        /\ \A e : e \in Elements(root, tokens) <=>
              /\ e = tokens /\ tokens # <<<<>>>> /\ Front(tokens) \in DOMAIN root
              /\ root[Front(tokens)] = "array" /\ tokens \in DOMAIN root
    BY <1>1, <1>4, <1>5, TargetExact
  <2>2. /\ Members(root, tokens) # {} <=>
              /\ tokens # <<<<>>>> /\ Front(tokens) \in DOMAIN root
              /\ root[Front(tokens)] = "object"
        /\ Elements(root, tokens) # {} <=>
              /\ tokens # <<<<>>>> /\ Front(tokens) \in DOMAIN root
              /\ root[Front(tokens)] = "array" /\ tokens \in DOMAIN root
    BY <2>1
  <2>3. QED
    BY <2>2 DEF CanApply, CanLay, tokens
<1>9. Contract!Lays(document, patch, key) <=> CanLay(root, patch[key], tokens)
  <2>1. DOMAIN document \subseteq Location
    BY <1>1, DecodedSpec
  <2>2. \A k \in Applied : patch[k] # Null =>
          DOMAIN patch[k] \subseteq Location /\ \A r \in DOMAIN patch[k] : patch[k][r] # Null
    BY <1>2
  <2>3. QED
    BY <1>1, <1>2, <1>3, <1>6, <1>7, <2>1, <2>2, LaysSpec DEF tokens
<1>10. ASSUME CanApply(key), ApplyKey
       PROVE  Overlaid(root', document, patch, Applied \cup {key})
  <2>1. /\ IF patch[key] = Null THEN RemovePointer(key) ELSE SetPointer(key, patch[key])
        /\ patch[key] # Malformed
    BY <1>10 DEF ApplyKey, CanApply, key
  <2>2. \A l \in Members(root, tokens) \cup Elements(root, tokens) : l = tokens
    BY <1>1, <1>4, <1>5, TargetExact
  <2>3. IF patch[key] = Null THEN root' = Pruned(root, tokens)
        ELSE root' = Grafted(root, tokens, patch[key])
    BY <2>1, <2>2 DEF RemovePointer, SetPointer, tokens
  <2>4. /\ DOMAIN root' \subseteq Location /\ root' = [p \in DOMAIN root' |-> root'[p]]
        /\ \A p \in Location : ~IsPrefix(tokens, p) => SameAt(root', root, p)
        /\ \A p \in Location : IsPrefix(tokens, p) => GivenAt(root', patch[key], tokens, p)
    <3>1. CASE patch[key] = Null
      BY <1>1, <1>4, <2>3, <3>1, PrunedGives
    <3>2. CASE patch[key] # Null
      <4>1. root' = Grafted(root, tokens, patch[key]) /\ Decoded(patch[key])
        BY <1>2, <1>3, <2>1, <2>3, <3>2
      <4>2. QED
        BY <1>1, <1>4, <3>2, <4>1, GraftedGives
    <3>3. QED
      BY <3>1, <3>2
  <2>5. Pointers(Applied \cup {key})
    BY <1>2, <1>3 DEF Pointers
  <2>6. QED
    BY <1>1, <1>6, <2>4, <2>5, OneMore DEF tokens
<1>11. QED
  BY <1>8, <1>9, <1>10 DEF key

LEMMA InitialLaid == Init => LInv
<1> SUFFICES ASSUME Init PROVE LInv
  OBVIOUS
<1>1. status = "pending"
  BY DEF Init
<1>2. Applied = {}
  <2>1. IsFiniteSet(DOMAIN patch) /\ DOMAIN patch \subseteq Seq(Nat) /\ todo \in Sortings(DOMAIN patch)
    BY PatchesAssumption DEF Init
  <2>2. todo \in Seq(DOMAIN patch) /\ \A k \in DOMAIN patch : \E i \in 1 .. Len(todo) : todo[i] = k
    BY <2>1, SortingsCover
  <2>3. DOMAIN todo = 1 .. Len(todo)
    BY <2>2
  <2>4. QED
    BY <2>2, <2>3 DEF Applied
<1>3. QED
  BY <1>1, <1>2 DEF LInv

(***************************************************************************)
(* The steps of ApplyPatch: what they keep, and what its caller sees of    *)
(* them.                                                                   *)
(***************************************************************************)
Refines == [Contract!Next]_<<[document |-> document, patch |-> patch],
                             [status |-> IF status = "applying" THEN "pending" ELSE status,
                              document |-> IF status = "ok" THEN root ELSE Null]>>

LEMMA ReplyUnchanged ==
  ASSUME UNCHANGED <<document, patch>>, {status, status'} \subseteq {"pending", "applying"}
  PROVE  Refines
BY DEF Refines

LEMMA Answers ==
  ASSUME UNCHANGED <<document, patch>>, status \in {"pending", "applying"},
         \/ /\ status' = "ok" /\ Contract!Applicable(document, patch)
            /\ root' = Contract!Overlay(document, patch)
         \/ status' = "error" /\ ~Contract!Applicable(document, patch)
  PROVE  Refines
BY DEF Refines, Contract!Next, Contract!Answer, Contract!Pending, Contract!Error

LEMMA DecodeRefines ==
  ASSUME Unambiguous, IInv, LInv, DecodeDocument
  PROVE  LInv' /\ Refines
<1>1. status = "pending" /\ Applied = {} /\ UNCHANGED <<document, patch, todo>>
  BY DEF LInv, DecodeDocument, Fail
<1>2. Applied' = {}
  BY <1>1 DEF Applied
<1>3. CASE document # Malformed /\ document[<<>>] = "object"
  <2>1. root' = document /\ status' = "applying"
    BY <1>3 DEF DecodeDocument
  <2>2. Decoded(document)
    BY <1>3, DocumentsAssumption DEF IInv
  <2>3. Overlaid(root', document', patch', Applied')
    BY <1>1, <1>2, <2>1, <2>2, NothingLaid
  <2>4. LInv'
    BY <1>1, <1>2, <1>3, <2>1, <2>3 DEF LInv
  <2>5. Refines
    BY <1>1, <2>1, ReplyUnchanged
  <2>6. QED
    BY <2>4, <2>5
<1>4. CASE ~(document # Malformed /\ document[<<>>] = "object")
  <2>1. status' = "error"
    BY <1>4 DEF DecodeDocument, Fail
  <2>2. ~Contract!Applicable(document, patch)
    BY <1>4 DEF Contract!Applicable
  <2>3. Refines
    BY <1>1, <2>1, <2>2, Answers
  <2>4. LInv'
    BY <2>1 DEF LInv
  <2>5. QED
    BY <2>3, <2>4
<1>5. QED
  BY <1>3, <1>4

LEMMA ApplyRefines ==
  ASSUME Unambiguous, IInv, LInv, ApplyKey
  PROVE  LInv' /\ Refines
<1> DEFINE key == Head(todo)
<1>1. status = "applying" /\ todo # <<>> /\ UNCHANGED <<document, patch>>
  BY DEF ApplyKey, Fail
<1>2. /\ CanApply(key) <=> patch[key] # Malformed /\ Contract!Lays(document, patch, key)
      /\ CanApply(key) => Overlaid(root', document, patch, Applied \cup {key})
  BY <1>1, ApplyMeans
<1>3. CASE CanApply(key)
  <2>1. status' = "applying" /\ todo' = Tail(todo)
    BY <1>1, <1>3 DEF ApplyKey
  <2>2. Applied' = Applied \cup {key} /\ todo \in Seq(DOMAIN patch)
    BY <1>1, <2>1, AppliedNext DEF IInv
  <2>3. \A k \in Applied', i \in 1 .. Len(todo') : Before(k, todo'[i])
    <3>1. /\ Len(todo) \in Nat /\ Len(todo') = Len(todo) - 1 /\ key = todo[1]
          /\ \A i \in 1 .. Len(todo) - 1 : todo'[i] = todo[i + 1]
      BY <1>1, <2>1, <2>2
    <3>2. /\ \A i, j \in 1 .. Len(todo) : i < j => Before(todo[i], todo[j])
          /\ \A k \in Applied, i \in 1 .. Len(todo) : Before(k, todo[i])
      BY <1>1 DEF IInv, LInv
    <3> SUFFICES ASSUME NEW k \in Applied', NEW i \in 1 .. Len(todo') PROVE Before(k, todo'[i])
      OBVIOUS
    <3>3. i + 1 \in 1 .. Len(todo) /\ 1 \in 1 .. Len(todo) /\ 1 < i + 1 /\ todo'[i] = todo[i + 1]
      BY <3>1
    <3> HIDE DEF key
    <3>4. QED
      BY <2>2, <3>1, <3>2, <3>3
  <2>4. \A k \in Applied' : patch[k] # Malformed /\ Contract!Lays(document, patch, k)
    <3>1. \A k \in Applied : patch[k] # Malformed /\ Contract!Lays(document, patch, k)
      BY <1>1 DEF LInv
    <3> HIDE DEF key
    <3>2. QED
      BY <1>2, <1>3, <2>2, <3>1
  <2>5. LInv'
    <3>1. document # Malformed /\ document[<<>>] = "object"
      BY <1>1 DEF LInv
    <3>2. Overlaid(root', document, patch, Applied')
      BY <1>2, <1>3, <2>2
    <3> HIDE DEF key
    <3>3. QED
      BY <1>1, <2>1, <2>3, <2>4, <3>1, <3>2 DEF LInv
  <2>6. Refines
    BY <1>1, <2>1, ReplyUnchanged
  <2>7. QED
    BY <2>5, <2>6
<1>4. CASE ~CanApply(key)
  <2>1. status' = "error"
    BY <1>4 DEF ApplyKey, Fail
  <2>2. key \in DOMAIN patch
    BY <1>1 DEF IInv
  <2> HIDE DEF key
  <2>3. ~Contract!Applicable(document, patch)
    BY <1>2, <1>4, <2>2 DEF Contract!Applicable
  <2>4. Refines
    BY <1>1, <2>1, <2>3, Answers
  <2>5. LInv'
    BY <2>1 DEF LInv
  <2>6. QED
    BY <2>4, <2>5
<1>5. QED
  BY <1>3, <1>4

LEMMA EncodeRefines ==
  ASSUME Unambiguous, IInv, LInv, EncodeDocument
  PROVE  LInv' /\ Refines
<1>1. /\ status = "applying" /\ todo = <<>> /\ status' = "ok"
      /\ UNCHANGED <<document, patch, todo, root>>
  BY DEF EncodeDocument
<1>2. Applied = DOMAIN patch /\ Applied' = Applied
  <2>1. DOMAIN todo = {}
    BY <1>1
  <2>2. QED
    BY <1>1, <2>1 DEF Applied
<1>3. /\ document # Malformed /\ document[<<>>] = "object" /\ Decoded(document)
      /\ \A k \in Applied : patch[k] # Malformed /\ Contract!Lays(document, patch, k)
      /\ Overlaid(root, document, patch, Applied)
      /\ \A k \in Applied, i \in 1 .. Len(todo) : Before(k, todo[i])
  BY <1>1 DEF IInv, LInv
<1>4. Contract!Applicable(document, patch)
  BY <1>2, <1>3 DEF Contract!Applicable
<1>5. root = Contract!Overlay(document, patch)
  <2>1. /\ Pointers(DOMAIN patch)
        /\ \A k \in DOMAIN patch : patch[k] # Malformed /\ patch[k] # Null =>
              /\ Decoded(patch[k]) /\ DOMAIN patch[k] \subseteq Location
              /\ \A r \in DOMAIN patch[k] : patch[k][r] # Null
    BY PatchTyped
  <2>2. DOMAIN document \subseteq Location
    BY <1>3, DecodedSpec
  <2>3. Overlaid(Contract!Overlay(document, patch), document, patch, DOMAIN patch)
    BY <1>2, <1>3, <2>1, <2>2, OverlayIs
  <2>4. QED
    BY <1>2, <1>3, <2>1, <2>3, OverlaidUnique
<1>6. Refines
  BY <1>1, <1>4, <1>5, Answers
<1>7. LInv'
  BY <1>1, <1>2, <1>3 DEF LInv
<1>8. QED
  BY <1>6, <1>7

LEMMA AllSteps ==
  ASSUME Unambiguous, IInv, LInv, [Next]_vars
  PROVE  LInv' /\ Refines
<1>1. CASE DecodeDocument
  BY <1>1, DecodeRefines
<1>2. CASE ApplyKey
  BY <1>2, ApplyRefines
<1>3. CASE EncodeDocument
  BY <1>3, EncodeRefines
<1>4. CASE UNCHANGED vars
  <2>1. UNCHANGED <<document, patch, todo, root, status>>
    BY <1>4 DEF vars
  <2>2. Applied' = Applied
    BY <2>1 DEF Applied
  <2>3. LInv'
    BY <2>1, <2>2 DEF LInv
  <2>4. Refines
    BY <2>1 DEF Refines
  <2>5. QED
    BY <2>3, <2>4
<1>5. QED
  BY <1>1, <1>2, <1>3, <1>4 DEF Next

(***************************************************************************)
(* Applying the keys one by one, in the order slices.Sort gives, is laying *)
(* the whole patch over the document at once; and a patch that cannot be   *)
(* laid is refused whole.  The keys are well formed pointers and no two    *)
(* indexes wrap to one.                                                    *)
(***************************************************************************)
THEOREM PatchContract == ASSUME Unambiguous PROVE Spec => ImplementsContract
<1> USE DEF ImplementsContract
<1>1. Init => LInv /\ Contract!Init
  <2>1. Init => Contract!Init
    BY DEF Init, Contract!Init, Contract!Pending
  <2>2. QED
    BY <2>1, InitialLaid
<1>2. IInv /\ LInv /\ [Next]_vars => LInv' /\ Refines
  BY AllSteps
<1>3. QED
  BY <1>1, <1>2, Inductive, PTL DEF Spec, Contract!Spec, Refines

-----------------------------------------------------------------------------
(***************************************************************************)
(* What parseIndex makes of a decimal that an int can hold.                *)
(***************************************************************************)
LEMMA WrittenValue ==
  ASSUME NEW tok \in Seq(Nat), IsDecimal(tok)
  PROVE  \E g \in [0 .. Len(tok) -> Nat] :
           /\ g[0] = 0 /\ g[Len(tok)] = Decimal(tok)
           /\ \A n \in 1 .. Len(tok) : g[n] = g[n - 1] * 10 + (tok[n] - Zero)
<1> DEFINE N == Len(tok)
           step == [n \in 1 .. N |-> [v \in Nat |-> v * 10 + (tok[n] - Zero)]]
<1>1. N \in Nat /\ \A n \in 1 .. N : tok[n] - Zero \in Nat
  BY Digits
<1>2. step \in [1 .. N -> [Nat -> Nat]]
  BY <1>1
<1>3. \A n \in 1 .. N, v \in Nat : step[n][v] = v * 10 + (tok[n] - Zero)
  OBVIOUS
<1> HIDE DEF step
<1>4. PICK g \in [0 .. N -> Nat] : Recurs(g, N, 0, step)
  BY <1>1, <1>2, RecursionExists
<1> DEFINE Value(h) == h = [n \in 0 .. N |-> IF n = 0 THEN 0 ELSE h[n - 1] * 10 + (tok[n] - Zero)]
<1> HIDE DEF N
<1>5. /\ g[0] = 0
      /\ \A n \in 1 .. N : g[n] = g[n - 1] * 10 + (tok[n] - Zero)
  <2>1. \A n \in 0 .. N : g[n] = IF n = 0 THEN 0 ELSE step[n][g[n - 1]]
    BY <1>4 DEF Recurs
  <2>2. \A n \in 1 .. N : n - 1 \in 0 .. N /\ n \in 0 .. N /\ n # 0
    BY <1>1
  <2>3. \A n \in 1 .. N : g[n] = step[n][g[n - 1]] /\ g[n - 1] \in Nat
    BY <1>4, <2>1, <2>2
  <2>4. 0 \in 0 .. N
    BY <1>1
  <2>5. QED
    BY <1>3, <2>1, <2>3, <2>4
<1>6. Value(g)
  <2>1. \A n \in 0 .. N : n # 0 => n \in 1 .. N
    BY <1>1
  <2>2. \A n \in 0 .. N : g[n] = IF n = 0 THEN 0 ELSE g[n - 1] * 10 + (tok[n] - Zero)
    BY <1>5, <2>1
  <2>3. QED
    BY <1>4, <2>2
<1>7. ASSUME NEW h, Value(h) PROVE h[N] = g[N]
  <2>1. 0 \in 0 .. N /\ N \in 0 .. N /\ \A n \in 1 .. N : n \in 0 .. N /\ n # 0
    BY <1>1
  <2>2. \A n \in 0 .. N : h[n] = IF n = 0 THEN 0 ELSE h[n - 1] * 10 + (tok[n] - Zero)
    BY <1>7
  <2>3. h[0] = g[0] /\ \A n \in 1 .. N : h[n] = h[n - 1] * 10 + (tok[n] - Zero)
    BY <1>5, <2>1, <2>2
  <2>4. \A n \in 1 .. N : h[n - 1] = g[n - 1] => h[n] = g[n]
    BY <1>5, <2>3
  <2>5. QED
    BY <1>1, <2>1, <2>3, <2>4, SameThroughout
<1>8. Decimal(tok) = g[N]
  <2>1. Decimal(tok) = (CHOOSE h : Value(h))[N]
    BY DEF Decimal, N
  <2> HIDE DEF Value
  <2>2. QED
    BY <1>6, <1>7, <2>1
<1>9. QED
  BY <1>4, <1>5, <1>8 DEF N

LEMMA IndexExact ==
  ASSUME NEW tok \in Seq(Nat), IsDecimal(tok), Decimal(tok) < 2 ^ (IntBits - 1)
  PROVE  Index(tok) = Decimal(tok)
<1> DEFINE N == Len(tok)
           half == 2 ^ (IntBits - 1)
<1>1. N \in Nat /\ \A n \in 1 .. N : tok[n] - Zero \in Nat
  BY Digits
<1>2. PICK g \in [0 .. N -> Nat] :
        /\ g[0] = 0 /\ g[N] = Decimal(tok)
        /\ \A n \in 1 .. N : g[n] = g[n - 1] * 10 + (tok[n] - Zero)
  BY WrittenValue
<1> DEFINE Value(h) == h = [n \in 0 .. N |-> IF n = 0 THEN 0 ELSE Wrapped(h[n - 1] * 10 + (tok[n] - Zero))]
<1> HIDE DEF N
<1>3. \A n \in 0 .. N : g[n] < half
  <2> DEFINE T == {i \in 0 .. N : ~(g[N - i] < half)}
  <2>1. half \in Nat /\ g[N] < half
    BY <1>2, PowersAssumption
  <2> HIDE DEF half
  <2>2. ASSUME T # {} PROVE FALSE
    <3>1. PICK i \in T : \A j \in T : i <= j
      <4>1. T \subseteq Nat
        OBVIOUS
      <4> HIDE DEF T
      <4>2. QED
        BY <2>2, <4>1, LeastNat
    <3>2. i \in 0 .. N /\ ~(g[N - i] < half)
      BY <3>1
    <3>3. i # 0
      BY <1>1, <2>1, <3>2
    <3>4. i - 1 \in 0 .. N /\ ~(i <= i - 1) /\ N - (i - 1) = (N - i) + 1
          /\ (N - i) + 1 \in 1 .. N /\ N - i \in 0 .. N /\ ((N - i) + 1) - 1 = N - i
      BY <1>1, <3>2, <3>3
    <3>5. g[(N - i) + 1] < half
      BY <3>1, <3>4
    <3>6. g[(N - i) + 1] = g[N - i] * 10 + (tok[(N - i) + 1] - Zero)
      BY <1>2, <3>4
    <3>7. g[N - i] \in Nat /\ tok[(N - i) + 1] - Zero \in Nat
      BY <1>1, <1>2, <3>4
    <3>8. \A a \in Nat, b \in Nat : a <= a * 10 + b
      OBVIOUS
    <3>9. g[N - i] <= g[(N - i) + 1]
      BY <3>6, <3>7, <3>8
    <3>10. QED
      BY <1>2, <2>1, <3>2, <3>4, <3>5, <3>7, <3>9
  <2>3. \A i \in 0 .. N : g[N - i] < half
    BY <2>2
  <2>4. \A n \in 0 .. N : N - n \in 0 .. N /\ N - (N - n) = n
    BY <1>1
  <2>5. QED
    BY <2>3, <2>4
<1>4. \A n \in 1 .. N : Wrapped(g[n - 1] * 10 + (tok[n] - Zero)) = g[n]
  <2>1. \A n \in 1 .. N : g[n] \in 0 .. half - 1
    <3>1. half \in Nat
      BY PowersAssumption
    <3> HIDE DEF half
    <3>2. \A n \in 1 .. N : n \in 0 .. N
      BY <1>1
    <3>3. QED
      BY <1>2, <1>3, <3>1, <3>2
  <2>2. QED
    BY <1>2, <2>1, WrappedSpec
<1>5. Value(g)
  <2>1. \A n \in 0 .. N : n # 0 => n \in 1 .. N
    BY <1>1
  <2>2. \A n \in 0 .. N : g[n] = IF n = 0 THEN 0 ELSE Wrapped(g[n - 1] * 10 + (tok[n] - Zero))
    BY <1>2, <1>4, <2>1
  <2>3. QED
    BY <1>2, <2>2
<1>6. ASSUME NEW h, Value(h) PROVE h[N] = g[N]
  <2>1. 0 \in 0 .. N /\ N \in 0 .. N /\ \A n \in 1 .. N : n \in 0 .. N /\ n # 0
    BY <1>1
  <2>2. \A n \in 0 .. N :
          h[n] = IF n = 0 THEN 0 ELSE Wrapped(h[n - 1] * 10 + (tok[n] - Zero))
    BY <1>6
  <2>3. h[0] = g[0] /\ \A n \in 1 .. N : h[n] = Wrapped(h[n - 1] * 10 + (tok[n] - Zero))
    BY <1>2, <2>1, <2>2
  <2>4. \A n \in 1 .. N : h[n - 1] = g[n - 1] => h[n] = g[n]
    BY <1>4, <2>3
  <2>5. QED
    BY <1>1, <2>1, <2>3, <2>4, SameThroughout
<1>7. Index(tok) = g[N]
  <2>1. Index(tok) = (CHOOSE h : Value(h))[N]
    BY DEF Index, N
  <2> HIDE DEF Value
  <2>2. QED
    BY <1>5, <1>6, <2>1
<1>8. QED
  BY <1>2, <1>7
(***************************************************************************)
(* Where a key found an array, it set an element that is still there.      *)
(***************************************************************************)
LEMMA ElementThere ==
  ASSUME Unambiguous, IInv, LInv, status = "ok", NEW key \in DOMAIN patch,
         NEW h \in Holders(root, Tokens(key)), root[h] = "array"
  PROVE  NamesElement(Last(Tokens(key)), Length(root, h))
<1> DEFINE tokens == Tokens(key)
<1>1. /\ Decoded(root) /\ Decoded(document) /\ Applied = DOMAIN patch
      /\ Overlaid(root, document, patch, DOMAIN patch)
      /\ Contract!Lays(document, patch, key) /\ patch[key] # Malformed
  <2>1. todo = <<>>
    BY DEF LInv
  <2>2. DOMAIN todo = {}
    BY <2>1
  <2>3. Applied = DOMAIN patch
    BY <2>2 DEF Applied
  <2>4. QED
    BY <2>3 DEF IInv, LInv
<1>2. /\ Pointers(DOMAIN patch)
      /\ \A k \in DOMAIN patch : patch[k] # Malformed /\ patch[k] # Null =>
              /\ Decoded(patch[k]) /\ DOMAIN patch[k] \subseteq Location
              /\ \A r \in DOMAIN patch[k] : patch[k][r] # Null
      /\ \A k \in DOMAIN patch : patch[k] # Malformed
  BY <1>1, PatchTyped DEF LInv
<1>3. \A k \in DOMAIN patch : Tokens(k) \in Location /\ Tokens(k) # <<>>
  BY <1>2, KeyLocation DEF Pointers
<1>4. h = Front(tokens) /\ h \in DOMAIN root
  <2>1. Distinct(root, tokens)
    BY CopyDistinct
  <2>2. QED
    BY <1>1, <1>3, <2>1, HoldersExact
<1>5. /\ tokens \in Location /\ h \in Location /\ IsPrefix(tokens, tokens)
      /\ IsPrefix(h, tokens) /\ Len(h) = Len(tokens) - 1
  BY <1>3, <1>4, FrontSpec, PrefixFront
<1> HIDE DEF tokens
<1>6. CASE patch[key] = Null
  <2> DEFINE under == Contract!Under(document, patch, key)
  <2>1. /\ Overlaid(under, document, patch, Above(patch, key))
        /\ CanLay(under, patch[key], tokens)
    <3>1. DOMAIN document \subseteq Location
      BY <1>1, DecodedSpec
    <3>2. \A k \in Above(patch, key) : patch[k] # Null =>
            DOMAIN patch[k] \subseteq Location /\ \A r \in DOMAIN patch[k] : patch[k][r] # Null
      BY <1>2 DEF Above
    <3>3. QED
      BY <1>1, <1>2, <3>1, <3>2, UnderSpec DEF tokens
  <2> HIDE DEF under
  <2>2. under[h] = "object" /\ h \in DOMAIN under
    BY <1>4, <1>6, <2>1 DEF CanLay, tokens
  <2>3. KeysOver(DOMAIN patch, h) = KeysOver(Above(patch, key), h)
    <3> SUFFICES ASSUME NEW k \in DOMAIN patch, IsPrefix(Tokens(k), h) PROVE k \in Above(patch, key)
      BY DEF KeysOver, Above
    <3>1. /\ Len(Tokens(k)) <= Len(h)
          /\ \A i \in 1 .. Len(Tokens(k)) : Tokens(k)[i] = h[i]
          /\ \A i \in 1 .. Len(h) : h[i] = tokens[i]
      BY <1>3, <1>5, PrefixSpec
    <3>2. Len(Tokens(k)) \in Nat /\ Len(h) \in Nat /\ Len(tokens) \in Nat
      BY <1>3, <1>5 DEF Location
    <3>3. /\ Len(Tokens(k)) < Len(tokens)
          /\ \A i \in 1 .. Len(Tokens(k)) : Tokens(k)[i] = tokens[i]
      BY <1>5, <3>1, <3>2
    <3>4. IsPrefix(Tokens(k), tokens)
      BY <1>3, <1>5, <3>2, <3>3, PrefixSpec
    <3>5. Tokens(k) # tokens
      BY <3>2, <3>3
    <3>6. QED
      BY <3>4, <3>5 DEF IsStrictPrefix, Above, tokens
  <2>4. SameAt(root, under, h)
    BY <1>1, <1>2, <1>5, <2>1, <2>3, SameOver
  <2>5. QED
    BY <2>2, <2>4 DEF SameAt
<1>7. CASE patch[key] # Null
  <2>1. Governs(DOMAIN patch, key, tokens)
    <3>1. \A k \in KeysOver(DOMAIN patch, tokens) : Len(Tokens(k)) <= Len(tokens)
      BY <1>3, <1>5, PrefixSpec DEF KeysOver
    <3>2. QED
      BY <1>5, <3>1 DEF Governs, KeysOver, tokens
  <2>2. GivenAt(root, patch[key], tokens, tokens)
    BY <1>1, <1>5, <2>1 DEF Overlaid, tokens
  <2>3. Below(tokens, tokens) = <<>>
    <3>1. Below(tokens, tokens) \in Location /\ Len(Below(tokens, tokens)) = Len(tokens) - Len(tokens)
      BY <1>5, BelowSpec
    <3>2. Len(tokens) \in Nat
      BY <1>5 DEF Location
    <3>3. QED
      BY <3>1, <3>2 DEF Location
  <2>4. <<>> \in DOMAIN patch[key]
    BY <1>2, <1>7, DecodedSpec
  <2>5. tokens \in DOMAIN root
    BY <1>7, <2>2, <2>3, <2>4 DEF GivenAt
  <2>6. QED
    BY <1>1, <1>3, <1>4, <2>5, ArrayChild DEF tokens
<1>8. QED
  BY <1>6, <1>7

(***************************************************************************)
(* No key sets an element at or past the end of its array.                 *)
(***************************************************************************)
THEOREM BoundsKept == ASSUME Unambiguous PROVE Spec => []IndexInBounds
<1>1. IInv /\ LInv => IndexInBounds
  <2> SUFFICES ASSUME IInv, LInv, status = "ok", NEW k \in DOMAIN patch,
                      NEW h \in Holders(root, Tokens(k)), root[h] = "array",
                      Decimal(Last(Tokens(k))) < 2 ^ (IntBits - 1)
               PROVE  Decimal(Last(Tokens(k))) < Length(root, h)
    BY DEF IndexInBounds
  <2> DEFINE tok == Last(Tokens(k))
  <2>1. NamesElement(tok, Length(root, h))
    BY ElementThere
  <2>2. tok \in Seq(Nat)
    <3>1. Pointers(DOMAIN patch)
      BY PatchTyped
    <3>2. Tokens(k) \in Location /\ Tokens(k) # <<>>
      BY <3>1, KeyLocation DEF Pointers
    <3>3. QED
      BY <3>2, FrontSpec DEF Token
  <2>3. IsDecimal(tok) /\ Index(tok) \in 0 .. Length(root, h) - 1
    BY <2>1 DEF NamesElement
  <2>4. Decimal(tok) < 2 ^ (IntBits - 1)
    OBVIOUS
  <2> HIDE DEF tok
  <2>5. Index(tok) = Decimal(tok)
    BY <2>2, <2>3, <2>4, IndexExact
  <2>6. Decimal(tok) \in Nat
    <3>1. PICK g \in [0 .. Len(tok) -> Nat] : g[Len(tok)] = Decimal(tok)
      BY <2>2, <2>3, WrittenValue
    <3>2. QED
      BY <2>2, <3>1
  <2>7. Length(root, h) \in Int
    <3>1. Children(root, h) \subseteq DOMAIN root /\ IsFiniteSet(DOMAIN root)
      BY DecodedSpec DEF IInv, Children
    <3>2. QED
      BY <3>1, FS_Subset, FS_CardinalityType DEF Length
  <2>8. Decimal(tok) < Length(root, h)
    BY <2>3, <2>5, <2>6, <2>7
  <2>9. QED
    BY <2>8 DEF tok
<1>2. Spec => []LInv
  <2>1. IInv /\ LInv /\ [Next]_vars => LInv'
    BY AllSteps
  <2>2. QED
    BY <2>1, InitialLaid, Inductive, PTL DEF Spec
<1>3. QED
  BY <1>1, <1>2, Inductive, PTL

-----------------------------------------------------------------------------
(***************************************************************************)
(* A decimal that does not start with a zero is positive at every digit.   *)
(***************************************************************************)
LEMMA Positive ==
  ASSUME NEW N \in Nat, N # 0, NEW u, NEW g \in [0 .. N -> Nat], g[0] = 0,
         \A n \in 1 .. N : u[n] \in Zero .. Nine /\ g[n] = g[n - 1] * 10 + (u[n] - Zero),
         u[1] # Zero
  PROVE  \A n \in 1 .. N : g[n] >= 1
<1> DEFINE T == {n \in 1 .. N : ~(g[n] >= 1)}
<1>1. ASSUME T # {} PROVE FALSE
  <2>1. PICK n \in T : \A i \in T : n <= i
    <3>1. T \subseteq Nat
      OBVIOUS
    <3> HIDE DEF T
    <3>2. QED
      BY <1>1, <3>1, LeastNat
  <2>2. n \in 1 .. N /\ ~(g[n] >= 1) /\ g[n] = g[n - 1] * 10 + (u[n] - Zero)
    BY <2>1
  <2>3. \A c \in Zero .. Nine : c - Zero \in 0 .. 9 /\ (c # Zero => c - Zero # 0)
    BY DEF Zero, Nine
  <2>4. u[n] - Zero \in 0 .. 9 /\ n - 1 \in 0 .. N /\ g[n - 1] \in Nat
    BY <2>2, <2>3
  <2>5. CASE n = 1
    <3>1. g[n - 1] = 0 /\ u[n] - Zero # 0
      BY <2>2, <2>3, <2>5
    <3>2. QED
      BY <2>2, <2>4, <3>1
  <2>6. CASE n # 1
    <3>1. n - 1 \in 1 .. N /\ ~(n <= n - 1)
      BY <2>2, <2>6
    <3>2. g[n - 1] >= 1
      BY <2>1, <3>1
    <3>3. \A a \in Nat, d \in 0 .. 9 : a >= 1 => a * 10 + d >= 1
      OBVIOUS
    <3>4. QED
      BY <2>2, <2>4, <3>2, <3>3
  <2>7. QED
    BY <2>5, <2>6
<1>2. QED
  BY <1>1

(***************************************************************************)
(* Without leading zeros, one number has one decimal text.                 *)
(***************************************************************************)
LEMMA OneText ==
  ASSUME NEW t \in Seq(Nat), IsDecimal(t), NEW u \in Seq(Nat), IsDecimal(u),
         Decimal(t) = Decimal(u)
  PROVE  t = u
<1> DEFINE M == Len(t)
           N == Len(u)
<1>1. /\ M \in Nat /\ M # 0 /\ N \in Nat /\ N # 0 /\ DOMAIN t = 1 .. M /\ DOMAIN u = 1 .. N
      /\ \A m \in 1 .. M : t[m] \in Zero .. Nine
      /\ \A n \in 1 .. N : u[n] \in Zero .. Nine
      /\ M > 1 => t[1] # Zero
      /\ N > 1 => u[1] # Zero
  BY DEF IsDecimal
<1>2. PICK f \in [0 .. M -> Nat] :
        /\ f[0] = 0 /\ f[M] = Decimal(t)
        /\ \A m \in 1 .. M : f[m] = f[m - 1] * 10 + (t[m] - Zero)
  BY WrittenValue
<1>3. PICK g \in [0 .. N -> Nat] :
        /\ g[0] = 0 /\ g[N] = Decimal(u)
        /\ \A n \in 1 .. N : g[n] = g[n - 1] * 10 + (u[n] - Zero)
  BY WrittenValue
<1> HIDE DEF M, N
<1>4. /\ \A m \in 1 .. M : t[m] - Zero \in 0 .. 9 /\ f[m - 1] \in Nat
      /\ \A n \in 1 .. N : u[n] - Zero \in 0 .. 9 /\ g[n - 1] \in Nat
  <2>1. \A c \in Zero .. Nine : c - Zero \in 0 .. 9
    BY DEF Zero, Nine
  <2>2. \A m \in 1 .. M : t[m] - Zero \in 0 .. 9
    BY <1>1, <2>1
  <2>3. \A n \in 1 .. N : u[n] - Zero \in 0 .. 9
    BY <1>1, <2>1
  <2>4. (\A m \in 1 .. M : m - 1 \in 0 .. M) /\ (\A n \in 1 .. N : n - 1 \in 0 .. N)
    BY <1>1
  <2>5. QED
    BY <1>2, <1>3, <2>2, <2>3, <2>4
<1>5. M > 1 => \A m \in 1 .. M : f[m] >= 1
  BY <1>1, <1>2, <1>4, Positive
<1>6. N > 1 => \A n \in 1 .. N : g[n] >= 1
  BY <1>1, <1>3, <1>4, Positive
<1> DEFINE Same(m, n) == m = n /\ \A i \in 1 .. m : t[i] = u[i]
           Splits(m) == \A n \in 1 .. N : f[m] = g[n] => Same(m, n)
           T == {m \in 1 .. M : ~Splits(m)}
<1>7. ASSUME T # {} PROVE FALSE
  <2>1. PICK m \in T : \A i \in T : m <= i
    <3>1. T \subseteq Nat
      OBVIOUS
    <3> HIDE DEF T
    <3>2. QED
      BY <1>7, <3>1, LeastNat
  <2>2. m \in 1 .. M /\ ~Splits(m)
    BY <2>1
  <2>3. PICK n \in 1 .. N : f[m] = g[n] /\ ~Same(m, n)
    BY <2>2
  <2> HIDE DEF T, Same
  <2>4. \A a, b \in Nat : \A d, e \in 0 .. 9 : a * 10 + d = b * 10 + e => a = b /\ d = e
    OBVIOUS
  <2>5. f[m - 1] = g[n - 1] /\ t[m] = u[n]
    <3>1. f[m - 1] * 10 + (t[m] - Zero) = g[n - 1] * 10 + (u[n] - Zero)
      BY <1>2, <1>3, <2>2, <2>3
    <3>2. /\ f[m - 1] \in Nat /\ g[n - 1] \in Nat
          /\ t[m] - Zero \in 0 .. 9 /\ u[n] - Zero \in 0 .. 9
      BY <1>4, <2>2, <2>3
    <3> DEFINE a == f[m - 1]
               b == g[n - 1]
               d == t[m] - Zero
               e == u[n] - Zero
    <3>3. a * 10 + d = b * 10 + e /\ a \in Nat /\ b \in Nat /\ d \in 0 .. 9 /\ e \in 0 .. 9
      BY <3>1, <3>2
    <3> HIDE DEF a, b, d, e
    <3>4. a = b /\ d = e
      BY <2>4, <3>3
    <3>5. \A c \in Zero .. Nine : c \in Int
      BY DEF Zero, Nine
    <3>6. t[m] \in Int /\ u[n] \in Int
      BY <1>1, <2>2, <2>3, <3>5
    <3>7. QED
      BY <3>4, <3>6 DEF Zero, a, b, d, e
  <2>6. CASE m = 1
    <3>1. g[n - 1] = 0
      BY <1>2, <2>5, <2>6
    <3>2. n = 1
      <4>1. ASSUME n # 1 PROVE FALSE
        <5>1. N > 1 /\ n - 1 \in 1 .. N
          BY <1>1, <4>1
        <5>2. g[n - 1] >= 1
          BY <1>6, <5>1
        <5>3. QED
          BY <3>1, <5>2
      <4>2. QED
        BY <4>1
    <3>3. \A i \in 1 .. m : i = 1
      BY <2>6
    <3>4. Same(m, n)
      BY <2>5, <2>6, <3>2, <3>3 DEF Same
    <3>5. QED
      BY <2>3, <3>4
  <2>7. CASE m # 1
    <3>1. M > 1 /\ m - 1 \in 1 .. M /\ ~(m <= m - 1)
      BY <1>1, <2>2, <2>7
    <3>2. f[m - 1] >= 1
      BY <1>5, <3>1
    <3>3. n # 1
      BY <1>3, <2>5, <3>2
    <3>4. n - 1 \in 1 .. N
      BY <1>1, <3>3
    <3>5. Splits(m - 1)
      BY <2>1, <3>1 DEF T
    <3>6. Same(m - 1, n - 1)
      BY <2>5, <3>4, <3>5
    <3>7. m = n /\ \A i \in 1 .. m : i \in 1 .. m - 1 \/ i = m
      BY <2>2, <2>3, <3>6 DEF Same
    <3>8. Same(m, n)
      BY <2>5, <3>6, <3>7 DEF Same
    <3>9. QED
      BY <2>3, <3>8
  <2>8. QED
    BY <2>6, <2>7
<1>8. M \in 1 .. M /\ N \in 1 .. N
  BY <1>1
<1>9. Splits(M)
  BY <1>7, <1>8
<1>10. f[M] = g[N]
  BY <1>2, <1>3
<1>11. M = N /\ \A i \in 1 .. M : t[i] = u[i]
  BY <1>8, <1>9, <1>10
<1>12. t = [i \in 1 .. M |-> t[i]] /\ u = [i \in 1 .. N |-> u[i]]
  BY <1>1
<1>13. QED
  BY <1>11, <1>12

(***************************************************************************)
(* It is enough that the indexes are numbers an int can hold.              *)
(***************************************************************************)
Fitting ==
  \A p \in Patches :
    /\ \A k \in DOMAIN p : WellEscaped(k)
    /\ \A d \in Documents \ {Malformed} :
         \A t \in NamesUsed(d, p) : IsDecimal(t) => Decimal(t) < 2 ^ (IntBits - 1)

LEMMA NamesTyped ==
  ASSUME NEW p \in Patches, NEW d \in Documents \ {Malformed}, NEW t \in NamesUsed(d, p)
  PROVE  t \in Seq(Nat)
<1> DEFINE set == {l \in DOMAIN p : p[l] \notin {Null, Malformed}}
<1>1. ASSUME NEW tree, Decoded(tree), t \in Names(tree) PROVE t \in Seq(Nat)
  <2>1. PICK l \in DOMAIN tree : t \in {l[i] : i \in DOMAIN l}
    BY <1>1 DEF Names
  <2>2. l \in Seq(Seq(Nat))
    BY <1>1 DEF Decoded
  <2>3. QED
    BY <2>1, <2>2
<1>2. CASE t \in Names(d)
  BY <1>1, <1>2, DocumentsAssumption
<1>3. CASE \E k \in DOMAIN p : t \in Range(Tokens(k))
  <2>1. PICK k \in DOMAIN p : t \in Range(Tokens(k))
    BY <1>3
  <2>2. k \in Seq(Nat)
    BY PatchesAssumption
  <2>3. Tokens(k) \in Seq(Seq(Nat))
    BY <2>2, TokensSequence
  <2>4. PICK i \in DOMAIN Tokens(k) : t = Tokens(k)[i]
    BY <2>1 DEF Range
  <2>5. QED
    BY <2>3, <2>4
<1>4. CASE \E k \in set : t \in Names(p[k])
  <2>1. PICK k \in set : t \in Names(p[k])
    BY <1>4
  <2>2. Decoded(p[k])
    BY <2>1, PatchesAssumption
  <2>3. QED
    BY <1>1, <2>1, <2>2
<1>5. t \in Names(d) \/ (\E k \in DOMAIN p : t \in Range(Tokens(k))) \/ (\E k \in set : t \in Names(p[k]))
  <2> HIDE DEF set
  <2>1. t \in UNION ({Names(d)} \cup {Range(Tokens(k)) : k \in DOMAIN p} \cup {Names(p[k]) : k \in set})
    BY Zenon DEF NamesUsed, set
  <2>2. QED
    BY <2>1
<1>6. QED
  BY <1>2, <1>3, <1>4, <1>5

LEMMA FittingUnambiguous == Fitting => Unambiguous
<1> SUFFICES ASSUME Fitting, NEW p \in Patches
             PROVE  /\ \A k \in DOMAIN p : WellEscaped(k)
                    /\ \A d \in Documents \ {Malformed} :
                         \A t, u \in NamesUsed(d, p) :
                           IsDecimal(t) /\ IsDecimal(u) /\ Index(t) = Index(u) => t = u
  BY DEF Unambiguous
<1>1. \A k \in DOMAIN p : WellEscaped(k)
  BY DEF Fitting
<1>2. ASSUME NEW d \in Documents \ {Malformed}, NEW t \in NamesUsed(d, p), NEW u \in NamesUsed(d, p),
             IsDecimal(t), IsDecimal(u), Index(t) = Index(u)
      PROVE  t = u
  <2>1. t \in Seq(Nat) /\ u \in Seq(Nat)
    BY NamesTyped
  <2>2. Decimal(t) < 2 ^ (IntBits - 1) /\ Decimal(u) < 2 ^ (IntBits - 1)
    BY <1>2 DEF Fitting
  <2>3. Index(t) = Decimal(t) /\ Index(u) = Decimal(u)
    BY <1>2, <2>1, <2>2, IndexExact
  <2>4. QED
    BY <1>2, <2>1, <2>3, OneText
<1>3. QED
  BY <1>1, <1>2

(***************************************************************************)
(* ApplyPatch implements its contract where every key is a JSON Pointer    *)
(* and every index fits an int, whatever the documents and the patches.    *)
(***************************************************************************)
THEOREM FittingContract == ASSUME Fitting PROVE Spec => ImplementsContract
BY FittingUnambiguous, PatchContract

=============================================================================
