------------------------ MODULE CalendarEventProofs ------------------------
(***************************************************************************)
(* Proofs about CalendarEvent: a decode never writes an Event the program  *)
(* can reach, whatever was decoded, wrapped and unwrapped before; what is  *)
(* encoded is one flat object, decoding it gives the value back, and the   *)
(* split of a wire between the two codecs agrees with each of them.        *)
(***************************************************************************)
EXTENDS CalendarEvent, MemberCodecProofs

-----------------------------------------------------------------------------
(***************************************************************************)
(* JMAP!, the codec of the members JMAP adds, with the operators it shares *)
(* with the Event's.                                                       *)
(***************************************************************************)
JMAPNames == ToSet(JMAPMembers)

JMAPSet(jmap) == {f \in JMAPNames : jmap[f] # JMAP!Unset(f)}

LEMMA JMAPFacts ==
  /\ JMAPMembers \in Seq(ToSet(Names)) /\ IsInjective(JMAPMembers)
  /\ JMAPNames \subseteq ToSet(Names)
  /\ JMAPNames \cap Known = {} /\ JMAPNames \cap DOMAIN Variants = {}
  /\ \A f \in JMAPNames : JMAPKind[f] \in {"string", "pointer", "map"}
<1>1. JMAPMembers \in Seq(ToSet(Names) \ (Known \cup DOMAIN Variants))
  BY CalendarEventAssumption
<1>2. JMAPNames \subseteq ToSet(Names) \ (Known \cup DOMAIN Variants)
  BY <1>1 DEF JMAPNames, ToSet
<1>3. JMAPMembers \in Seq(ToSet(Names))
  BY <1>1
<1>4. QED
  BY <1>2, <1>3, CalendarEventAssumption DEF JMAPNames

LEMMA JMAPOperators ==
  /\ \A f : JMAP!Unset(f) = CASE JMAPKind[f] = "string"  -> Zero
                              [] JMAPKind[f] = "pointer" -> Null
                              [] JMAPKind[f] = "map"     -> {}
  /\ \A f, v : JMAP!Fits(f, v) <=> v \in (IF JMAPKind[f] = "map" THEN Sets ELSE Scalars) \cup {Null}
  /\ JMAP!ZeroStruct = [f \in JMAPNames |-> JMAP!Unset(f)]
  /\ \A jmap : JMAP!KnownPart(jmap) = Rows(JMAPMembers, JMAPSet(jmap), jmap)
  /\ \A w : JMAP!Meaning(w) = [f \in JMAPNames |-> JMAP!MeaningFor(w, f)]
<1>1. \A f : JMAP!Unset(f) = CASE JMAPKind[f] = "string"  -> Zero
                               [] JMAPKind[f] = "pointer" -> Null
                               [] JMAPKind[f] = "map"     -> {}
  BY DEF JMAP!Unset
<1>2. \A f, v : JMAP!Fits(f, v) <=> v \in (IF JMAPKind[f] = "map" THEN Sets ELSE Scalars) \cup {Null}
  BY DEF JMAP!Fits
<1>3. JMAP!ZeroStruct = [f \in JMAPNames |-> JMAP!Unset(f)]
  BY Zenon DEF JMAP!ZeroStruct, JMAP!Known, JMAPNames, JMAP!ToSet, ToSet
<1>4. ASSUME NEW jmap PROVE JMAP!KnownPart(jmap) = Rows(JMAPMembers, JMAPSet(jmap), jmap)
  <2>1. ASSUME NEW s, NEW set PROVE JMAP!Selected(s, set) = Selected(s, set)
    BY Zenon DEF JMAP!Selected, Selected, JMAP!Hits, Hits, JMAP!Rank, Rank, JMAP!Cardinality, Cardinality
  <2>2. ASSUME NEW n, NEW v PROVE JMAP!Member(n, v) = Member(n, v)
    BY Zenon DEF JMAP!Member, Member
  <2>3. JMAP!Known = JMAPNames
    BY Zenon DEF JMAP!Known, JMAPNames, JMAP!ToSet, ToSet
  <2> DEFINE sel == Selected(JMAPMembers, JMAPSet(jmap))
  <2>4. JMAP!Selected(JMAPMembers, {f \in JMAP!Known : jmap[f] # JMAP!Unset(f)}) = sel
    BY <2>1, <2>3 DEF JMAPSet
  <2>5. JMAP!KnownPart(jmap) = [i \in DOMAIN sel |-> JMAP!Member(sel[i], jmap[sel[i]])]
    BY <2>4, Zenon DEF JMAP!KnownPart
  <2>6. QED
    BY <2>2, <2>5 DEF Rows
<1>5. ASSUME NEW w PROVE JMAP!Meaning(w) = [f \in JMAPNames |-> JMAP!MeaningFor(w, f)]
  BY Zenon DEF JMAP!Meaning, JMAP!Known, JMAPNames, JMAP!ToSet, ToSet
<1>6. QED
  BY <1>1, <1>2, <1>3, <1>4, <1>5

(***************************************************************************)
(* What a part of a wire with each name once means to the JMAP codec: each *)
(* member its value, unless it is null.                                    *)
(***************************************************************************)
LEMMA JMAPMeaning ==
  ASSUME NEW w \in WireType, \A i, j \in DOMAIN w : i # j => w[i].name # w[j].name,
         NEW f \in JMAPNames
  PROVE  /\ (\A i \in DOMAIN w : w[i].name # f) => JMAP!Meaning(w)[f] = JMAP!Unset(f)
         /\ \A i \in DOMAIN w :
              w[i].name = f => MeansOne(JMAP!Meaning(w)[f], JMAP!Unset(f), w[i].value)
<1>1. JMAPKind[f] \in {"string", "pointer", "map"}
  BY JMAPFacts
<1>2. JMAP!Meaning(w)[f] = JMAP!MeaningFor(w, f)
  BY JMAPOperators
<1>3. Len(w) \in Nat /\ DOMAIN w = 1 .. Len(w)
  BY WireLen
<1>4. JMAP!Unset(f) = CASE JMAPKind[f] = "string"  -> Zero
                        [] JMAPKind[f] = "pointer" -> Null
                        [] JMAPKind[f] = "map"     -> {}
  BY JMAPOperators
<1> DEFINE carriers == JMAP!Carriers(w, f)
           holding == JMAP!Holding(w, f)
<1>5. carriers = {i \in DOMAIN w : w[i].name = f}
  <2>1. ASSUME NEW name PROVE f \in JMAP!FieldsFor(name) <=> name = f
    <3>1. DOMAIN NoVariants = {}
      BY DEF NoVariants
    <3>2. JMAP!FieldsFor(name) = IF name \in JMAPNames THEN {name}
                                 ELSE {NoVariants[n] : n \in DOMAIN NoVariants \cap {name}}
      BY Zenon DEF JMAP!FieldsFor, JMAP!Known, JMAPNames, JMAP!ToSet, ToSet
    <3> HIDE DEF JMAPNames
    <3>3. JMAP!FieldsFor(name) = IF name \in JMAPNames THEN {name} ELSE {}
      BY <3>1, <3>2
    <3>4. QED
      BY <3>3
  <2>2. QED
    BY <2>1 DEF JMAP!Carriers
<1>6. holding = {i \in carriers : w[i].value # Null}
  BY DEF JMAP!Holding
<1>7. JMAP!MeaningFor(w, f) =
        CASE JMAPKind[f] = "string"  -> IF holding = {} THEN Zero ELSE w[Max(holding)].value
          [] JMAPKind[f] = "pointer" -> IF carriers = {} THEN Null ELSE w[Max(carriers)].value
          [] JMAPKind[f] = "map"     ->
               UNION {w[i].value : i \in {j \in holding : \A k \in carriers : k > j => k \in holding}}
  BY Zenon DEF JMAP!MeaningFor, JMAP!ValueOf, JMAP!Max, Max
<1> HIDE DEF carriers, holding
<1>8. ASSUME \A i \in DOMAIN w : w[i].name # f
      PROVE  JMAP!Meaning(w)[f] = JMAP!Unset(f)
  <2>1. carriers = {} /\ holding = {}
    BY <1>5, <1>6, <1>8
  <2>2. CASE JMAPKind[f] = "string"
    BY <1>2, <1>4, <1>7, <2>1, <2>2
  <2>3. CASE JMAPKind[f] = "pointer"
    BY <1>2, <1>4, <1>7, <2>1, <2>3
  <2>4. CASE JMAPKind[f] = "map"
    BY <1>2, <1>4, <1>7, <2>1, <2>4
  <2>5. QED
    BY <1>1, <2>2, <2>3, <2>4
<1>9. ASSUME NEW i \in DOMAIN w, w[i].name = f
      PROVE  MeansOne(JMAP!Meaning(w)[f], JMAP!Unset(f), w[i].value)
  <2>1. carriers = {i}
    BY <1>5, <1>9
  <2>2. Max({i}) = i
    BY <1>3 DEF Max
  <2>3. holding = IF w[i].value = Null THEN {} ELSE {i}
    BY <1>6, <2>1
  <2>4. CASE JMAPKind[f] = "string"
    BY <1>2, <1>4, <1>7, <2>2, <2>3, <2>4 DEF MeansOne
  <2>5. CASE JMAPKind[f] = "pointer"
    BY <1>2, <1>4, <1>7, <2>1, <2>2, <2>5 DEF MeansOne
  <2>6. CASE JMAPKind[f] = "map"
    <3>1. JMAP!MeaningFor(w, f) =
            UNION {w[j].value : j \in {m \in holding : \A k \in carriers : k > m => k \in holding}}
      BY <1>7, <2>6
    <3>2. CASE w[i].value = Null
      <4>1. JMAP!MeaningFor(w, f) = {}
        BY <2>3, <3>1, <3>2
      <4>2. QED
        BY <1>2, <1>4, <2>6, <3>2, <4>1 DEF MeansOne
    <3>3. CASE w[i].value # Null
      <4>1. {m \in holding : \A k \in carriers : k > m => k \in holding} = {i}
        BY <2>1, <2>3, <3>3
      <4>2. JMAP!MeaningFor(w, f) = UNION {w[j].value : j \in {i}}
        BY <3>1, <4>1
      <4>3. QED
        BY <1>2, <3>3, <4>2 DEF MeansOne
    <3>4. QED
      BY <3>2, <3>3
  <2>7. QED
    BY <1>1, <2>4, <2>5, <2>6
<1>10. QED
  BY <1>8, <1>9

-----------------------------------------------------------------------------
(***************************************************************************)
(* A part of a wire: the last member of each of its names.                 *)
(***************************************************************************)
DistinctNames(w) == \A i, j \in DOMAIN w : i # j => w[i].name # w[j].name

LEMMA ListedDistinct ==
  ASSUME NEW rows, NEW names, NEW set, NEW value, NEW Vals, Listed(rows, names, set, value, Vals)
  PROVE  DistinctNames(rows) /\ DOMAIN rows \subseteq Int
<1>1. DOMAIN rows \subseteq Int
  BY DEF Listed
<1>2. ASSUME NEW i \in DOMAIN rows, NEW j \in DOMAIN rows, i # j PROVE rows[i].name # rows[j].name
  <2>1. i < j \/ j < i
    BY <1>1, <1>2
  <2>2. QED
    BY <2>1 DEF Listed
<1>3. QED
  BY <1>1, <1>2 DEF DistinctNames

LEMMA NamesTyped ==
  ASSUME NEW w \in WireType
  PROVE  /\ NamesOf(w) \subseteq ToSet(Names)
         /\ \A n \in NamesOf(w) : \E i \in DOMAIN w : w[i].name = n /\ LastOf(w, n) = w[i].value
         /\ \A n \in NamesOf(w) : LastOf(w, n) \in Values
<1>1. \A i \in DOMAIN w : w[i].name \in ToSet(Names) /\ w[i].value \in Values
  BY WireLen
<1>2. ASSUME NEW n \in NamesOf(w)
      PROVE  \E i \in DOMAIN w : w[i].name = n /\ LastOf(w, n) = w[i].value
  <2>1. PICK k \in DOMAIN w : w[k].name = n
    BY DEF NamesOf
  <2>2. \E j \in DOMAIN w : w[j].name = w[k].name /\ LastOf(w, w[k].name) = w[j].value
    BY LastOfSpec DEF WireType
  <2>3. QED
    BY <2>1, <2>2
<1>3. QED
  BY <1>1, <1>2 DEF NamesOf

LEMMA CollapsedSpec ==
  ASSUME NEW w \in WireType, NEW names, names \subseteq NamesOf(w)
  PROVE  /\ Collapsed(w, names) \in WireType
         /\ DistinctNames(Collapsed(w, names))
         /\ \A i \in DOMAIN Collapsed(w, names) :
              /\ Collapsed(w, names)[i].name \in names
              /\ Collapsed(w, names)[i].value = LastOf(w, Collapsed(w, names)[i].name)
         /\ \A n \in names : \E i \in DOMAIN Collapsed(w, names) : Collapsed(w, names)[i].name = n
<1> DEFINE value == [n \in names |-> LastOf(w, n)]
           rows == Rows(Names, names, value)
           sel == Selected(Names, names)
<1>1. Names \in Seq(ToSet(Names)) /\ IsInjective(Names)
  BY CodecAssumption
<1>2. names \subseteq ToSet(Names) /\ \A n \in names : value[n] = LastOf(w, n) /\ value[n] \in Values
  BY NamesTyped
<1> HIDE DEF value
<1>3. \A n \in ToSet(Names) \cap names : value[n] \in Values
  BY <1>2
<1>4. Listed(rows, Names, names, value, Values)
  <2> HIDE DEF rows
  <2>1. QED
    BY <1>1, <1>3, RowsSpec DEF rows
<1>5. InOrder(sel, Names, names, ToSet(Names))
  BY <1>1, SelectedSpec
<1>6. \A i \in DOMAIN sel : sel[i] \in names
  <2> HIDE DEF sel
  <2>1. QED
    BY <1>5 DEF InOrder
<1>7. Collapsed(w, names) = rows
  <2>1. Collapsed(w, names) = [i \in DOMAIN sel |-> Member(sel[i], LastOf(w, sel[i]))]
    BY DEF Collapsed
  <2>2. rows = [i \in DOMAIN sel |-> Member(sel[i], value[sel[i]])]
    BY DEF Rows
  <2> HIDE DEF sel, rows
  <2>3. QED
    BY <1>2, <1>6, <2>1, <2>2
<1> HIDE DEF rows, sel
<1>8. rows \in WireType /\ DistinctNames(rows)
  <2>1. rows \in WireType
    BY <1>4 DEF Listed, WireType
  <2>2. DistinctNames(rows)
    BY <1>4, ListedDistinct
  <2>3. QED
    BY <2>1, <2>2
<1>9. \A i \in DOMAIN rows : rows[i].name \in names /\ rows[i].value = LastOf(w, rows[i].name)
  BY <1>2, <1>4 DEF Listed
<1>10. \A n \in names : \E i \in DOMAIN rows : rows[i].name = n
  BY <1>2, <1>4 DEF Listed
<1>11. QED
  BY <1>7, <1>8, <1>9, <1>10

LEMMA JMAPPartSpec ==
  ASSUME NEW w \in WireType
  PROVE  /\ JMAPPart(w) \in WireType /\ DistinctNames(JMAPPart(w))
         /\ \A i \in DOMAIN JMAPPart(w) :
              /\ JMAPPart(w)[i].name \in NamesOf(w) \cap JMAPNames
              /\ JMAPPart(w)[i].value = LastOf(w, JMAPPart(w)[i].name)
         /\ \A n \in NamesOf(w) \cap JMAPNames : \E i \in DOMAIN JMAPPart(w) : JMAPPart(w)[i].name = n
<1> DEFINE names == NamesOf(w) \cap JMAPNames
<1>1. JMAPPart(w) = Collapsed(w, names) /\ names \subseteq NamesOf(w)
  BY DEF JMAPPart, JMAPNames
<1> HIDE DEF names
<1>2. QED
  BY <1>1, CollapsedSpec DEF names

LEMMA EventPartSpec ==
  ASSUME NEW w \in WireType
  PROVE  /\ EventPart(w) \in WireType /\ DistinctNames(EventPart(w))
         /\ \A i \in DOMAIN EventPart(w) :
              /\ EventPart(w)[i].name \in NamesOf(w) \ JMAPNames
              /\ EventPart(w)[i].value = LastOf(w, EventPart(w)[i].name)
         /\ \A n \in NamesOf(w) \ JMAPNames : \E i \in DOMAIN EventPart(w) : EventPart(w)[i].name = n
<1> DEFINE names == NamesOf(w) \ JMAPNames
<1>1. EventPart(w) = Collapsed(w, names) /\ names \subseteq NamesOf(w)
  BY DEF EventPart, JMAPNames
<1> HIDE DEF names
<1>2. QED
  BY <1>1, CollapsedSpec DEF names

-----------------------------------------------------------------------------
(***************************************************************************)
(* What is in the cells and in the JMAP members is what the codecs and the *)
(* program put there; the wire is JSON, and what was encoded is its bytes. *)
(***************************************************************************)
EventTyped(event) ==
  /\ Typed(event.fields) /\ DOMAIN event.extra \subseteq ToSet(Names)
  /\ \A n \in DOMAIN event.extra : event.extra[n] \in Values \cup {Broken}
  /\ event = [fields |-> event.fields, extra |-> event.extra]

JMAPType(f) ==
  CASE JMAPKind[f] = "string"  -> Scalars
    [] JMAPKind[f] = "pointer" -> Scalars \cup {Null, Broken}
    [] JMAPKind[f] = "map"     -> Sets

JMAPTyped(jmap) ==
  /\ jmap = [f \in JMAPNames |-> jmap[f]]
  /\ \A f \in JMAPNames : jmap[f] \in JMAPType(f)

Held ==
  /\ \A c \in Cells : EventTyped(heap[c])
  /\ JMAPTyped(ce.jmap)

OnWire == wire = NotObject \/ wire \in WireType

Produced ==
  sent # Null => /\ EventTyped(sent.event) /\ Encodes(sent.event)
                 /\ JMAPTyped(sent.jmap) /\ JMAPEncodes(sent.jmap)
                 /\ wire = Merged(sent.event, sent.jmap)

LEMMA EmptyTyped == EventTyped(EmptyEvent)
<1>1. EmptyEvent.fields = ZeroStruct /\ EmptyEvent.extra = NoExtra
  BY DEF EmptyEvent
<1>2. EmptyEvent = [fields |-> EmptyEvent.fields, extra |-> EmptyEvent.extra]
  BY DEF EmptyEvent
<1>3. DOMAIN NoExtra = {}
  BY DEF NoExtra
<1>4. QED
  BY <1>1, <1>2, <1>3, ZeroTyped DEF EventTyped

LEMMA UnsetTyped == ASSUME NEW f \in JMAPNames PROVE JMAP!Unset(f) \in JMAPType(f)
<1>1. JMAPKind[f] \in {"string", "pointer", "map"}
  BY JMAPFacts
<1>2. JMAP!Unset(f) = CASE JMAPKind[f] = "string"  -> Zero
                        [] JMAPKind[f] = "pointer" -> Null
                        [] JMAPKind[f] = "map"     -> {}
  BY JMAPOperators
<1>3. CASE JMAPKind[f] = "string"
  BY <1>2, <1>3, CodecAssumption DEF JMAPType
<1>4. CASE JMAPKind[f] = "pointer"
  BY <1>2, <1>4 DEF JMAPType
<1>5. CASE JMAPKind[f] = "map"
  BY <1>2, <1>5, CodecAssumption DEF JMAPType
<1>6. QED
  BY <1>1, <1>3, <1>4, <1>5

LEMMA ZeroJMAP == JMAPTyped(JMAP!ZeroStruct)
<1>1. JMAP!ZeroStruct = [f \in JMAPNames |-> JMAP!Unset(f)]
  BY JMAPOperators
<1>2. \A f \in JMAPNames : JMAP!ZeroStruct[f] = JMAP!Unset(f)
  BY <1>1
<1>3. QED
  BY <1>1, <1>2, UnsetTyped DEF JMAPTyped

(***************************************************************************)
(* What a decode stores.                                                   *)
(***************************************************************************)
LEMMA DecodedTyped ==
  ASSUME NEW w \in WireType, EventDecodes(w)
  PROVE  EventTyped(EventDecoded(w))
<1>1. Typed(Meaning(w))
  BY MeaningTyped DEF EventDecodes
<1>2. Typed(Forced(Meaning(w)))
  BY <1>1, ForcedTyped
<1>3. EventDecoded(w).fields = Forced(Meaning(w)) /\ EventDecoded(w).extra = Captured(w)
  BY DEF EventDecoded
<1>4. EventDecoded(w) = [fields |-> EventDecoded(w).fields, extra |-> EventDecoded(w).extra]
  BY DEF EventDecoded
<1>5. /\ DOMAIN Captured(w) \subseteq ToSet(Names)
      /\ \A n \in DOMAIN Captured(w) : Captured(w)[n] \in Values
  BY CapturedTyped
<1>6. QED
  BY <1>2, <1>3, <1>4, <1>5 DEF EventTyped

LEMMA JMAPDecodedTyped ==
  ASSUME NEW w \in WireType, DistinctNames(w), JMAPDecodes(w)
  PROVE  JMAPTyped(JMAP!Meaning(w))
<1>1. JMAP!Meaning(w) = [f \in JMAPNames |-> JMAP!Meaning(w)[f]]
  <2>1. JMAP!Meaning(w) = [f \in JMAPNames |-> JMAP!MeaningFor(w, f)]
    BY JMAPOperators
  <2> DEFINE m == JMAP!Meaning(w)
             g(f) == JMAP!MeaningFor(w, f)
  <2> HIDE DEF m, g
  <2>2. m = [f \in JMAPNames |-> g(f)]
    BY <2>1 DEF m, g
  <2>3. m = [f \in JMAPNames |-> m[f]]
    BY <2>2
  <2>4. QED
    BY <2>3 DEF m
<1>2. ASSUME NEW f \in JMAPNames PROVE JMAP!Meaning(w)[f] \in JMAPType(f)
  <2>1. CASE \A i \in DOMAIN w : w[i].name # f
    BY <2>1, JMAPMeaning, UnsetTyped DEF DistinctNames
  <2>2. CASE \E i \in DOMAIN w : w[i].name = f
    <3>1. PICK i \in DOMAIN w : w[i].name = f
      BY <2>2
    <3>2. MeansOne(JMAP!Meaning(w)[f], JMAP!Unset(f), w[i].value)
      BY <3>1, JMAPMeaning DEF DistinctNames
    <3>3. w[i].value \in (IF JMAPKind[f] = "map" THEN Sets ELSE Scalars) \cup {Null}
      BY <3>1, JMAPOperators DEF JMAPDecodes
    <3>4. JMAPKind[f] \in {"string", "pointer", "map"}
      BY JMAPFacts
    <3>5. w[i].value # Null => w[i].value \in JMAPType(f)
      <4>1. CASE JMAPKind[f] = "string"
        BY <3>3, <4>1 DEF JMAPType
      <4>2. CASE JMAPKind[f] = "pointer"
        BY <3>3, <4>2 DEF JMAPType
      <4>3. CASE JMAPKind[f] = "map"
        BY <3>3, <4>3 DEF JMAPType
      <4>4. QED
        BY <3>4, <4>1, <4>2, <4>3
    <3>6. QED
      BY <3>2, <3>5, UnsetTyped DEF MeansOne
  <2>3. QED
    BY <2>1, <2>2
<1>3. QED
  BY <1>1, <1>2 DEF JMAPTyped

(***************************************************************************)
(* The bytes of an Event and of the JMAP members that are set, one after   *)
(* the other.                                                              *)
(***************************************************************************)
MergedWell(w, event, jmap, k, l) ==
  LET front == Encoded(event)
      back  == JMAP!KnownPart(jmap)
  IN  /\ k \in Nat /\ l \in Nat /\ k >= 1
      /\ DOMAIN front = 1 .. k /\ DOMAIN back = 1 .. l /\ DOMAIN w = 1 .. k + l
      /\ w \in WireType
      /\ \A i \in 1 .. k : w[i] = front[i]
      /\ \A i \in 1 .. l : w[k + i] = back[i]

LEMMA MergedSpec ==
  ASSUME NEW event, EventTyped(event), Encodes(event), NEW jmap, JMAPTyped(jmap), JMAPEncodes(jmap)
  PROVE  /\ Encoding(Encoded(event), Forced(event.fields), event.extra, Values)
         /\ Listed(JMAP!KnownPart(jmap), JMAPMembers, JMAPSet(jmap), jmap, Values)
         /\ \E k, l : MergedWell(Merged(event, jmap), event, jmap, k, l)
<1> DEFINE front == Encoded(event)
           back == JMAP!KnownPart(jmap)
           k == Len(front)
           l == Len(back)
           w == front \o back
           M == [name : ToSet(Names), value : Values]
<1>1. Encoding(front, Forced(event.fields), event.extra, Values)
  <2>1. DOMAIN event.fields = Known /\ Type \in Values /\ \A f \in Known : event.fields[f] \in Values
    BY CodecAssumption DEF EventTyped, Typed, Values
  <2>2. \A n \in DOMAIN event.extra \ Known : event.extra[n] \in Values
    BY DEF EventTyped, Encodes
  <2>3. QED
    BY <2>1, <2>2, EncodedSpec
<1>2. Listed(back, JMAPMembers, JMAPSet(jmap), jmap, Values)
  <2>1. \A n \in JMAPNames : jmap[n] \in Values
    <3>1. ASSUME NEW n \in JMAPNames PROVE jmap[n] \in Values
      <4>1. jmap[n] \in JMAPType(n)
        BY DEF JMAPTyped
      <4>2. DOMAIN jmap = JMAPNames
        BY DEF JMAPTyped
      <4>3. jmap[n] # Broken
        BY <4>2 DEF JMAPEncodes
      <4>4. JMAPKind[n] \in {"string", "pointer", "map"}
        BY JMAPFacts
      <4>5. CASE JMAPKind[n] = "string"
        BY <4>1, <4>5 DEF JMAPType, Values
      <4>6. CASE JMAPKind[n] = "pointer"
        BY <4>1, <4>3, <4>6 DEF JMAPType, Values
      <4>7. CASE JMAPKind[n] = "map"
        BY <4>1, <4>7 DEF JMAPType, Values
      <4>8. QED
        BY <4>4, <4>5, <4>6, <4>7
    <3>2. QED
      BY <3>1
  <2>2. \A n \in ToSet(JMAPMembers) \cap JMAPSet(jmap) : jmap[n] \in Values
    BY <2>1 DEF JMAPNames
  <2>3. Listed(Rows(JMAPMembers, JMAPSet(jmap), jmap), JMAPMembers, JMAPSet(jmap), jmap, Values)
    BY <2>2, JMAPFacts, RowsSpec
  <2>4. QED
    BY <2>3, JMAPOperators
<1>3. front \in Seq(M) /\ front # <<>> /\ back \in Seq(M)
  BY <1>1, <1>2 DEF Encoding, Carries, Listed
<1> HIDE DEF front, back, M
<1>4. /\ k \in Nat /\ l \in Nat /\ k >= 1 /\ DOMAIN front = 1 .. k /\ DOMAIN back = 1 .. l
  BY <1>3
<1>5. /\ w \in Seq(M) /\ Len(w) = k + l
      /\ \A i \in 1 .. k + l : w[i] = IF i <= k THEN front[i] ELSE back[i - k]
  BY <1>3, ConcatProperties
<1> HIDE DEF w
<1>6. DOMAIN w = 1 .. k + l
  BY <1>4, <1>5
<1> HIDE DEF k, l
<1>7. \A i \in 1 .. k : w[i] = front[i]
  BY <1>4, <1>5
<1>8. \A i \in 1 .. l : w[k + i] = back[i]
  <2> SUFFICES ASSUME NEW i \in 1 .. l PROVE w[k + i] = back[i]
    OBVIOUS
  <2>1. k + i \in 1 .. k + l /\ ~(k + i <= k) /\ (k + i) - k = i
    BY <1>4
  <2>2. QED
    BY <1>5, <2>1
<1>9. MergedWell(w, event, jmap, k, l)
  BY <1>4, <1>5, <1>6, <1>7, <1>8 DEF MergedWell, front, back, M, WireType
<1>10. QED
  BY <1>1, <1>2, <1>9 DEF Merged, w, front, back

(***************************************************************************)
(* Where the names of a merge come from; none occurs twice if the Event    *)
(* keeps no JMAP name.                                                     *)
(***************************************************************************)
Sent(event, jmap) ==
  EventTyped(event) /\ Encodes(event) /\ JMAPTyped(jmap) /\ JMAPEncodes(jmap)

LEMMA FrontNames ==
  ASSUME NEW event, NEW jmap, Sent(event, jmap), NEW i \in DOMAIN Encoded(event)
  PROVE  /\ Encoded(event)[i].name \in Known \cup DOMAIN event.extra
         /\ KeepsNoJMAPName(event) => Encoded(event)[i].name \notin JMAPNames
<1>1. Encoding(Encoded(event), Forced(event.fields), event.extra, Values)
  BY MergedSpec DEF Sent
<1>2. Encoded(event)[i].name \in Known \cup DOMAIN event.extra
  BY <1>1 DEF Encoding, Carries
<1>3. QED
  BY <1>2, JMAPFacts DEF KeepsNoJMAPName, JMAPNames

LEMMA BackNames ==
  ASSUME NEW event, NEW jmap, Sent(event, jmap), NEW i \in DOMAIN JMAP!KnownPart(jmap)
  PROVE  /\ JMAP!KnownPart(jmap)[i].name \in JMAPSet(jmap)
         /\ JMAP!KnownPart(jmap)[i].name \in JMAPNames
         /\ JMAP!KnownPart(jmap)[i].value = jmap[JMAP!KnownPart(jmap)[i].name]
<1>1. Listed(JMAP!KnownPart(jmap), JMAPMembers, JMAPSet(jmap), jmap, Values)
  BY MergedSpec DEF Sent
<1>2. QED
  BY <1>1 DEF Listed, JMAPNames

LEMMA MergedDistinct ==
  ASSUME NEW event, NEW jmap, Sent(event, jmap), KeepsNoJMAPName(event)
  PROVE  DistinctNames(Merged(event, jmap))
<1> DEFINE w == Merged(event, jmap)
           front == Encoded(event)
           back == JMAP!KnownPart(jmap)
<1>1. PICK k, l : MergedWell(w, event, jmap, k, l)
  BY MergedSpec DEF Sent
<1>2. /\ k \in Nat /\ l \in Nat /\ DOMAIN front = 1 .. k /\ DOMAIN back = 1 .. l /\ DOMAIN w = 1 .. k + l
      /\ \A i \in 1 .. k : w[i] = front[i]
      /\ \A i \in 1 .. l : w[k + i] = back[i]
  BY <1>1 DEF MergedWell
<1>3. \A i, j \in DOMAIN front : i < j => front[i].name # front[j].name
  <2>1. Encoding(front, Forced(event.fields), event.extra, Values)
    BY MergedSpec DEF Sent
  <2>2. QED
    BY <2>1 DEF Encoding, Carries
<1>4. \A i, j \in DOMAIN back : i # j => back[i].name # back[j].name
  <2>1. Listed(back, JMAPMembers, JMAPSet(jmap), jmap, Values)
    BY MergedSpec DEF Sent
  <2>2. QED
    BY <2>1, ListedDistinct DEF DistinctNames
<1>5. \A i \in DOMAIN front : front[i].name \notin JMAPNames
  BY FrontNames
<1>6. \A i \in DOMAIN back : back[i].name \in JMAPNames
  BY BackNames
<1> HIDE DEF w, front, back
<1>7. ASSUME NEW i \in DOMAIN w, NEW j \in DOMAIN w, i < j PROVE w[i].name # w[j].name
  <2>1. CASE j <= k
    <3>1. i \in 1 .. k /\ j \in 1 .. k
      BY <1>2, <1>7, <2>1
    <3>2. QED
      BY <1>2, <1>3, <1>7, <3>1
  <2>2. CASE i <= k /\ ~(j <= k)
    <3>1. i \in 1 .. k /\ j - k \in 1 .. l /\ k + (j - k) = j
      BY <1>2, <1>7, <2>2
    <3>2. w[i] = front[i] /\ w[j] = back[j - k]
      BY <1>2, <3>1
    <3>3. QED
      BY <1>2, <1>5, <1>6, <3>1, <3>2
  <2>3. CASE ~(i <= k)
    <3>1. /\ i - k \in 1 .. l /\ k + (i - k) = i /\ j - k \in 1 .. l /\ k + (j - k) = j
          /\ i - k # j - k
      BY <1>2, <1>7, <2>3
    <3>2. w[i] = back[i - k] /\ w[j] = back[j - k]
      BY <1>2, <3>1
    <3>3. QED
      BY <1>2, <1>4, <3>1, <3>2
  <2>4. QED
    BY <1>2, <1>7, <2>1, <2>2, <2>3
<1>8. \A i, j \in DOMAIN w : i # j => i < j \/ j < i
  BY <1>2
<1>9. DistinctNames(w)
  BY <1>7, <1>8 DEF DistinctNames
<1>10. QED
  BY <1>9 DEF w

(***************************************************************************)
(* The split takes a merge apart into the members it was made of.          *)
(***************************************************************************)
LEMMA MergedMember ==
  ASSUME NEW event, NEW jmap, Sent(event, jmap), KeepsNoJMAPName(event),
         NEW n \in NamesOf(Merged(event, jmap))
  PROVE  \/ /\ n \notin JMAPNames
            /\ \E i \in DOMAIN Encoded(event) :
                 Encoded(event)[i].name = n /\ Encoded(event)[i].value = LastOf(Merged(event, jmap), n)
         \/ n \in JMAPSet(jmap) /\ n \in JMAPNames /\ LastOf(Merged(event, jmap), n) = jmap[n]
<1> DEFINE w == Merged(event, jmap)
           front == Encoded(event)
           back == JMAP!KnownPart(jmap)
<1>1. PICK k, l : MergedWell(w, event, jmap, k, l)
  BY MergedSpec DEF Sent
<1>2. /\ k \in Nat /\ l \in Nat /\ DOMAIN front = 1 .. k /\ DOMAIN back = 1 .. l /\ DOMAIN w = 1 .. k + l
      /\ \A i \in 1 .. k : w[i] = front[i]
      /\ \A i \in 1 .. l : w[k + i] = back[i]
      /\ w \in WireType
  BY <1>1 DEF MergedWell
<1>3. PICK i \in DOMAIN w : w[i].name = n
  BY DEF NamesOf
<1>4. LastOf(w, n) = w[i].value
  BY <1>2, <1>3, MergedDistinct, LoneLast DEF DistinctNames
<1>5. CASE i <= k
  <2>1. i \in DOMAIN front /\ w[i] = front[i]
    BY <1>2, <1>5
  <2>2. front[i].name \notin JMAPNames
    BY <2>1, FrontNames
  <2> HIDE DEF front, w
  <2>3. n \notin JMAPNames /\ front[i].name = n /\ front[i].value = LastOf(w, n)
    BY <1>3, <1>4, <2>1, <2>2
  <2>4. QED
    BY <2>1, <2>3 DEF front, w
<1>6. CASE ~(i <= k)
  <2>1. i - k \in 1 .. l /\ k + (i - k) = i
    BY <1>2, <1>6
  <2>2. i - k \in DOMAIN back /\ w[i] = back[i - k]
    BY <1>2, <2>1
  <2>3. /\ back[i - k].name \in JMAPSet(jmap) /\ back[i - k].name \in JMAPNames
        /\ back[i - k].value = jmap[back[i - k].name]
    BY <2>2, BackNames
  <2> HIDE DEF back, w
  <2>4. n \in JMAPSet(jmap) /\ n \in JMAPNames /\ LastOf(w, n) = jmap[n]
    BY <1>3, <1>4, <2>2, <2>3
  <2>5. QED
    BY <2>4 DEF w
<1>7. QED
  BY <1>5, <1>6

LEMMA MergedNames ==
  ASSUME NEW event, NEW jmap, Sent(event, jmap)
  PROVE  /\ Merged(event, jmap) \in WireType
         /\ \A i \in DOMAIN Encoded(event) : Encoded(event)[i].name \in NamesOf(Merged(event, jmap))
         /\ JMAPSet(jmap) \subseteq NamesOf(Merged(event, jmap))
<1> DEFINE w == Merged(event, jmap)
           front == Encoded(event)
           back == JMAP!KnownPart(jmap)
<1>1. PICK k, l : MergedWell(w, event, jmap, k, l)
  BY MergedSpec DEF Sent
<1>2. /\ k \in Nat /\ l \in Nat /\ DOMAIN front = 1 .. k /\ DOMAIN back = 1 .. l /\ DOMAIN w = 1 .. k + l
      /\ \A i \in 1 .. k : w[i] = front[i]
      /\ \A i \in 1 .. l : w[k + i] = back[i]
      /\ w \in WireType
  BY <1>1 DEF MergedWell
<1>3. \A n \in JMAPSet(jmap) : \E i \in DOMAIN back : back[i].name = n
  <2>1. Listed(back, JMAPMembers, JMAPSet(jmap), jmap, Values)
    BY MergedSpec DEF Sent
  <2>2. \A n \in JMAPSet(jmap) : n \in ToSet(JMAPMembers) \cap JMAPSet(jmap)
    BY DEF JMAPSet, JMAPNames
  <2> HIDE DEF back
  <2>3. QED
    BY <2>1, <2>2 DEF Listed
<1> HIDE DEF w, front, back
<1>4. \A i \in DOMAIN front : i \in DOMAIN w /\ w[i] = front[i]
  BY <1>2
<1>5. \A i \in DOMAIN back : k + i \in DOMAIN w /\ w[k + i] = back[i]
  BY <1>2
<1>6. \A i \in DOMAIN front : front[i].name \in NamesOf(w)
  BY <1>4 DEF NamesOf
<1>7. JMAPSet(jmap) \subseteq NamesOf(w)
  BY <1>3, <1>5 DEF NamesOf
<1>8. QED
  BY <1>2, <1>6, <1>7 DEF w, front

LEMMA EventBack ==
  ASSUME NEW event, NEW jmap, Sent(event, jmap), KeepsNoJMAPName(event), Unambiguous(event)
  PROVE  EventDecoded(EventPart(Merged(event, jmap))) = Normal(event)
<1> DEFINE w == Merged(event, jmap)
           front == Encoded(event)
           part == EventPart(w)
           fields == Forced(event.fields)
           extra == event.extra
<1>1. Encoding(front, fields, extra, Values)
  BY MergedSpec DEF Sent
<1>2. w \in WireType /\ \A i \in DOMAIN front : front[i].name \in NamesOf(w)
  BY MergedNames
<1>3. \A n \in NamesOf(w) : n \notin JMAPNames =>
        \E i \in DOMAIN front : front[i].name = n /\ front[i].value = LastOf(w, n)
  BY MergedMember
<1>4. \A i \in DOMAIN front : front[i].name \notin JMAPNames
  BY FrontNames
<1>5. /\ part \in WireType /\ DistinctNames(part)
      /\ \A i \in DOMAIN part : /\ part[i].name \in NamesOf(w) \ JMAPNames
                                /\ part[i].value = LastOf(w, part[i].name)
      /\ \A n \in NamesOf(w) \ JMAPNames : \E i \in DOMAIN part : part[i].name = n
  BY <1>2, EventPartSpec
<1>6. Typed(fields) /\ Forced(fields) = fields
  BY ForcedTyped DEF Sent, EventTyped
<1>7. DOMAIN extra \subseteq ToSet(Names)
  BY DEF Sent, EventTyped
<1> HIDE DEF w, front, part, fields, extra
<1>8. Carries(part, fields, extra, Values)
  <2>1. part \in Seq([name : ToSet(Names), value : Values])
    BY <1>5 DEF WireType
  <2>2. \A i, j \in DOMAIN part : i < j => part[i].name # part[j].name
    <3>1. DOMAIN part \subseteq Int
      BY <2>1
    <3>2. QED
      BY <1>5, <3>1 DEF DistinctNames
  <2>3. ASSUME NEW i \in DOMAIN part
        PROVE  \/ /\ part[i].name \in Known
                  /\ part[i].value = fields[part[i].name] /\ part[i].value # Unset(part[i].name)
               \/ /\ part[i].name \in DOMAIN extra \ Known
                  /\ part[i].value = extra[part[i].name]
    <3>1. PICK m \in DOMAIN front : front[m].name = part[i].name /\ front[m].value = part[i].value
      BY <1>3, <1>5
    <3>2. QED
      BY <1>1, <3>1 DEF Encoding, Carries
  <2>4. \A n : (\E m \in DOMAIN front : front[m].name = n) => \E i \in DOMAIN part : part[i].name = n
    BY <1>2, <1>4, <1>5
  <2>5. \A f \in Known : fields[f] # Unset(f) => \E i \in DOMAIN part : part[i].name = f
    BY <1>1, <2>4 DEF Encoding, Carries
  <2>6. \A n \in (DOMAIN extra \cap ToSet(Names)) \ Known : \E i \in DOMAIN part : part[i].name = n
    BY <1>1, <2>4 DEF Encoding, Carries
  <2>7. QED
    BY <2>1, <2>2, <2>3, <2>5, <2>6 DEF Carries
<1>9. Meaning(part) = fields
  BY <1>6, <1>8, CarriedMeans DEF Unambiguous, extra
<1>10. Captured(part) = Unmodelled(extra)
  BY <1>7, <1>8, CarriedCaptured
<1>11. EventDecoded(part) = [fields |-> fields, extra |-> Unmodelled(extra)]
  BY <1>6, <1>9, <1>10 DEF EventDecoded
<1>12. QED
  BY <1>11 DEF Normal, Forced, part, w, fields, extra

LEMMA JMAPBack ==
  ASSUME NEW event, NEW jmap, Sent(event, jmap), KeepsNoJMAPName(event)
  PROVE  JMAP!Meaning(JMAPPart(Merged(event, jmap))) = jmap
<1> DEFINE w == Merged(event, jmap)
           part == JMAPPart(w)
           m == JMAP!Meaning(part)
<1>1. w \in WireType /\ JMAPSet(jmap) \subseteq NamesOf(w)
  BY MergedNames
<1>2. \A n \in NamesOf(w) \cap JMAPNames : n \in JMAPSet(jmap) /\ LastOf(w, n) = jmap[n]
  BY MergedMember
<1>3. /\ part \in WireType /\ DistinctNames(part)
      /\ \A i \in DOMAIN part : /\ part[i].name \in NamesOf(w) \cap JMAPNames
                                /\ part[i].value = LastOf(w, part[i].name)
      /\ \A n \in NamesOf(w) \cap JMAPNames : \E i \in DOMAIN part : part[i].name = n
  BY <1>1, JMAPPartSpec
<1> HIDE DEF w, part
<1>4. ASSUME NEW f \in JMAPNames PROVE m[f] = jmap[f]
  <2>1. CASE jmap[f] = JMAP!Unset(f)
    <3>1. f \notin JMAPSet(jmap)
      BY <2>1 DEF JMAPSet
    <3>2. \A i \in DOMAIN part : part[i].name # f
      BY <1>2, <1>3, <3>1
    <3>3. QED
      BY <1>3, <2>1, <3>2, JMAPMeaning DEF DistinctNames
  <2>2. CASE jmap[f] # JMAP!Unset(f)
    <3>1. f \in NamesOf(w) \cap JMAPNames
      BY <1>1, <2>2 DEF JMAPSet
    <3>2. PICK i \in DOMAIN part : part[i].name = f
      BY <1>3, <3>1
    <3>3. part[i].value = jmap[f]
      BY <1>2, <1>3, <3>2
    <3>4. MeansOne(m[f], JMAP!Unset(f), part[i].value)
      BY <1>3, <3>2, JMAPMeaning DEF DistinctNames
    <3>5. jmap[f] # Null
      <4>1. JMAPKind[f] \in {"string", "pointer", "map"} /\ jmap[f] \in JMAPType(f)
        BY JMAPFacts DEF Sent, JMAPTyped
      <4>2. CASE JMAPKind[f] = "pointer"
        BY <2>2, <4>2, JMAPOperators
      <4>3. CASE JMAPKind[f] = "string"
        BY <4>1, <4>3, CodecAssumption DEF JMAPType
      <4>4. CASE JMAPKind[f] = "map"
        BY <4>1, <4>4, CodecAssumption DEF JMAPType
      <4>5. QED
        BY <4>1, <4>2, <4>3, <4>4
    <3> HIDE DEF m
    <3>6. QED
      BY <3>3, <3>4, <3>5 DEF MeansOne
  <2>3. QED
    BY <2>1, <2>2
<1>5. m = [f \in JMAPNames |-> m[f]]
  <2>1. m = [f \in JMAPNames |-> JMAP!MeaningFor(part, f)]
    BY JMAPOperators
  <2> DEFINE g(f) == JMAP!MeaningFor(part, f)
  <2> HIDE DEF m, g
  <2>2. m = [f \in JMAPNames |-> g(f)]
    BY <2>1 DEF g
  <2>3. QED
    BY <2>2
<1>6. jmap = [f \in JMAPNames |-> jmap[f]]
  BY DEF Sent, JMAPTyped
<1> HIDE DEF m
<1>7. m = jmap
  <2>1. \A f \in JMAPNames : m[f] = jmap[f]
    BY <1>4
  <2>2. [f \in JMAPNames |-> m[f]] = [f \in JMAPNames |-> jmap[f]]
    BY <2>1
  <2>3. QED
    BY <1>5, <1>6, <2>2, Zenon
<1>8. QED
  BY <1>7 DEF m, part, w

(***************************************************************************)
(* The program's two pointers are null or point to a cell.                 *)
(***************************************************************************)
Pointers ==
  /\ DOMAIN heap = Cells
  /\ held \in Cells \cup {Null}
  /\ ce.event \in Cells \cup {Null}
  /\ ce = [event |-> ce.event, jmap |-> ce.jmap]

-----------------------------------------------------------------------------
(***************************************************************************)
(* There is always a cell that is neither held nor the receiver's own.     *)
(***************************************************************************)
LEMMA FreshCell == Fresh \in Cells /\ Fresh # held /\ Fresh # ce.event
<1>1. Cells \ {held, ce.event} # {}
  <2>1. SUFFICES ASSUME Cells \subseteq {held, ce.event} PROVE FALSE
    OBVIOUS
  <2>2. IsFiniteSet({held, ce.event}) /\ Cardinality({held, ce.event}) <= 2
    <3>1. IsFiniteSet({held}) /\ Cardinality({held}) = 1
      BY FS_Singleton
    <3>2. /\ IsFiniteSet({held} \cup {ce.event})
          /\ Cardinality({held} \cup {ce.event}) \in {1, 2}
      BY <3>1, FS_AddElement
    <3>3. {held} \cup {ce.event} = {held, ce.event}
      OBVIOUS
    <3>4. QED
      BY <3>2, <3>3
  <2>3. IsFiniteSet(Cells) /\ Cardinality(Cells) <= Cardinality({held, ce.event})
    BY <2>1, <2>2, FS_Subset
  <2>4. QED
    BY <2>2, <2>3, CalendarEventAssumption, FS_CardinalityType
<1>2. QED
  BY <1>1 DEF Fresh

LEMMA Initial == Init => Pointers
<1>1. Cells # {}
  BY FreshCell
<1>2. QED
  BY <1>1 DEF Init, Pointers

LEMMA Step == Pointers /\ [Next]_vars => Pointers'
<1> SUFFICES ASSUME Pointers, [Next]_vars PROVE Pointers'
  OBVIOUS
<1> USE DEF Pointers
<1>1. CASE Receive
  BY <1>1 DEF Receive
<1>2. CASE Unmarshal
  BY <1>2, FreshCell DEF Unmarshal, Swept
<1>3. CASE UnmarshalEvent
  BY <1>3 DEF UnmarshalEvent
<1>4. CASE FromEvent
  BY <1>4 DEF FromEvent, Swept
<1>5. CASE ToEvent
  BY <1>5 DEF ToEvent, Swept
<1>6. CASE Edit
  BY <1>6 DEF Edit
<1>7. CASE Marshal
  BY <1>7 DEF Marshal
<1>8. CASE UNCHANGED vars
  BY <1>8 DEF vars
<1>9. QED
  BY <1>1, <1>2, <1>3, <1>4, <1>5, <1>6, <1>7, <1>8 DEF Next

(***************************************************************************)
(* The program's pointers stay null or in the heap.                        *)
(***************************************************************************)
THEOREM PointersCorrect == Spec => []Pointers
BY Initial, Step, PTL DEF Spec

-----------------------------------------------------------------------------
(***************************************************************************)
(* The Event the program holds is the same after a decode: it is neither   *)
(* written, though it may be the receiver's own, nor collected.            *)
(***************************************************************************)
THEOREM HeldEventLeft == Spec => LeavesHeldEvent
<1>1. Pointers /\ [Next]_vars => [Decoding /\ held # Null => heap'[held] = heap[held]]_vars
  <2> SUFFICES ASSUME Pointers, Unmarshal, held # Null PROVE heap'[held] = heap[held]
    BY DEF Decoding
  <2>1. held \in Cells /\ Fresh # held /\ Fresh \in Cells
    BY FreshCell DEF Pointers
  <2>2. heap' = Swept([heap EXCEPT ![Fresh] = EventDecoded(EventPart(wire))], {held, Fresh})
    BY DEF Unmarshal
  <2>3. heap'[held] = [heap EXCEPT ![Fresh] = EventDecoded(EventPart(wire))][held]
    BY <2>1, <2>2 DEF Swept
  <2>4. QED
    BY <2>1, <2>3 DEF Pointers
<1>2. QED
  BY PointersCorrect, <1>1, PTL DEF Spec, LeavesHeldEvent

-----------------------------------------------------------------------------
(***************************************************************************)
(* What the program has is well typed, and what was produced is the bytes  *)
(* of what was sent, through every step.                                   *)
(***************************************************************************)
IInv == Pointers /\ Held /\ OnWire /\ Produced

LEMMA InitialIInv == Init => IInv
<1> SUFFICES ASSUME Init PROVE IInv
  OBVIOUS
<1>1. Pointers
  BY Initial
<1>2. \A c \in Cells : heap[c] = EmptyEvent
  BY DEF Init
<1>3. ce.jmap = JMAP!ZeroStruct
  BY DEF Init
<1>4. Held
  BY <1>2, <1>3, EmptyTyped, ZeroJMAP DEF Held
<1>5. OnWire /\ Produced
  BY DEF Init, OnWire, Produced
<1>6. QED
  BY <1>1, <1>4, <1>5 DEF IInv

LEMMA SweptTyped ==
  ASSUME NEW cells, NEW roots, \A c \in Cells : EventTyped(cells[c])
  PROVE  \A c \in Cells : EventTyped(Swept(cells, roots)[c])
<1> SUFFICES ASSUME NEW c \in Cells PROVE EventTyped(Swept(cells, roots)[c])
  OBVIOUS
<1>1. Swept(cells, roots)[c] = IF c \in roots THEN cells[c] ELSE EmptyEvent
  BY DEF Swept
<1>2. QED
  BY <1>1, EmptyTyped

(***************************************************************************)
(* The steps that write a cell or the JMAP members.                        *)
(***************************************************************************)
LEMMA UnmarshalTyped == IInv /\ Unmarshal => Held'
<1> SUFFICES ASSUME IInv, Unmarshal PROVE Held'
  OBVIOUS
<1> DEFINE event == EventDecoded(EventPart(wire))
           cells == [heap EXCEPT ![Fresh] = event]
<1>1. /\ wire \in WireType /\ JMAPDecodes(JMAPPart(wire)) /\ EventDecodes(EventPart(wire))
      /\ heap' = Swept(cells, {held, Fresh})
      /\ ce' = [event |-> Fresh, jmap |-> JMAP!Meaning(JMAPPart(wire))]
  BY DEF Unmarshal, IInv, OnWire
<1>2. EventTyped(event)
  <2>1. EventPart(wire) \in WireType
    BY <1>1, EventPartSpec
  <2>2. QED
    BY <1>1, <2>1, DecodedTyped
<1>3. JMAPTyped(ce'.jmap)
  <2>1. JMAPPart(wire) \in WireType /\ DistinctNames(JMAPPart(wire))
    BY <1>1, JMAPPartSpec
  <2>2. ce'.jmap = JMAP!Meaning(JMAPPart(wire))
    BY <1>1
  <2>3. QED
    BY <1>1, <2>1, <2>2, JMAPDecodedTyped
<1>4. \A c \in Cells : EventTyped(cells[c])
  <2> SUFFICES ASSUME NEW c \in Cells PROVE EventTyped(cells[c])
    OBVIOUS
  <2> HIDE DEF event
  <2>1. cells[c] = IF c = Fresh THEN event ELSE heap[c]
    BY DEF IInv, Pointers
  <2>2. QED
    BY <1>2, <2>1 DEF IInv, Held
<1> HIDE DEF cells
<1>5. \A c \in Cells : EventTyped(heap'[c])
  BY <1>1, <1>4, SweptTyped
<1>6. QED
  BY <1>3, <1>5 DEF Held

LEMMA UnmarshalEventTyped == IInv /\ UnmarshalEvent => Held'
<1> SUFFICES ASSUME IInv, UnmarshalEvent PROVE Held'
  OBVIOUS
<1> DEFINE event == EventDecoded(wire)
<1>1. EventTyped(event)
  BY DecodedTyped DEF UnmarshalEvent, IInv, OnWire
<1> HIDE DEF event
<1>2. heap' = [heap EXCEPT ![held] = event] /\ ce' = ce
  BY DEF UnmarshalEvent, event
<1>3. \A c \in Cells : heap'[c] = IF c = held THEN event ELSE heap[c]
  BY <1>2 DEF IInv, Pointers
<1>4. \A c \in Cells : EventTyped(heap'[c])
  BY <1>1, <1>3 DEF IInv, Held
<1>5. QED
  BY <1>2, <1>4 DEF IInv, Held

LEMMA EditFieldTyped ==
  ASSUME IInv, held # Null, NEW f \in Known, NEW v \in Scalars \cup Sets, Fits(f, v),
         heap' = [heap EXCEPT ![held].fields[f] = v], ce' = ce
  PROVE  Held'
<1> DEFINE old == heap[held]
           fields == [old.fields EXCEPT ![f] = v]
<1>1. held \in Cells /\ EventTyped(old)
  BY DEF IInv, Held, Pointers
<1>2. v # Null /\ v \in Values
  BY CodecAssumption DEF Values
<1>3. Typed(old.fields)
  BY <1>1 DEF EventTyped
<1>4. Typed(fields)
  <2>1. fields \in [Known -> Values]
    BY <1>2, <1>3 DEF Typed
  <2>2. ASSUME NEW g \in Known
        PROVE  fields[g] \in CASE Kind[g] = "string"  -> Scalars
                               [] Kind[g] = "pointer" -> Scalars \cup {Null}
                               [] Kind[g] = "map"     -> Sets
    <3>1. Kind[g] \in {"string", "pointer", "map"}
      BY CodecAssumption
    <3>2. old.fields[g] \in CASE Kind[g] = "string"  -> Scalars
                              [] Kind[g] = "pointer" -> Scalars \cup {Null}
                              [] Kind[g] = "map"     -> Sets
      BY <1>3 DEF Typed
    <3>3. fields[g] = IF g = f THEN v ELSE old.fields[g]
      BY <1>3 DEF Typed
    <3> HIDE DEF fields, old
    <3>4. g = f => v \in IF Kind[g] = "map" THEN Sets ELSE Scalars
      BY <1>2 DEF Fits
    <3>5. CASE g = f
      <4>1. fields[g] = v
        BY <3>3, <3>5
      <4>2. CASE Kind[g] = "string"
        BY <3>4, <3>5, <4>1, <4>2
      <4>3. CASE Kind[g] = "pointer"
        BY <3>4, <3>5, <4>1, <4>3
      <4>4. CASE Kind[g] = "map"
        BY <3>4, <3>5, <4>1, <4>4
      <4>5. QED
        BY <3>1, <4>2, <4>3, <4>4
    <3>6. CASE g # f
      BY <3>2, <3>3, <3>6
    <3>7. QED
      BY <3>5, <3>6
  <2>3. QED
    BY <2>1, <2>2 DEF Typed
<1>5. heap'[held] = [fields |-> fields, extra |-> old.extra]
  <2>1. heap'[held] = [old EXCEPT !.fields[f] = v]
    BY <1>1 DEF IInv, Pointers
  <2>2. old = [fields |-> old.fields, extra |-> old.extra]
    BY <1>1 DEF EventTyped
  <2>3. QED
    BY <2>1, <2>2
<1>6. EventTyped(heap'[held])
  <2> DEFINE new == heap'[held]
  <2> HIDE DEF fields
  <2>1. new.fields = fields /\ new.extra = old.extra /\ new = [fields |-> new.fields, extra |-> new.extra]
    BY <1>5
  <2> HIDE DEF new
  <2>2. EventTyped(new)
    BY <1>1, <1>4, <2>1 DEF EventTyped
  <2>3. QED
    BY <2>2 DEF new
<1>7. \A c \in Cells : c # held => heap'[c] = heap[c]
  BY DEF IInv, Pointers
<1>8. QED
  BY <1>6, <1>7 DEF IInv, Held

LEMMA EditExtraTyped ==
  ASSUME IInv, held # Null, NEW n \in ToSet(Names), NEW v \in Scalars \cup {Broken},
         heap' = [heap EXCEPT ![held].extra =
                    [m \in DOMAIN @ \cup {n} |-> IF m = n THEN v ELSE @[m]]],
         ce' = ce
  PROVE  Held'
<1> DEFINE old == heap[held]
           extra == [m \in DOMAIN old.extra \cup {n} |-> IF m = n THEN v ELSE old.extra[m]]
<1>1. held \in Cells /\ EventTyped(old)
  BY DEF IInv, Held, Pointers
<1>2. v \in Values \cup {Broken}
  BY DEF Values
<1>3. DOMAIN extra \subseteq ToSet(Names)
  BY <1>1 DEF EventTyped
<1>4. \A m \in DOMAIN extra : extra[m] \in Values \cup {Broken}
  BY <1>1, <1>2 DEF EventTyped
<1>5. heap'[held] = [fields |-> old.fields, extra |-> extra]
  <2>1. heap'[held] = [old EXCEPT !.extra = extra]
    BY <1>1 DEF IInv, Pointers
  <2>2. old = [fields |-> old.fields, extra |-> old.extra]
    BY <1>1 DEF EventTyped
  <2> HIDE DEF extra
  <2>3. QED
    BY <2>1, <2>2
<1>6. EventTyped(heap'[held])
  <2> DEFINE new == heap'[held]
  <2> HIDE DEF extra
  <2>1. new.fields = old.fields /\ new.extra = extra /\ new = [fields |-> new.fields, extra |-> new.extra]
    BY <1>5
  <2> HIDE DEF new
  <2>2. EventTyped(new)
    BY <1>1, <1>3, <1>4, <2>1 DEF EventTyped
  <2>3. QED
    BY <2>2 DEF new
<1>7. \A c \in Cells : c # held => heap'[c] = heap[c]
  BY DEF IInv, Pointers
<1>8. QED
  BY <1>6, <1>7 DEF IInv, Held

LEMMA EditJMAPTyped ==
  ASSUME IInv, NEW f \in JMAPNames, NEW v \in Scalars \cup Sets \cup {Broken},
         JMAP!Fits(f, v) \/ (v = Broken /\ JMAPKind[f] = "pointer"),
         ce' = [ce EXCEPT !.jmap[f] = v], heap' = heap
  PROVE  Held'
<1> DEFINE old == ce.jmap
           new == [old EXCEPT ![f] = v]
<1>1. JMAPTyped(old) /\ old = [g \in JMAPNames |-> old[g]]
  BY DEF IInv, Held, JMAPTyped
<1>2. JMAPKind[f] \in {"string", "pointer", "map"}
  BY JMAPFacts
<1>3. v = Null \/ v \in JMAPType(f)
  <2>1. CASE v = Broken /\ JMAPKind[f] = "pointer"
    BY <2>1 DEF JMAPType
  <2>2. CASE JMAP!Fits(f, v)
    <3>1. v \in (IF JMAPKind[f] = "map" THEN Sets ELSE Scalars) \cup {Null}
      BY <2>2, JMAPOperators
    <3>2. CASE JMAPKind[f] = "string"
      BY <3>1, <3>2 DEF JMAPType
    <3>3. CASE JMAPKind[f] = "pointer"
      BY <3>1, <3>3 DEF JMAPType
    <3>4. CASE JMAPKind[f] = "map"
      BY <3>1, <3>4 DEF JMAPType
    <3>5. QED
      BY <1>2, <3>2, <3>3, <3>4
  <2>3. QED
    BY <2>1, <2>2
<1>4. v \in JMAPType(f)
  <2>1. v # Null
    BY CodecAssumption, WiresAssumption DEF Values
  <2>2. QED
    BY <1>3, <2>1
<1>5. ce'.jmap = new
  BY DEF IInv, Pointers
<1>6. JMAPTyped(new)
  <2>1. \A g \in JMAPNames : new[g] = IF g = f THEN v ELSE old[g]
    BY <1>1
  <2>2. DOMAIN new = JMAPNames /\ new = [g \in JMAPNames |-> new[g]]
    BY <1>1
  <2> HIDE DEF new, old
  <2>3. \A g \in JMAPNames : new[g] \in JMAPType(g)
    BY <1>1, <1>4, <2>1 DEF JMAPTyped
  <2>4. QED
    BY <2>2, <2>3 DEF JMAPTyped
<1>7. QED
  BY <1>5, <1>6 DEF IInv, Held

LEMMA MarshalProduced == IInv /\ Marshal => OnWire' /\ Produced' /\ Held'
<1> SUFFICES ASSUME IInv, Marshal PROVE OnWire' /\ Produced' /\ Held'
  OBVIOUS
<1> DEFINE event == EventOf(ce.event)
<1>1. EventTyped(event)
  <2>1. CASE ce.event = Null
    BY <2>1, EmptyTyped DEF EventOf
  <2>2. CASE ce.event # Null
    BY <2>2 DEF EventOf, IInv, Pointers, Held
  <2>3. QED
    BY <2>1, <2>2
<1>2. Held'
  <2>1. heap' = heap /\ ce' = ce
    BY DEF Marshal
  <2>2. QED
    BY <2>1 DEF IInv, Held
<1>3. CASE Encodes(event) /\ JMAPEncodes(ce.jmap)
  <2>1. /\ wire' = Merged(event, ce.jmap)
        /\ sent' = [event |-> event, jmap |-> ce.jmap]
    BY <1>3 DEF Marshal
  <2>2. Sent(event, ce.jmap)
    BY <1>1, <1>3 DEF IInv, Held, Sent
  <2>3. Merged(event, ce.jmap) \in WireType
    BY <2>2, MergedNames
  <2>4. OnWire'
    BY <2>1, <2>3 DEF OnWire
  <2> HIDE DEF event
  <2>5. sent'.event = event /\ sent'.jmap = ce.jmap
    BY <2>1
  <2>6. Produced'
    BY <2>1, <2>2, <2>5 DEF Produced, Sent
  <2>7. QED
    BY <1>2, <2>4, <2>6
<1>4. CASE ~(Encodes(event) /\ JMAPEncodes(ce.jmap))
  <2>1. wire' = wire /\ sent' = sent
    BY <1>4 DEF Marshal
  <2>2. QED
    BY <1>2, <2>1 DEF IInv, OnWire, Produced
<1>5. QED
  BY <1>3, <1>4

LEMMA HeldStep == IInv /\ [Next]_vars => Held' /\ OnWire' /\ Produced'
<1> SUFFICES ASSUME IInv, [Next]_vars PROVE Held' /\ OnWire' /\ Produced'
  OBVIOUS
<1>1. CASE Receive
  <2>1. heap' = heap /\ ce' = ce /\ wire' \in Wires /\ sent' = Null
    BY <1>1 DEF Receive
  <2>2. Held'
    BY <2>1 DEF IInv, Held
  <2>3. OnWire'
    BY <2>1, WiresAssumption DEF OnWire
  <2>4. Produced'
    BY <2>1 DEF Produced
  <2>5. QED
    BY <2>2, <2>3, <2>4
<1> DEFINE same == wire' = wire /\ sent' = sent
<1>2. same => OnWire' /\ Produced'
  BY DEF IInv, OnWire, Produced
<1>3. CASE Unmarshal
  <2>1. same
    BY <1>3 DEF Unmarshal
  <2>2. QED
    BY <1>2, <1>3, <2>1, UnmarshalTyped
<1>4. CASE UnmarshalEvent
  <2>1. same
    BY <1>4 DEF UnmarshalEvent
  <2>2. QED
    BY <1>2, <1>4, <2>1, UnmarshalEventTyped
<1>5. CASE FromEvent
  <2>1. same
    BY <1>5 DEF FromEvent
  <2>2. heap' = Swept(heap, {held}) /\ ce'.jmap = JMAP!ZeroStruct
    BY <1>5 DEF FromEvent
  <2>3. \A c \in Cells : EventTyped(heap'[c])
    BY <2>2, SweptTyped DEF IInv, Held
  <2>4. Held'
    BY <2>2, <2>3, ZeroJMAP DEF Held
  <2>5. QED
    BY <1>2, <2>1, <2>4
<1>6. CASE ToEvent
  <2>1. same
    BY <1>6 DEF ToEvent
  <2>2. heap' = Swept(heap, {ce.event}) /\ ce' = ce
    BY <1>6 DEF ToEvent
  <2>3. \A c \in Cells : EventTyped(heap'[c])
    BY <2>2, SweptTyped DEF IInv, Held
  <2>4. Held'
    BY <2>2, <2>3 DEF IInv, Held
  <2>5. QED
    BY <1>2, <2>1, <2>4
<1>7. CASE Edit
  <2>1. same
    BY <1>7 DEF Edit
  <2>2. Held'
    <3>1. CASE held # Null /\ ce' = ce
               /\ \E f \in Known, v \in Scalars \cup Sets :
                    Fits(f, v) /\ heap' = [heap EXCEPT ![held].fields[f] = v]
      BY <3>1, EditFieldTyped
    <3>2. CASE held # Null /\ ce' = ce
               /\ \E n \in ToSet(Names), v \in Scalars \cup {Broken} :
                    heap' = [heap EXCEPT ![held].extra =
                               [m \in DOMAIN @ \cup {n} |-> IF m = n THEN v ELSE @[m]]]
      BY <3>2, EditExtraTyped
    <3>3. CASE heap' = heap
               /\ \E f \in ToSet(JMAPMembers), v \in Scalars \cup Sets \cup {Broken} :
                    /\ JMAP!Fits(f, v) \/ (v = Broken /\ JMAPKind[f] = "pointer")
                    /\ ce' = [ce EXCEPT !.jmap[f] = v]
      BY <3>3, EditJMAPTyped DEF JMAPNames
    <3>4. QED
      BY <1>7, <3>1, <3>2, <3>3 DEF Edit
  <2>3. QED
    BY <1>2, <2>1, <2>2
<1>8. CASE Marshal
  BY <1>8, MarshalProduced
<1>9. CASE UNCHANGED vars
  <2>1. same /\ heap' = heap /\ ce' = ce
    BY <1>9 DEF vars
  <2>2. Held'
    BY <2>1 DEF IInv, Held
  <2>3. QED
    BY <1>2, <2>1, <2>2
<1>10. QED
  BY <1>1, <1>3, <1>4, <1>5, <1>6, <1>7, <1>8, <1>9 DEF Next

LEMMA IInvAlways == Spec => []IInv
<1>1. IInv /\ [Next]_vars => IInv'
  BY Step, HeldStep DEF IInv
<1>2. QED
  BY <1>1, InitialIInv, PTL DEF Spec

-----------------------------------------------------------------------------
(***************************************************************************)
(* The bytes CalendarEvent.MarshalJSON returns are one flat object of JSON *)
(* values led by "@type", and no name occurs twice in them if the Event    *)
(* keeps no JMAP name.                                                     *)
(***************************************************************************)
THEOREM FlatObject == Spec => []OneObject
<1>1. IInv => OneObject
  <2> SUFFICES ASSUME IInv, sent # Null
               PROVE  /\ wire # <<>> /\ Head(wire) = Member(AtType, Type)
                      /\ \A i \in DOMAIN wire : wire[i].value # Broken
                      /\ KeepsNoJMAPName(sent.event) =>
                           \A i, j \in DOMAIN wire : i # j => wire[i].name # wire[j].name
    BY DEF OneObject
  <2> DEFINE event == sent.event
             jmap == sent.jmap
  <2>1. Sent(event, jmap) /\ wire = Merged(event, jmap)
    BY DEF IInv, Produced, Sent
  <2> HIDE DEF event, jmap
  <2>2. Encoding(Encoded(event), Forced(event.fields), event.extra, Values)
    BY <2>1, MergedSpec DEF Sent
  <2>3. PICK k, l : MergedWell(wire, event, jmap, k, l)
    BY <2>1, MergedSpec DEF Sent
  <2>4. wire \in WireType /\ 1 \in DOMAIN wire /\ wire[1] = Encoded(event)[1]
    <3>1. /\ wire \in WireType /\ k \in Nat /\ l \in Nat /\ k >= 1 /\ DOMAIN wire = 1 .. k + l
          /\ \A i \in 1 .. k : wire[i] = Encoded(event)[i]
      BY <2>3 DEF MergedWell
    <3>2. 1 \in 1 .. k /\ 1 \in 1 .. k + l
      BY <3>1
    <3>3. QED
      BY <3>1, <3>2
  <2>5. wire # <<>> /\ Head(wire) = Member(AtType, Type)
    <3>1. wire[1] = Member(AtType, Type)
      BY <2>2, <2>4 DEF Encoding
    <3>2. wire # <<>>
      BY <2>4
    <3>3. Head(wire) = wire[1]
      BY <2>4, <3>2 DEF WireType
    <3>4. QED
      BY <3>1, <3>2, <3>3
  <2>6. \A i \in DOMAIN wire : wire[i].value # Broken
    BY <2>4, WireLen, WiresAssumption
  <2>7. KeepsNoJMAPName(event) => \A i, j \in DOMAIN wire : i # j => wire[i].name # wire[j].name
    BY <2>1, MergedDistinct DEF DistinctNames
  <2>8. QED
    BY <2>5, <2>6, <2>7 DEF event
<1>2. QED
  BY <1>1, IInvAlways, PTL

(***************************************************************************)
(* What a decode makes of the receiver.                                    *)
(***************************************************************************)
LEMMA DecodingMakes ==
  ASSUME IInv, Decoding
  PROVE  /\ wire \in WireType
         /\ heap'[ce'.event] = EventDecoded(EventPart(wire))
         /\ ce'.jmap = JMAP!Meaning(JMAPPart(wire))
<1> DEFINE event == EventDecoded(EventPart(wire))
<1>1. /\ wire \in WireType
      /\ heap' = Swept([heap EXCEPT ![Fresh] = event], {held, Fresh})
      /\ ce' = [event |-> Fresh, jmap |-> JMAP!Meaning(JMAPPart(wire))]
  BY DEF Decoding, Unmarshal, IInv, OnWire
<1>2. Fresh \in Cells
  BY FreshCell
<1>3. heap'[Fresh] = event
  <2> HIDE DEF event
  <2>1. [heap EXCEPT ![Fresh] = event][Fresh] = event
    BY <1>2 DEF IInv, Pointers
  <2>2. heap'[Fresh] = [heap EXCEPT ![Fresh] = event][Fresh]
    BY <1>1, <1>2 DEF Swept
  <2>3. QED
    BY <2>1, <2>2
<1>4. ce'.event = Fresh /\ ce'.jmap = JMAP!Meaning(JMAPPart(wire))
  BY <1>1
<1>5. QED
  BY <1>1, <1>3, <1>4

(***************************************************************************)
(* Decoding the bytes that were encoded gives the Event and the JMAP       *)
(* members back, where the Event keeps no JMAP name and no other spelling  *)
(* of one of its fields.                                                   *)
(***************************************************************************)
THEOREM RoundTripped == Spec => RoundTrip
<1>1. IInv /\ [Next]_vars =>
        [Decoding /\ sent # Null /\ Unambiguous(sent.event) /\ KeepsNoJMAPName(sent.event) =>
           heap'[ce'.event] = Normal(sent.event) /\ ce'.jmap = sent.jmap]_vars
  <2> SUFFICES ASSUME IInv, Decoding, sent # Null, Unambiguous(sent.event), KeepsNoJMAPName(sent.event)
               PROVE  heap'[ce'.event] = Normal(sent.event) /\ ce'.jmap = sent.jmap
    OBVIOUS
  <2>1. Sent(sent.event, sent.jmap) /\ wire = Merged(sent.event, sent.jmap)
    BY DEF IInv, Produced, Sent
  <2>2. heap'[ce'.event] = EventDecoded(EventPart(wire))
    BY DecodingMakes
  <2>3. ce'.jmap = JMAP!Meaning(JMAPPart(wire))
    BY DecodingMakes
  <2>4. EventDecoded(EventPart(wire)) = Normal(sent.event)
    BY <2>1, EventBack
  <2>5. JMAP!Meaning(JMAPPart(wire)) = sent.jmap
    BY <2>1, JMAPBack
  <2>6. QED
    BY <2>2, <2>3, <2>4, <2>5
<1>2. QED
  BY IInvAlways, <1>1, PTL DEF Spec, RoundTrip

-----------------------------------------------------------------------------
(***************************************************************************)
(* What the Event's part of a wire is to the core codec: the members no    *)
(* JMAP name has, in another order and each name once.                     *)
(***************************************************************************)
Others(w) == Selected(w, {m \in ToSet(w) : m.name \notin ToSet(JMAPMembers)})

LEMMA OthersSpec ==
  ASSUME NEW w \in WireType, Regular(w)
  PROVE  /\ Others(w) \in WireType /\ Lone(Others(w))
         /\ \A n \in DOMAIN Others(w) :
              \E k \in DOMAIN w : Others(w)[n] = w[k] /\ w[k].name \notin JMAPNames
         /\ \A k \in DOMAIN w :
              w[k].name \notin JMAPNames => \E n \in DOMAIN Others(w) : Others(w)[n] = w[k]
<1> DEFINE M == [name : ToSet(Names), value : Values]
           set == {m \in ToSet(w) : m.name \notin JMAPNames}
           sel == Selected(w, set)
<1>1. Others(w) = sel
  BY DEF Others, JMAPNames
<1>2. w \in Seq(M)
  BY DEF WireType
<1> HIDE DEF M
<1>3. InOrder(sel, w, set, M)
  <2> HIDE DEF set, sel
  <2>1. QED
    BY <1>2, SelectedSpec DEF sel
<1>4. \A k \in DOMAIN w : w[k] \in set <=> w[k].name \notin JMAPNames
  BY DEF ToSet
<1> DEFINE at(n) == Position(w, set, n)
<1>5. /\ \A n \in DOMAIN sel : at(n) \in DOMAIN w /\ sel[n] = w[at(n)]
      /\ \A m, n \in DOMAIN sel : m < n => at(m) < at(n)
      /\ \A k \in DOMAIN w : w[k] \in set => \E n \in DOMAIN sel : sel[n] = w[k]
      /\ sel \in Seq(M \cap set)
  <2> HIDE DEF set, sel
  <2>1. QED
    BY <1>3, Zenon DEF InOrder
<1>6. sel \in Seq(M) /\ \A n \in DOMAIN sel : sel[n] \in set
  <2> HIDE DEF set, sel
  <2>1. QED
    BY <1>5
<1>7. DOMAIN sel \subseteq Int /\ DOMAIN w \subseteq Int
  <2> HIDE DEF sel
  <2>1. QED
    BY <1>2, <1>6
<1>8. Lone(sel)
  <2> SUFFICES ASSUME NEW m \in DOMAIN sel, NEW n \in DOMAIN sel, m # n
               PROVE  sel[m].name # sel[n].name /\ FieldsFor(sel[m].name) \cap FieldsFor(sel[n].name) = {}
    BY DEF Lone
  <2> HIDE DEF sel, set, at
  <2>1. m < n \/ n < m
    BY <1>7
  <2>2. at(m) # at(n)
    BY <1>5, <1>7, <2>1
  <2>3. /\ at(m) \in DOMAIN w /\ at(n) \in DOMAIN w
        /\ sel[m] = w[at(m)] /\ sel[n] = w[at(n)]
    BY <1>5
  <2>4. \A i, j \in DOMAIN w : i # j =>
          w[i].name # w[j].name /\ FieldsFor(w[i].name) \cap FieldsFor(w[j].name) = {}
    BY DEF Regular
  <2>5. /\ w[at(m)].name # w[at(n)].name
        /\ FieldsFor(w[at(m)].name) \cap FieldsFor(w[at(n)].name) = {}
    BY <2>2, <2>3, <2>4
  <2>6. QED
    BY <2>3, <2>5
<1> HIDE DEF sel, at
<1>9. \A n \in DOMAIN sel : \E k \in DOMAIN w : sel[n] = w[k] /\ w[k].name \notin JMAPNames
  BY <1>4, <1>5, <1>6
<1>10. \A k \in DOMAIN w : w[k].name \notin JMAPNames => \E n \in DOMAIN sel : sel[n] = w[k]
  BY <1>4, <1>5
<1>11. QED
  BY <1>1, <1>6, <1>8, <1>9, <1>10 DEF M, WireType

LEMMA PartLone ==
  ASSUME NEW w \in WireType, Regular(w)
  PROVE  Lone(EventPart(w))
<1> DEFINE part == EventPart(w)
<1>1. /\ DistinctNames(part)
      /\ \A i \in DOMAIN part : part[i].name \in NamesOf(w)
  BY EventPartSpec
<1> HIDE DEF part
<1> SUFFICES ASSUME NEW i \in DOMAIN part, NEW j \in DOMAIN part, i # j
             PROVE  part[i].name # part[j].name /\ FieldsFor(part[i].name) \cap FieldsFor(part[j].name) = {}
  BY DEF Lone, part
<1>2. part[i].name # part[j].name
  BY <1>1 DEF DistinctNames
<1>3. PICK k \in DOMAIN w : w[k].name = part[i].name
  BY <1>1 DEF NamesOf
<1>4. PICK l \in DOMAIN w : w[l].name = part[j].name
  BY <1>1 DEF NamesOf
<1>5. QED
  BY <1>2, <1>3, <1>4 DEF Regular

LEMMA PartAgrees ==
  ASSUME NEW w \in WireType, Regular(w)
  PROVE  EventDecoded(EventPart(w)) = EventDecoded(Others(w))
<1> DEFINE part == EventPart(w)
           others == Others(w)
<1>1. /\ part \in WireType
      /\ \A i \in DOMAIN part : /\ part[i].name \in NamesOf(w) \ JMAPNames
                                /\ part[i].value = LastOf(w, part[i].name)
      /\ \A n \in NamesOf(w) \ JMAPNames : \E i \in DOMAIN part : part[i].name = n
  BY EventPartSpec
<1>2. /\ others \in WireType /\ Lone(others)
      /\ \A n \in DOMAIN others : \E k \in DOMAIN w : others[n] = w[k] /\ w[k].name \notin JMAPNames
      /\ \A k \in DOMAIN w : w[k].name \notin JMAPNames => \E n \in DOMAIN others : others[n] = w[k]
  BY OthersSpec
<1>3. Lone(part)
  BY PartLone
<1> HIDE DEF part, others
<1>4. Within(part, others)
  <2> SUFFICES ASSUME NEW i \in DOMAIN part
               PROVE  \E j \in DOMAIN others : others[j].name = part[i].name /\ others[j].value = part[i].value
    BY DEF Within
  <2>1. PICK k \in DOMAIN w : w[k].name = part[i].name /\ LastOf(w, part[i].name) = w[k].value
    BY <1>1, NamesTyped
  <2>2. PICK n \in DOMAIN others : others[n] = w[k]
    BY <1>1, <1>2, <2>1
  <2>3. QED
    BY <1>1, <2>1, <2>2
<1>5. Within(others, part)
  <2> SUFFICES ASSUME NEW n \in DOMAIN others
               PROVE  \E j \in DOMAIN part : part[j].name = others[n].name /\ part[j].value = others[n].value
    BY DEF Within
  <2>1. PICK k \in DOMAIN w : others[n] = w[k] /\ w[k].name \notin JMAPNames
    BY <1>2
  <2>2. w[k].name \in NamesOf(w) \ JMAPNames
    BY <2>1 DEF NamesOf
  <2>3. PICK j \in DOMAIN part : part[j].name = w[k].name
    BY <1>1, <2>2
  <2>4. LastOf(w, w[k].name) = w[k].value
    BY LoneLast DEF Regular
  <2>5. QED
    BY <1>1, <2>1, <2>3, <2>4
<1>6. Meaning(part) = Meaning(others) /\ Captured(part) = Captured(others)
  BY <1>1, <1>2, <1>3, <1>4, <1>5, SameMembers
<1>7. QED
  BY <1>6 DEF EventDecoded, part, others

(***************************************************************************)
(* The Event's part holds no JMAP name, and a JMAP member is the last      *)
(* value that the wire has under its name, or its zero value.              *)
(***************************************************************************)
LEMMA PartKeepsNone ==
  ASSUME NEW w \in WireType
  PROVE  KeepsNoJMAPName(EventDecoded(EventPart(w)))
<1> DEFINE part == EventPart(w)
<1>1. \A i \in DOMAIN part : part[i].name \notin JMAPNames
  BY EventPartSpec
<1>2. EventDecoded(part).extra = Captured(part)
  BY DEF EventDecoded
<1>3. DOMAIN Captured(part) \subseteq {part[i].name : i \in DOMAIN part}
  BY DEF Captured, Unknown
<1>4. QED
  BY <1>1, <1>2, <1>3 DEF KeepsNoJMAPName, JMAPNames

LEMMA JMAPFromWire ==
  ASSUME NEW w \in WireType, NEW f \in JMAPNames
  PROVE  JMAP!Meaning(JMAPPart(w))[f] =
           IF f \in NamesOf(w) /\ LastOf(w, f) # Null THEN LastOf(w, f) ELSE JMAP!Unset(f)
<1> DEFINE part == JMAPPart(w)
<1>1. /\ part \in WireType /\ DistinctNames(part)
      /\ \A i \in DOMAIN part : /\ part[i].name \in NamesOf(w)
                                /\ part[i].value = LastOf(w, part[i].name)
      /\ f \in NamesOf(w) => \E i \in DOMAIN part : part[i].name = f
  BY JMAPPartSpec
<1> HIDE DEF part
<1>2. CASE f \notin NamesOf(w)
  <2>1. \A i \in DOMAIN part : part[i].name # f
    BY <1>1, <1>2
  <2>2. JMAP!Meaning(part)[f] = JMAP!Unset(f)
    BY <1>1, <2>1, JMAPMeaning DEF DistinctNames
  <2>3. QED
    BY <1>2, <2>2 DEF part
<1>3. CASE f \in NamesOf(w)
  <2>1. PICK i \in DOMAIN part : part[i].name = f
    BY <1>1, <1>3
  <2>2. MeansOne(JMAP!Meaning(part)[f], JMAP!Unset(f), part[i].value)
    BY <1>1, <2>1, JMAPMeaning DEF DistinctNames
  <2>3. part[i].value = LastOf(w, f)
    BY <1>1, <2>1
  <2>4. QED
    BY <1>3, <2>2, <2>3 DEF MeansOne, part
<1>4. QED
  BY <1>2, <1>3

(***************************************************************************)
(* The split of the wire between the two codecs is faithful to both.       *)
(***************************************************************************)
THEOREM SplitAgrees == Spec => AgreesWithCore
<1>1. IInv /\ [Next]_vars =>
        [Decoding =>
           LET others == Selected(wire, {m \in ToSet(wire) : m.name \notin ToSet(JMAPMembers)})
           IN  /\ KeepsNoJMAPName(heap'[ce'.event])
               /\ Regular(wire) => heap'[ce'.event] = EventDecoded(others)
               /\ \A f \in ToSet(JMAPMembers) :
                    ce'.jmap[f] = IF f \in NamesOf(wire) /\ LastOf(wire, f) # Null
                                  THEN LastOf(wire, f) ELSE JMAP!Unset(f)]_vars
  <2> SUFFICES ASSUME IInv, Decoding
               PROVE  /\ KeepsNoJMAPName(heap'[ce'.event])
                      /\ Regular(wire) => heap'[ce'.event] = EventDecoded(Others(wire))
                      /\ \A f \in ToSet(JMAPMembers) :
                           ce'.jmap[f] = IF f \in NamesOf(wire) /\ LastOf(wire, f) # Null
                                         THEN LastOf(wire, f) ELSE JMAP!Unset(f)
    BY DEF Others
  <2>1. /\ wire \in WireType
        /\ heap'[ce'.event] = EventDecoded(EventPart(wire))
        /\ ce'.jmap = JMAP!Meaning(JMAPPart(wire))
    BY DecodingMakes
  <2>2. KeepsNoJMAPName(heap'[ce'.event])
    BY <2>1, PartKeepsNone
  <2>3. Regular(wire) => heap'[ce'.event] = EventDecoded(Others(wire))
    BY <2>1, PartAgrees
  <2>4. ASSUME NEW f \in JMAPNames
        PROVE  ce'.jmap[f] = IF f \in NamesOf(wire) /\ LastOf(wire, f) # Null
                             THEN LastOf(wire, f) ELSE JMAP!Unset(f)
    BY <2>1, JMAPFromWire
  <2>5. QED
    BY <2>2, <2>3, <2>4 DEF JMAPNames
<1>2. QED
  BY IInvAlways, <1>1, PTL DEF Spec, AgreesWithCore

=============================================================================
