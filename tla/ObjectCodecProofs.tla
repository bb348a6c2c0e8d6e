------------------------- MODULE ObjectCodecProofs -------------------------
(***************************************************************************)
(* Proofs about ObjectCodec, for every set of fields, names and values and *)
(* every wire: a decode replaces the object as a whole, an encode is well  *)
(* formed, and decoding an encoding gives the object back.  The invariant  *)
(* follows the running decode member by member.                            *)
(***************************************************************************)
EXTENDS ObjectCodec, MemberCodecProofs

(***************************************************************************)
(* The struct a decode fills is what the members it has read mean, and     *)
(* they all fit; the wire a sent object left is its encoding; an object    *)
(* not edited since its decode is what its wire means.                     *)
(***************************************************************************)
FitsAt(i) == \A f \in FieldsFor(wire[i].name) : Fits(f, wire[i].value)

Reading ==
  at > 0 => /\ wire \in WireType
            /\ alias = Meaning(Prefix(wire, at - 1))
            /\ \A i \in 1 .. at - 1 : FitsAt(i)

Produced ==
  sent # Null => /\ wire = Encoded(sent) /\ wire \in WireType
                 /\ Typed(sent.fields)
                 /\ DOMAIN sent.extra \subseteq ToSet(Names)

MeantBy(w) == [fields |-> Forced(Meaning(w)), extra |-> Captured(w)]

Unedited == source # Null => object = MeantBy(source)

Shape == object = [fields |-> object.fields, extra |-> object.extra]

ObjectTyped(obj) ==
  /\ Typed(obj.fields) /\ DOMAIN obj.extra \subseteq ToSet(Names)
  /\ \A n \in DOMAIN obj.extra : obj.extra[n] \in Values \cup {Broken}
  /\ obj = [fields |-> obj.fields, extra |-> obj.extra]

IInv == TypeOK /\ Reading /\ Produced /\ Unedited /\ Shape

-----------------------------------------------------------------------------
(***************************************************************************)
(* The wire an encode leaves has its type and is an Encoding of the object.*)
(***************************************************************************)
LEMMA EncodedWire ==
  ASSUME NEW obj, Typed(obj.fields), DOMAIN obj.extra \subseteq ToSet(Names)
  PROVE  \E Vals : Encoding(Encoded(obj), Forced(obj.fields), obj.extra, Vals)
<1> DEFINE Vals == Values \cup {obj.extra[n] : n \in DOMAIN obj.extra}
<1>1. Type \in Vals /\ \A f \in Known : obj.fields[f] \in Vals
  BY CodecAssumption DEF Typed, Values
<1>2. \A n \in DOMAIN obj.extra \ Known : obj.extra[n] \in Vals
  OBVIOUS
<1> HIDE DEF Vals
<1>3. Encoding(Encoded(obj), Forced(obj.fields), obj.extra, Vals)
  BY <1>1, <1>2, ForcedTyped, EncodedSpec
<1>4. QED
  BY <1>3

LEMMA EncodedTyped ==
  ASSUME TypeOK, Encodes(object)
  PROVE  Encoded(object) \in WireType
<1>1. Type \in Values /\ \A f \in Known : object.fields[f] \in Values
  BY CodecAssumption DEF TypeOK, Typed, Values
<1>2. \A n \in DOMAIN object.extra \ Known : object.extra[n] \in Values
  BY DEF TypeOK, Encodes
<1>3. Encoding(Encoded(object), Forced(object.fields), object.extra, Values)
  BY <1>1, <1>2, ForcedTyped, EncodedSpec DEF TypeOK
<1>4. QED
  BY <1>3 DEF Encoding, Carries, WireType

(***************************************************************************)
(* Decoding the encoding of an object without other spellings gives what   *)
(* an encode keeps of it, and every member on the way fits.                *)
(***************************************************************************)
LEMMA EncodedMeans ==
  ASSUME NEW obj, Typed(obj.fields), DOMAIN obj.extra \subseteq ToSet(Names),
         Unambiguous(obj)
  PROVE  /\ MeantBy(Encoded(obj)) = Normal(obj)
         /\ \A i \in DOMAIN Encoded(obj) : \A f \in FieldsFor(Encoded(obj)[i].name) :
              Fits(f, Encoded(obj)[i].value)
<1> DEFINE w == Encoded(obj)
           fields == Forced(obj.fields)
<1>1. PICK Vals : Encoding(w, fields, obj.extra, Vals)
  BY EncodedWire
<1>2. Typed(fields) /\ Forced(fields) = fields
  BY ForcedTyped
<1>3. DOMAIN obj.extra \cap DOMAIN Variants = {}
  BY DEF Unambiguous
<1> HIDE DEF w, fields
<1>4. Meaning(w) = fields
  BY <1>1, <1>2, <1>3, CarriedMeans DEF Encoding
<1>5. Captured(w) = Unmodelled(obj.extra)
  BY <1>1, CarriedCaptured DEF Encoding
<1>6. MeantBy(w) = Normal(obj)
  <2>1. Normal(obj) = [fields |-> fields, extra |-> Unmodelled(obj.extra)]
    BY DEF Normal, Forced, fields
  <2>2. QED
    BY <1>2, <1>4, <1>5, <2>1 DEF MeantBy
<1>7. ASSUME NEW i \in DOMAIN w, NEW f \in FieldsFor(w[i].name)
      PROVE  Fits(f, w[i].value)
  BY <1>1, <1>2, <1>3, CarriedFits, FieldsForKnown DEF Encoding
<1>8. QED
  BY <1>6, <1>7 DEF w

-----------------------------------------------------------------------------
(***************************************************************************)
(* The invariant holds at first and is kept by every action.               *)
(***************************************************************************)
LEMMA InitIInv == Init => IInv
<1> SUFFICES ASSUME Init PROVE IInv
  OBVIOUS
<1>1. TypeOK
  BY ZeroTyped, TurnsAssumption DEF Init, TypeOK, NoExtra
<1>2. Reading /\ Produced /\ Unedited /\ Shape
  BY DEF Init, Reading, Produced, Unedited, Shape
<1>3. QED
  BY <1>1, <1>2 DEF IInv

LEMMA StepIInv == IInv /\ [Next]_vars => IInv'
<1> SUFFICES ASSUME IInv, [Next]_vars PROVE IInv'
  OBVIOUS
<1> USE DEF IInv
<1>1. CASE Receive
  <2>1. wire' = NotObject \/ wire' \in WireType
    BY <1>1, WiresAssumption DEF Receive
  <2>2. at' = 0 /\ turns' \in 0 .. MaxTurns
    BY <1>1, TurnsAssumption DEF Receive, TypeOK
  <2>3. at' \in 0 .. (IF wire' = NotObject THEN 0 ELSE Len(wire') + 1)
    BY <2>1, <2>2, WireLen
  <2>4. TypeOK'
    BY <1>1, <2>1, <2>2, <2>3 DEF Receive, TypeOK
  <2>5. Reading' /\ Produced'
    BY <1>1, <2>2 DEF Receive, Reading, Produced
  <2>6. Unedited' /\ Shape'
    BY <1>1 DEF Receive, Unedited, Shape, MeantBy
  <2>7. QED
    BY <2>4, <2>5, <2>6
<1>2. CASE Unmarshal
  <2>1. wire \in WireType /\ wire' = wire /\ wire # NotObject
    BY <1>2 DEF Unmarshal, TypeOK
  <2>2. at' = 1 /\ at' \in 0 .. Len(wire) + 1
    BY <1>2, <2>1, WireLen DEF Unmarshal
  <2>3. TypeOK'
    BY <1>2, <2>1, <2>2, ZeroTyped DEF Unmarshal, TypeOK
  <2>4. alias' = Meaning(Prefix(wire, 0))
    BY <1>2, EmptyMeaning DEF Unmarshal
  <2>5. at' - 1 = 0 /\ 1 .. at' - 1 = {}
    BY <2>2
  <2>6. Reading'
    BY <2>1, <2>4, <2>5 DEF Reading
  <2>7. Produced' /\ Unedited' /\ Shape'
    BY <1>2 DEF Unmarshal, Produced, Unedited, Shape, MeantBy
  <2>8. QED
    BY <2>3, <2>6, <2>7
<1>3. CASE DecodeMember
  <2> DEFINE into == FieldsFor(wire[at].name)
             value == wire[at].value
  <2>1. /\ wire \in WireType /\ wire' = wire /\ at \in 1 .. Len(wire) /\ Len(wire) \in Nat
        /\ wire # NotObject
    BY <1>3, WireLen DEF DecodeMember, TypeOK, Reading
  <2>2. CASE \A f \in into : Fits(f, value)
    <3>1. /\ alias' = [f \in Known |->
                         IF f \in into THEN Stored(f, alias[f], value) ELSE alias[f]]
          /\ at' = at + 1
      BY <1>3, <2>2 DEF DecodeMember
    <3>2. Typed(alias')
      <4>1. ASSUME NEW f \in Known
            PROVE  /\ alias'[f] \in Values
                   /\ alias'[f] \in CASE Kind[f] = "string"  -> Scalars
                                      [] Kind[f] = "pointer" -> Scalars \cup {Null}
                                      [] Kind[f] = "map"     -> Sets
        <5>1. CASE f \in into
          <6>1. alias'[f] = Stored(f, alias[f], value) /\ Fits(f, value) /\ Typed(alias)
            BY <2>2, <3>1, <5>1 DEF TypeOK
          <6>2. QED
            BY <6>1, StoredTyped
        <5>2. CASE f \notin into
          BY <3>1, <5>2 DEF TypeOK, Typed
        <5>3. QED
          BY <5>1, <5>2
      <4>2. alias' \in [Known -> Values]
        BY <3>1, <4>1
      <4>3. QED
        BY <4>1, <4>2 DEF Typed
    <3>3. at' \in 0 .. Len(wire) + 1
      BY <2>1, <3>1
    <3>4. TypeOK'
      BY <1>3, <2>1, <3>2, <3>3 DEF DecodeMember, TypeOK
    <3>5. alias = Meaning(Prefix(wire, at - 1)) /\ \A i \in 1 .. at - 1 : FitsAt(i)
      BY <2>1 DEF Reading
    <3>6. alias' = Meaning(Prefix(wire, at))
      <4> DEFINE n == at - 1
      <4>1. n \in Nat /\ n + 1 = at
        BY <2>1
      <4>2. ASSUME NEW f \in Known PROVE alias'[f] = Meaning(Prefix(wire, at))[f]
        <5>1. Meaning(Prefix(wire, n + 1))[f] =
                IF f \in FieldsFor(wire[n + 1].name)
                THEN Stored(f, Meaning(Prefix(wire, n))[f], wire[n + 1].value)
                ELSE Meaning(Prefix(wire, n))[f]
          <6> HIDE DEF n
          <6>1. QED
            BY <4>1, NextMeaning
        <5>2. QED
          BY <3>1, <3>5, <4>1, <5>1
      <4>3. Meaning(Prefix(wire, at)) = [f \in Known |-> Meaning(Prefix(wire, at))[f]]
        BY DEF Meaning
      <4>4. alias' = [f \in Known |-> alias'[f]]
        BY <3>1
      <4>5. QED
        BY <4>2, <4>3, <4>4, Zenon
    <3>7. \A i \in 1 .. at : FitsAt(i)
      <4>1. FitsAt(at)
        BY <2>2 DEF FitsAt
      <4>2. \A i \in 1 .. at : i \in 1 .. at - 1 \/ i = at
        BY <2>1
      <4>3. QED
        BY <3>5, <4>1, <4>2
    <3>8. at' - 1 = at
      BY <2>1, <3>1
    <3>9. Reading'
      BY <2>1, <3>6, <3>7, <3>8 DEF Reading, FitsAt
    <3>10. Produced' /\ Unedited' /\ Shape'
      BY <1>3 DEF DecodeMember, Produced, Unedited, Shape, MeantBy
    <3>11. QED
      BY <3>4, <3>9, <3>10
  <2>3. CASE ~(\A f \in into : Fits(f, value))
    <3>1. alias' = ZeroStruct /\ at' = 0
      BY <1>3, <2>3 DEF DecodeMember
    <3>2. TypeOK'
      BY <1>3, <2>1, <3>1, ZeroTyped DEF DecodeMember, TypeOK
    <3>3. Reading'
      BY <3>1 DEF Reading
    <3>4. Produced' /\ Unedited' /\ Shape'
      BY <1>3 DEF DecodeMember, Produced, Unedited, Shape, MeantBy
    <3>5. QED
      BY <3>2, <3>3, <3>4
  <2>4. QED
    BY <2>2, <2>3
<1>4. CASE FinishDecode
  <2>1. /\ wire \in WireType /\ wire' = wire /\ at = Len(wire) + 1 /\ Len(wire) \in Nat
        /\ wire # NotObject
    BY <1>4, WireLen DEF FinishDecode, TypeOK, Reading
  <2>2. alias = Meaning(wire)
    <3>1. at - 1 = Len(wire) /\ at > 0
      BY <2>1
    <3>2. QED
      BY <2>1, <3>1, PrefixWhole DEF Reading
  <2>3. object' = MeantBy(wire) /\ source' = wire /\ at' = 0 /\ alias' = ZeroStruct
    BY <1>4, <2>2 DEF FinishDecode, MeantBy
  <2>4. object'.fields = Forced(alias) /\ object'.extra = Captured(wire)
        /\ object' = [fields |-> object'.fields, extra |-> object'.extra]
    BY <1>4 DEF FinishDecode
  <2>5. /\ Typed(object'.fields) /\ DOMAIN object'.extra \subseteq ToSet(Names)
        /\ \A n \in DOMAIN object'.extra : object'.extra[n] \in Values \cup {Broken}
    BY <2>1, <2>4, ForcedTyped, CapturedTyped DEF TypeOK
  <2>6. TypeOK'
    BY <1>4, <2>1, <2>3, <2>5, ZeroTyped DEF FinishDecode, TypeOK
  <2>7. Reading' /\ Unedited' /\ Shape'
    BY <2>3, <2>4 DEF Reading, Unedited, Shape, MeantBy
  <2>8. Produced'
    BY <1>4 DEF FinishDecode, Produced
  <2>9. QED
    BY <2>6, <2>7, <2>8
<1>5. CASE Edit
  <2>1. /\ UNCHANGED <<wire, at, alias, sent>> /\ at = 0 /\ source' = Null
        /\ turns' \in 0 .. MaxTurns
    BY <1>5, TurnsAssumption DEF Edit, TypeOK
  <2>2. ObjectTyped(object')
    <3>1. ASSUME NEW f \in Known, NEW v \in Scalars \cup Sets \cup {Null},
                 Fits(f, v), Kind[f] = "pointer" \/ v # Null,
                 object' = [object EXCEPT !.fields[f] = v]
          PROVE  ObjectTyped(object')
      <4> DEFINE new == [object.fields EXCEPT ![f] = v]
      <4>1. object' = [fields |-> new, extra |-> object.extra]
        BY <3>1 DEF Shape
      <4>2. v \in Values /\ object.fields \in [Known -> Values]
        BY DEF Values, TypeOK, Typed
      <4>3. new \in [Known -> Values]
        BY <4>2
      <4>4. v \in CASE Kind[f] = "string"  -> Scalars
                    [] Kind[f] = "pointer" -> Scalars \cup {Null}
                    [] Kind[f] = "map"     -> Sets
        <5>1. Kind[f] \in {"string", "pointer", "map"}
          BY CodecAssumption
        <5>2. QED
          BY <3>1, <5>1 DEF Fits
      <4>5. Typed(new)
        <5>1. new[f] = v /\ \A g \in Known : g # f => new[g] = object.fields[g]
          BY <4>2
        <5> HIDE DEF new
        <5>2. ASSUME NEW g \in Known
              PROVE  new[g] \in CASE Kind[g] = "string"  -> Scalars
                                  [] Kind[g] = "pointer" -> Scalars \cup {Null}
                                  [] Kind[g] = "map"     -> Sets
          <6>1. CASE g = f
            BY <4>4, <5>1, <6>1
          <6>2. CASE g # f
            BY <5>1, <6>2 DEF TypeOK, Typed
          <6>3. QED
            BY <6>1, <6>2
        <5>3. QED
          BY <4>3, <5>2 DEF Typed
      <4> HIDE DEF new
      <4>6. object'.fields = new /\ object'.extra = object.extra
        BY <4>1
      <4>7. QED
        BY <4>1, <4>5, <4>6 DEF TypeOK, ObjectTyped
    <3>2. ASSUME NEW n \in ToSet(Names), NEW v \in Scalars \cup {Null, Broken},
                 object' = [object EXCEPT !.extra =
                              [m \in DOMAIN @ \cup {n} |-> IF m = n THEN v ELSE @[m]]]
          PROVE  ObjectTyped(object')
      <4> DEFINE new == [m \in DOMAIN object.extra \cup {n} |->
                           IF m = n THEN v ELSE object.extra[m]]
      <4>1. object' = [fields |-> object.fields, extra |-> new]
        BY <3>2 DEF Shape
      <4>2. DOMAIN new \subseteq ToSet(Names) /\ \A m \in DOMAIN new : new[m] \in Values \cup {Broken}
        BY DEF TypeOK, Values
      <4> HIDE DEF new
      <4>3. object'.fields = object.fields /\ object'.extra = new
        BY <4>1
      <4>4. QED
        BY <4>1, <4>2, <4>3 DEF TypeOK, ObjectTyped
    <3>3. QED
      BY <1>5, <3>1, <3>2 DEF Edit
  <2>3. TypeOK'
    BY <2>1, <2>2 DEF TypeOK, ObjectTyped
  <2>4. Reading' /\ Produced' /\ Unedited' /\ Shape'
    BY <2>1, <2>2 DEF ObjectTyped, Reading, Produced, Unedited, Shape, MeantBy
  <2>5. QED
    BY <2>3, <2>4
<1>6. CASE Marshal
  <2>1. UNCHANGED <<at, alias, object, source, turns>> /\ at = 0
    BY <1>6 DEF Marshal
  <2>2. Unedited' /\ Shape' /\ Reading'
    BY <2>1 DEF Unedited, Shape, Reading, MeantBy
  <2>3. CASE Encodes(object) /\ wire' = Encoded(object) /\ sent' = object
    <3>1. wire' \in WireType
      BY <2>3, EncodedTyped
    <3>2. at' \in 0 .. (IF wire' = NotObject THEN 0 ELSE Len(wire') + 1)
      BY <2>1, <3>1, WireLen
    <3>3. TypeOK'
      BY <2>1, <3>1, <3>2 DEF TypeOK
    <3>4. Produced'
      BY <2>3, <3>1 DEF Produced, TypeOK
    <3>5. QED
      BY <2>2, <3>3, <3>4
  <2>4. CASE UNCHANGED <<wire, sent>>
    BY <2>1, <2>2, <2>4 DEF TypeOK, Produced
  <2>5. QED
    BY <1>6, <2>3, <2>4 DEF Marshal
<1>7. CASE UNCHANGED vars
  BY <1>7 DEF vars, TypeOK, Reading, FitsAt, Produced, Unedited, Shape, MeantBy
<1>8. QED
  BY <1>1, <1>2, <1>3, <1>4, <1>5, <1>6, <1>7 DEF Next

(***************************************************************************)
(* The invariant holds in every state, for any wires and fields.           *)
(***************************************************************************)
THEOREM Inductive == Spec => []IInv
BY InitIInv, StepIInv, PTL DEF Spec

(***************************************************************************)
(* Every value has its type: no bytes but JSON reach the wire and a field  *)
(* only ever holds a value of its own kind (codec.go, extra.go).           *)
(***************************************************************************)
THEOREM TypeCorrect == Spec => []TypeOK
BY Inductive, PTL DEF IInv

-----------------------------------------------------------------------------
(***************************************************************************)
(* The last step of a decode assigns what the whole wire means.            *)
(***************************************************************************)
LEMMA FinishMeans ==
  ASSUME IInv, FinishDecode
  PROVE  /\ object' = MeantBy(wire)
         /\ \A i \in DOMAIN wire : FitsAt(i)
<1>1. wire \in WireType /\ at = Len(wire) + 1 /\ Len(wire) \in Nat /\ DOMAIN wire = 1 .. Len(wire)
  BY WireLen DEF IInv, FinishDecode, Reading
<1>2. at - 1 = Len(wire) /\ at > 0
  BY <1>1
<1>3. alias = Meaning(wire) /\ \A i \in 1 .. at - 1 : FitsAt(i)
  BY <1>1, <1>2, PrefixWhole DEF IInv, Reading
<1>4. QED
  BY <1>1, <1>2, <1>3 DEF FinishDecode, MeantBy

(***************************************************************************)
(* A decode replaces the object, its fields and its Extra, by what the     *)
(* whole wire means, or leaves it as it is (the UnmarshalJSON methods of   *)
(* codec.go).                                                              *)
(***************************************************************************)
THEOREM ReplacedWhole == Spec => DecodesWhole
<1> DEFINE Replaced ==
      (object' # object /\ turns' = turns) =>
        /\ \A i \in DOMAIN wire : \A f \in FieldsFor(wire[i].name) : Fits(f, wire[i].value)
        /\ object'.fields = [Meaning(wire) EXCEPT ![AtType] = Type]
        /\ DOMAIN object'.extra = {wire[i].name : i \in DOMAIN wire} \ Known
        /\ \A i \in DOMAIN wire :
             wire[i].name \notin Known /\ IsLast(wire, i)
               => object'.extra[wire[i].name] = wire[i].value
<1>1. IInv /\ [Next]_vars => [Replaced]_vars
  <2> SUFFICES ASSUME IInv, [Next]_vars, object' # object, turns' = turns
               PROVE  Replaced
    OBVIOUS
  <2>1. CASE FinishDecode
    <3>1. object' = MeantBy(wire) /\ \A i \in DOMAIN wire : FitsAt(i)
      BY <2>1, FinishMeans
    <3>2. \A i \in DOMAIN wire : IsLast(wire, i) => LastOf(wire, wire[i].name) = wire[i].value
      <4>1. wire \in Seq([name : ToSet(Names), value : Values])
        BY <2>1, WireLen DEF IInv, FinishDecode, Reading, WireType
      <4> DEFINE M == [name : ToSet(Names), value : Values]
      <4> HIDE DEF M
      <4>2. wire \in Seq(M)
        BY <4>1 DEF M
      <4>3. QED
        BY <4>2, LastOfSpec DEF IsLast
    <3>3. QED
      BY <3>1, <3>2 DEF FitsAt, MeantBy, Forced, Captured, Unknown
  <2>2. CASE Edit
    BY <2>2 DEF Edit, IInv, TypeOK
  <2>3. CASE Receive \/ Unmarshal \/ DecodeMember \/ Marshal \/ UNCHANGED vars
    BY <2>3 DEF Receive, Unmarshal, DecodeMember, Marshal, vars
  <2>4. QED
    BY <2>1, <2>2, <2>3 DEF Next
<1>2. QED
  BY <1>1, Inductive, PTL DEF Spec, DecodesWhole

(***************************************************************************)
(* An encode is well formed (the MarshalJSON methods, withoutKnownMembers  *)
(* and the splice of Extra).                                               *)
(***************************************************************************)
THEOREM EncodesWellFormed == Spec => []WellFormed
<1>1. IInv => WellFormed
  <2> SUFFICES ASSUME IInv, sent # Null PROVE WellFormed
    BY DEF WellFormed
  <2>1. PICK Vals : Encoding(wire, Forced(sent.fields), sent.extra, Vals)
    BY EncodedWire DEF IInv, Produced
  <2>2. QED
    BY <2>1 DEF Encoding, Carries, WellFormed
<1>2. QED
  BY <1>1, Inductive, PTL

(***************************************************************************)
(* Decoding what was encoded gives the object back (UnmarshalJSON after    *)
(* MarshalJSON), when Extra holds no other spelling of a field's name.     *)
(***************************************************************************)
THEOREM RoundTrips == Spec => RoundTrip
<1> DEFINE Returned ==
      (at > 0 /\ at' = 0 /\ sent # Null /\ Unambiguous(sent)) => object' = Normal(sent)
<1>1. IInv /\ [Next]_vars => [Returned]_vars
  <2> SUFFICES ASSUME IInv, [Next]_vars, at > 0, at' = 0, sent # Null, Unambiguous(sent)
               PROVE  object' = Normal(sent)
    OBVIOUS
  <2>1. /\ wire = Encoded(sent)
        /\ MeantBy(wire) = Normal(sent)
        /\ \A i \in DOMAIN wire : FitsAt(i)
    BY EncodedMeans DEF IInv, Produced, FitsAt
  <2>2. CASE FinishDecode
    BY <2>1, <2>2, FinishMeans
  <2>3. CASE DecodeMember
    <3>1. at \in DOMAIN wire /\ at \in Nat
      BY <2>3, WireLen DEF DecodeMember, IInv, Reading, TypeOK
    <3>2. at' = at + 1
      BY <2>1, <2>3, <3>1 DEF DecodeMember, FitsAt
    <3>3. QED
      BY <3>1, <3>2
  <2>4. CASE Receive \/ Unmarshal \/ Edit \/ Marshal \/ UNCHANGED vars
    BY <2>4 DEF Receive, Unmarshal, Edit, Marshal, vars, IInv, TypeOK
  <2>5. QED
    BY <2>2, <2>3, <2>4 DEF Next
<1>2. QED
  BY <1>1, Inductive, PTL DEF Spec, RoundTrip

(***************************************************************************)
(* An object decoded from its own encoding is encoded to the same bytes.   *)
(***************************************************************************)
THEOREM BytesStable == Spec => ByteStable
<1> DEFINE Same ==
      (sent # Null /\ Unambiguous(sent) /\ source = wire
        /\ sent' # Null /\ at' = 0 /\ at = 0 /\ turns' = turns) => wire' = wire
<1>1. IInv /\ [Next]_vars => [Same]_vars
  <2> SUFFICES ASSUME IInv, [Next]_vars, sent # Null, Unambiguous(sent), source = wire,
                      sent' # Null, at' = 0, at = 0, turns' = turns
               PROVE  wire' = wire
    OBVIOUS
  <2>1. CASE Marshal
    <3>1. CASE Encodes(object) /\ wire' = Encoded(object)
      <4>1. wire = Encoded(sent) /\ MeantBy(wire) = Normal(sent) /\ DOMAIN sent.fields = Known
        BY EncodedMeans, ForcedTyped DEF IInv, Produced
      <4>2. object = Normal(sent)
        <5>1. source # Null
          BY WiresAssumption DEF IInv, Produced
        <5>2. QED
          BY <4>1, <5>1 DEF IInv, Unedited
      <4>3. QED
        BY <3>1, <4>1, <4>2, EncodedNormal
    <3>2. CASE UNCHANGED wire
      BY <3>2
    <3>3. QED
      BY <2>1, <3>1, <3>2 DEF Marshal
  <2>2. CASE Receive \/ Unmarshal \/ Edit \/ DecodeMember \/ FinishDecode \/ UNCHANGED vars
    BY <2>2 DEF Receive, Unmarshal, Edit, DecodeMember, FinishDecode, vars, IInv, TypeOK
  <2>3. QED
    BY <2>1, <2>2 DEF Next
<1>2. QED
  BY <1>1, Inductive, PTL DEF Spec, ByteStable


(***************************************************************************)
(* A member no field has exactly survives a decode and an encode, once and *)
(* with its last value (captureExtra and the splice of Extra).             *)
(***************************************************************************)
THEOREM UnknownPreserved == Spec => []Preserved
<1>1. IInv => Preserved
  <2> SUFFICES ASSUME IInv, source # Null, sent # Null, sent = object,
                      NEW i \in DOMAIN source, source[i].name \notin Known,
                      IsLast(source, i)
               PROVE  /\ Cardinality({k \in DOMAIN wire : wire[k].name = source[i].name}) = 1
                      /\ \E k \in DOMAIN wire : wire[k] = source[i]
    BY DEF Preserved
  <2> DEFINE n == source[i].name
             M == [name : ToSet(Names), value : Values]
  <2>1. source \in Seq(M) /\ source \in WireType /\ wire \in Seq(M)
    BY DEF IInv, TypeOK, WireType, Produced
  <2>2. object.extra = Captured(source) /\ DOMAIN object.extra \subseteq ToSet(Names)
    BY DEF IInv, TypeOK, Unedited, MeantBy
  <2>3. n \in DOMAIN object.extra \ Known /\ object.extra[n] = LastOf(source, n)
    BY <2>2 DEF Captured, Unknown
  <2>4. LastOf(source, n) = source[i].value
    <3> HIDE DEF M
    <3>1. QED
      BY <2>1, LastOfSpec DEF IsLast
  <2>5. PICK Vals : Encoding(wire, Forced(object.fields), object.extra, Vals)
    BY EncodedWire DEF IInv, Produced
  <2>6. PICK k \in DOMAIN wire : wire[k].name = n
    BY <2>2, <2>3, <2>5 DEF Encoding, Carries
  <2>7. wire[k].value = source[i].value
    BY <2>3, <2>4, <2>5, <2>6 DEF Encoding, Carries
  <2>8. wire[k] = source[i]
    <3>1. wire[k] \in M /\ source[i] \in M
      <4> HIDE DEF M
      <4>1. QED
        BY <2>1
    <3>2. QED
      BY <2>6, <2>7, <3>1
  <2>9. {j \in DOMAIN wire : wire[j].name = n} = {k}
    <3>1. /\ \A m, l \in DOMAIN wire : m < l => wire[m].name # wire[l].name
          /\ DOMAIN wire \subseteq Nat
      BY <2>5 DEF Encoding, Carries
    <3>2. ASSUME NEW j \in DOMAIN wire, wire[j].name = n PROVE j = k
      BY <2>6, <3>1, <3>2
    <3>3. QED
      BY <2>6, <3>2
  <2>10. QED
    BY <2>8, <2>9, FS_Singleton
<1>2. QED
  BY <1>1, Inductive, PTL

=============================================================================
