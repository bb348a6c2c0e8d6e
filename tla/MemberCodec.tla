---------------------------- MODULE MemberCodec ----------------------------
(***************************************************************************)
(* The members of one JSON object against the fields of a struct and the   *)
(* Extra map beside them (codec.go, extra.go): what a name is decoded      *)
(* into, what a wire means, and how the two are encoded.                   *)
(***************************************************************************)
EXTENDS Integers, SequencesExt

CONSTANTS
  Fields,    \* the JSON names of the struct's fields in declaration order, "@type" first
  Kind,      \* of each: "string", "pointer" or "map"
  Variants,  \* other spellings that match a field but for case: name |-> field
  Names,     \* every member name, in sorted order
  Type,      \* the discriminator of the object's type
  Zero,      \* the zero value of a string, bool or number
  Scalars,   \* JSON values a string or pointer field takes, Type and Zero among them
  Sets,      \* JSON values a map field takes: sets of entries
  Null,      \* JSON null, and Go's nil
  Broken     \* bytes that are no JSON value

Known == ToSet(Fields)
AtType == Head(Fields)

ASSUME CodecAssumption ==
  /\ Names \in Seq(ToSet(Names)) /\ Fields \in Seq(ToSet(Names)) /\ Fields # <<>>
  /\ IsInjective(Fields) /\ IsInjective(Names)
  /\ Kind \in [Known -> {"string", "pointer", "map"}]
  /\ Kind[AtType] = "string"
  /\ DOMAIN Variants \subseteq ToSet(Names) \ Known
  /\ \A n \in DOMAIN Variants : Variants[n] \in Known
  /\ {Type, Zero} \subseteq Scalars /\ Type # Zero /\ Null \notin Scalars \cup Sets
  /\ {} \in Sets /\ \A s, t \in Sets : s \cup t \in Sets

Unset(f) ==
  CASE Kind[f] = "string"  -> Zero
    [] Kind[f] = "pointer" -> Null
    [] Kind[f] = "map"     -> {}

ZeroStruct == [f \in Known |-> Unset(f)]

Values == Scalars \cup Sets \cup {Null}

WireType == Seq([name : ToSet(Names), value : Values])

Typed(fields) ==
  /\ fields \in [Known -> Values]
  /\ \A f \in Known : fields[f] \in CASE Kind[f] = "string"  -> Scalars
                                     [] Kind[f] = "pointer" -> Scalars \cup {Null}
                                     [] Kind[f] = "map"     -> Sets

NoExtra    == [n \in {} |-> Null]

-----------------------------------------------------------------------------
(***************************************************************************)
(* The field encoding/json decodes a name into: none for an unknown name.  *)
(***************************************************************************)
FieldsFor(name) ==
  IF name \in Known THEN {name}
  ELSE {Variants[n] : n \in DOMAIN Variants \cap {name}}

Fits(f, value) == value \in (IF Kind[f] = "map" THEN Sets ELSE Scalars) \cup {Null}

(***************************************************************************)
(* What a value does to a field: null leaves a string as it is and clears  *)
(* a pointer or map, entries are added to a map already there.             *)
(***************************************************************************)
Stored(f, old, value) ==
  CASE Kind[f] = "string"  -> IF value = Null THEN old ELSE value
    [] Kind[f] = "pointer" -> value
    [] Kind[f] = "map"     -> IF value = Null THEN {} ELSE old \cup value

(***************************************************************************)
(* captureExtra: the last value of every name that is not exactly a        *)
(* field's.                                                                *)
(***************************************************************************)
LastOf(w, name) ==
  LET i == CHOOSE j \in DOMAIN w : /\ w[j].name = name
                                   /\ \A k \in DOMAIN w : w[k].name = name => k <= j
  IN  w[i].value

Unknown(w) == {w[i].name : i \in DOMAIN w} \ Known

CapturedFirst(w) ==
  [n \in Unknown(w) |->
     LET i == CHOOSE j \in DOMAIN w : /\ w[j].name = n
                                      /\ \A k \in DOMAIN w : w[k].name = n => k >= j
     IN  w[i].value]

CapturedAll(w) == [n \in {w[i].name : i \in DOMAIN w} |-> LastOf(w, n)]

Captured(w) == [n \in Unknown(w) |-> LastOf(w, n)]

(***************************************************************************)
(* The elements of a sequence that are in a set, in their order: the n-th  *)
(* is the one with n hits up to it.  (SelectSeq, without its recursion.)   *)
(***************************************************************************)
Hits(s, set) == {i \in DOMAIN s : s[i] \in set}

Rank(s, set, i) == Cardinality({j \in Hits(s, set) : j <= i})

Selected(s, set) ==
  [n \in 1 .. Cardinality(Hits(s, set)) |->
     s[CHOOSE i \in Hits(s, set) : Rank(s, set, i) = n]]

(***************************************************************************)
(* The default struct encoding, less zero values, then withoutKnownMembers *)
(* and the sorted splice of the rest of Extra.                             *)
(***************************************************************************)
ForcedWhenUnset(fields) ==
  [fields EXCEPT ![AtType] = IF @ = Zero THEN Type ELSE @]

Forced(fields) == [fields EXCEPT ![AtType] = Type]

Member(name, value) == [name |-> name, value |-> value]

KnownPart(fields) ==
  LET present == Selected(Fields, {f \in Known : fields[f] # Unset(f)})
  IN  [i \in DOMAIN present |-> Member(present[i], fields[present[i]])]

ExtraPartUnfiltered(extra) ==
  LET kept == Selected(Names, DOMAIN extra)
  IN  [i \in DOMAIN kept |-> Member(kept[i], extra[kept[i]])]

ExtraPart(extra) ==
  LET kept == Selected(Names, DOMAIN extra \ Known)
  IN  [i \in DOMAIN kept |-> Member(kept[i], extra[kept[i]])]

EncodesAnything(obj) == DOMAIN obj.extra \subseteq ToSet(Names)

Encodes(obj) == \A n \in DOMAIN obj.extra \ Known : obj.extra[n] # Broken

Encoded(obj) == KnownPart(Forced(obj.fields)) \o ExtraPart(obj.extra)

(***************************************************************************)
(* What decoding a wire means, without decoding it: a string field takes   *)
(* the last value that is not null, a pointer the last, a map the entries  *)
(* since the last null.                                                    *)
(***************************************************************************)
Carriers(w, f) == {i \in DOMAIN w : f \in FieldsFor(w[i].name)}

Holding(w, f) == {i \in Carriers(w, f) : w[i].value # Null}

ValueOf(w, positions, default) ==
  IF positions = {} THEN default ELSE w[Max(positions)].value

MeaningFor(w, f) ==
  CASE Kind[f] = "string"  -> ValueOf(w, Holding(w, f), Zero)
    [] Kind[f] = "pointer" -> ValueOf(w, Carriers(w, f), Null)
    [] Kind[f] = "map"     ->
         UNION {w[i].value : i \in {j \in Holding(w, f) :
           \A k \in Carriers(w, f) : k > j => k \in Holding(w, f)}}

Meaning(w) == [f \in Known |-> MeaningFor(w, f)]

(***************************************************************************)
(* One name comes after another in a list of names.                        *)
(***************************************************************************)
Follows(names, n, m) ==
  \E i, j \in DOMAIN names : i < j /\ names[i] = m /\ names[j] = n

(***************************************************************************)
(* What an encode keeps of an object, and the objects whose Extra holds no *)
(* other spelling of a field's name.                                       *)
(***************************************************************************)
Unmodelled(extra) == [n \in DOMAIN extra \ Known |-> extra[n]]

Normal(obj) ==
  [fields |-> [obj.fields EXCEPT ![AtType] = Type], extra |-> Unmodelled(obj.extra)]

Unambiguous(obj) == DOMAIN obj.extra \cap DOMAIN Variants = {}

=============================================================================
