---------------------------- MODULE ObjectCodec ----------------------------
(***************************************************************************)
(* The codec of the three top-level objects (codec.go, extra.go): an       *)
(* object a program holds, the wire it is decoded from and encoded to, and *)
(* the Extra map that carries the members the struct does not model.  The  *)
(* decode goes member by member, as encoding/json does: a name that no     *)
(* field has exactly is tried again without regard to case.                *)
(***************************************************************************)
EXTENDS MemberCodec

CONSTANTS
  NotObject, \* a wire that is not a JSON object
  Wires,     \* what a peer may send
  MaxTurns   \* bound on the wires received and the edits made

ASSUME WiresAssumption ==
  /\ \A w \in Wires : w = NotObject \/ w \in WireType
  /\ Null \notin WireType

ASSUME TurnsAssumption == MaxTurns \in Nat

VARIABLES
  wire,     \* the bytes last received or produced: a sequence of members
  at,       \* the member being decoded, 0 when no decode runs
  alias,    \* the struct the running decode fills
  object,   \* the program's object: [fields, extra]
  sent,     \* the object whose bytes the wire is, Null when the wire is a peer's
  source,   \* the wire the object was decoded from, Null once it was edited
  turns     \* wires received and edits made

vars == <<wire, at, alias, object, sent, source, turns>>

-----------------------------------------------------------------------------
Init ==
  /\ wire = NotObject
  /\ at = 0
  /\ alias = ZeroStruct
  /\ object = [fields |-> ZeroStruct, extra |-> NoExtra]
  /\ sent = Null
  /\ source = Null
  /\ turns = 0

(***************************************************************************)
(* A peer's bytes arrive; the program decodes them, or the bytes it has    *)
(* just produced, into its object.                                         *)
(***************************************************************************)
Receive ==
  /\ at = 0
  /\ turns < MaxTurns
  /\ wire' \in Wires
  /\ turns' = turns + 1
  /\ sent' = Null
  /\ UNCHANGED <<at, alias, object, source>>

Unmarshal ==
  /\ at = 0
  /\ wire # NotObject
  /\ at' = 1
  /\ alias' = ZeroStruct
  /\ UNCHANGED <<wire, object, sent, source, turns>>

(***************************************************************************)
(* One member.  A value of another type than its field's fails the decode, *)
(* which leaves the object alone.                                          *)
(***************************************************************************)
DecodeMember ==
  /\ at > 0 /\ at <= Len(wire)
  /\ LET into  == FieldsFor(wire[at].name)
         value == wire[at].value
     IN  IF \A f \in into : Fits(f, value)
         THEN /\ alias' = [f \in Known |->
                             IF f \in into THEN Stored(f, alias[f], value) ELSE alias[f]]
              /\ at' = at + 1
         ELSE alias' = ZeroStruct /\ at' = 0
  /\ UNCHANGED <<wire, object, sent, source, turns>>

FinishDecodeKeepingExtra ==
  /\ at > 0 /\ at = Len(wire) + 1
  /\ object' = [fields |-> Forced(alias),
                extra  |-> IF Unknown(wire) = {} THEN object.extra ELSE Captured(wire)]
  /\ source' = wire
  /\ at' = 0
  /\ alias' = ZeroStruct
  /\ UNCHANGED <<wire, sent, turns>>

(***************************************************************************)
(* captureExtra, setType and the assignment of the object.                 *)
(***************************************************************************)
FinishDecode ==
  /\ at > 0 /\ at = Len(wire) + 1
  /\ object' = [fields |-> Forced(alias), extra |-> Captured(wire)]
  /\ source' = wire
  /\ at' = 0
  /\ alias' = ZeroStruct
  /\ UNCHANGED <<wire, sent, turns>>

(***************************************************************************)
(* The program assigns a field or a member of Extra, whatever its name.    *)
(***************************************************************************)
Edit ==
  /\ at = 0
  /\ turns < MaxTurns
  /\ \/ \E f \in Known, v \in Scalars \cup Sets \cup {Null} :
          /\ Fits(f, v) /\ (Kind[f] = "pointer" \/ v # Null)
          /\ object' = [object EXCEPT !.fields[f] = v]
     \/ \E n \in ToSet(Names), v \in Scalars \cup {Null, Broken} :
          object' = [object EXCEPT !.extra =
                       [m \in DOMAIN @ \cup {n} |-> IF m = n THEN v ELSE @[m]]]
  /\ turns' = turns + 1
  /\ source' = Null
  /\ UNCHANGED <<wire, at, alias, sent>>

(***************************************************************************)
(* An Extra member that is no JSON fails the encode, which yields no bytes.*)
(***************************************************************************)
Marshal ==
  /\ at = 0
  /\ \/ Encodes(object) /\ wire' = Encoded(object) /\ sent' = object
     \/ ~Encodes(object) /\ UNCHANGED <<wire, sent>>
  /\ UNCHANGED <<at, alias, object, source, turns>>

Next == Receive \/ Unmarshal \/ DecodeMember \/ FinishDecode \/ Edit \/ Marshal

Spec == Init /\ [][Next]_vars

-----------------------------------------------------------------------------
(***************************************************************************)
(* Every value has its type.  In particular no bytes but JSON reach the    *)
(* wire, whatever the program put into Extra, and a field only ever holds  *)
(* a value of its own kind.                                                *)
(***************************************************************************)
TypeOK ==
  /\ wire = NotObject \/ wire \in WireType
  /\ at \in 0 .. (IF wire = NotObject THEN 0 ELSE Len(wire) + 1)
  /\ Typed(alias) /\ Typed(object.fields)
  /\ DOMAIN object.extra \subseteq ToSet(Names)
  /\ \A n \in DOMAIN object.extra : object.extra[n] \in Values \cup {Broken}
  /\ source = Null \/ source \in WireType
  /\ turns \in 0 .. MaxTurns

(***************************************************************************)
(* UnmarshalJSON replaces the object as a whole or not at all: the program *)
(* sees what a well-typed wire means, in its fields and in Extra, with     *)
(* nothing of the object that was there, and no trace of a decode that     *)
(* fails half way.                                                         *)
(***************************************************************************)
IsLast(w, i) == \A j \in DOMAIN w : j > i => w[j].name # w[i].name

DecodesWhole ==
  [][(object' # object /\ turns' = turns) =>
       /\ \A i \in DOMAIN wire : \A f \in FieldsFor(wire[i].name) :
            Fits(f, wire[i].value)
       /\ object'.fields = [Meaning(wire) EXCEPT ![AtType] = Type]
       /\ DOMAIN object'.extra = {wire[i].name : i \in DOMAIN wire} \ Known
       /\ \A i \in DOMAIN wire :
            wire[i].name \notin Known /\ IsLast(wire, i)
              => object'.extra[wire[i].name] = wire[i].value]_vars

(***************************************************************************)
(* MarshalJSON emits a well-formed object whatever the program holds:      *)
(* "@type" leads and has the type's value, no name occurs twice, the known *)
(* members are in declaration order and the others follow in sorted order. *)
(***************************************************************************)
WellFormed ==
  sent # Null =>
    /\ wire # <<>> /\ wire[1] = Member(AtType, Type)
    /\ \A i, j \in DOMAIN wire : i < j =>
         \/ Follows(Fields, wire[j].name, wire[i].name)
         \/ wire[i].name \in Known /\ wire[j].name \notin Known
         \/ /\ wire[i].name \notin Known /\ wire[j].name \notin Known
            /\ Follows(Names, wire[j].name, wire[i].name)

(***************************************************************************)
(* Decoding what was encoded gives the object back, with its discriminator *)
(* set and without the members of Extra that a field is authoritative for. *)
(* It needs Extra to hold no other spelling of a field's name.             *)
(***************************************************************************)
RoundTrip ==
  [][(at > 0 /\ at' = 0 /\ sent # Null /\ Unambiguous(sent)) =>
       object' = Normal(sent)]_vars

(***************************************************************************)
(* The bytes are stable: an object decoded from its own encoding and not   *)
(* changed since is encoded to the same bytes.                             *)
(***************************************************************************)
ByteStable ==
  [][(sent # Null /\ Unambiguous(sent) /\ source = wire
       /\ sent' # Null /\ at' = 0 /\ at = 0 /\ turns' = turns) => wire' = wire]_vars

(***************************************************************************)
(* A member no field has exactly survives a decode and an encode: once,    *)
(* with the value it had last.                                             *)
(***************************************************************************)
Preserved ==
  (source # Null /\ sent # Null /\ sent = object) =>
    \A i \in DOMAIN source :
      (source[i].name \notin Known /\ IsLast(source, i)) =>
        Cardinality({k \in DOMAIN wire : wire[k].name = source[i].name}) = 1
          /\ \E k \in DOMAIN wire : wire[k] = source[i]

(***************************************************************************)
(* What the documentation of Extra says: input round-trips losslessly.  An *)
(* object decoded from any wire, encoded and decoded again is the same.    *)
(***************************************************************************)
Lossless ==
  [][(at > 0 /\ at' = 0 /\ sent # Null /\ source # Null /\ sent = object) =>
       object' = object]_vars

=============================================================================
