--------------------------- MODULE CalendarEvent ---------------------------
(***************************************************************************)
(* The JMAP CalendarEvent (jmap/calendarevent.go, jmap/codec.go): a        *)
(* pointer to an Event and the members JMAP adds, one flat object on the   *)
(* wire.  The Event is shared with the program through FromEvent and       *)
(* ToEvent, so that events live in cells and the program holds the address *)
(* of one.  The parameters of MemberCodec are those of Event; JMAP! is the *)
(* codec of jmapOnly.                                                      *)
(***************************************************************************)
EXTENDS MemberCodec

CONSTANTS
  JMAPMembers, \* the names of jmapOnly's fields in declaration order
  JMAPKind,    \* of each: "string", "pointer" or "map"
  Cells,       \* the addresses an Event may have
  NotObject,   \* a wire that is not a JSON object
  Wires,       \* what a peer may send
  MaxTurns     \* bound on the wires received and the edits made

NoVariants == [n \in {} |-> n]

JMAP == INSTANCE MemberCodec WITH Fields <- JMAPMembers, Kind <- JMAPKind, Variants <- NoVariants

ASSUME CalendarEventAssumption ==
  /\ JMAPMembers \in Seq(ToSet(Names) \ (Known \cup DOMAIN Variants))
  /\ IsInjective(JMAPMembers) /\ JMAPKind \in [ToSet(JMAPMembers) -> {"string", "pointer", "map"}]
  /\ Cardinality(Cells) >= 3 /\ Null \notin Cells
  /\ MaxTurns \in Nat

(***************************************************************************)
(* A peer sends JSON, which Broken is not.                                 *)
(***************************************************************************)
ASSUME WiresAssumption ==
  /\ \A w \in Wires : w = NotObject \/ w \in WireType
  /\ Broken \notin Values

VARIABLES
  wire,   \* the bytes last received or produced: a sequence of members
  heap,   \* the Event in each cell
  held,   \* the Event the program has a pointer to
  ce,     \* its CalendarEvent: [event, jmap], the first a pointer
  sent,   \* the Event and the members whose bytes the wire is, Null when a peer's
  turns   \* wires received and edits made

vars == <<wire, heap, held, ce, sent, turns>>

EmptyEvent == [fields |-> ZeroStruct, extra |-> NoExtra]

(***************************************************************************)
(* The garbage collector: what nobody points to is gone.                   *)
(***************************************************************************)
Swept(cells, roots) == [c \in Cells |-> IF c \in roots THEN cells[c] ELSE EmptyEvent]

-----------------------------------------------------------------------------
(***************************************************************************)
(* The members of a wire by name, the last of each, in sorted order: what  *)
(* a decode into a map and its re-encoding leave.                          *)
(***************************************************************************)
NamesOf(w) == {w[i].name : i \in DOMAIN w}

Collapsed(w, names) ==
  LET sorted == Selected(Names, names)
  IN  [i \in DOMAIN sorted |-> Member(sorted[i], LastOf(w, sorted[i]))]

JMAPPartOutOfSync(w) == Collapsed(w, NamesOf(w) \cap ToSet(Front(JMAPMembers)))

JMAPPart(w) == Collapsed(w, NamesOf(w) \cap ToSet(JMAPMembers))

EventPartWhole(w) == Collapsed(w, NamesOf(w))

EventPart(w) == Collapsed(w, NamesOf(w) \ ToSet(JMAPMembers))

(***************************************************************************)
(* The decode of a part by encoding/json and, for the Event, by the core   *)
(* codec.                                                                  *)
(***************************************************************************)
EventDecodes(w) == \A i \in DOMAIN w : \A f \in FieldsFor(w[i].name) : Fits(f, w[i].value)

EventDecoded(w) == [fields |-> Forced(Meaning(w)), extra |-> Captured(w)]

JMAPDecodes(w) == \A i \in DOMAIN w : JMAP!Fits(w[i].name, w[i].value)

FreshOrReceivers ==
  IF ce.event # Null THEN ce.event ELSE CHOOSE c \in Cells \ {held} : TRUE

Fresh == CHOOSE c \in Cells \ {held, ce.event} : TRUE

-----------------------------------------------------------------------------
Init ==
  /\ wire = NotObject
  /\ heap = [c \in Cells |-> EmptyEvent]
  /\ held = CHOOSE c \in Cells : TRUE
  /\ ce = [event |-> Null, jmap |-> JMAP!ZeroStruct]
  /\ sent = Null /\ turns = 0

Receive ==
  /\ turns < MaxTurns
  /\ wire' \in Wires
  /\ turns' = turns + 1
  /\ sent' = Null
  /\ UNCHANGED <<heap, held, ce>>

(***************************************************************************)
(* CalendarEvent.UnmarshalJSON: the receiver becomes a new value with an   *)
(* Event of its own, or stays what it was.                                 *)
(***************************************************************************)
Unmarshal ==
  /\ wire # NotObject
  /\ JMAPDecodes(JMAPPart(wire)) /\ EventDecodes(EventPart(wire))
  /\ LET cell == Fresh
     IN  /\ heap' = Swept([heap EXCEPT ![cell] = EventDecoded(EventPart(wire))], {held, cell})
         /\ ce' = [event |-> cell, jmap |-> JMAP!Meaning(JMAPPart(wire))]
  /\ UNCHANGED <<wire, held, sent, turns>>

(***************************************************************************)
(* The core codec on the program's own Event: the members JMAP adds are    *)
(* unknown to it.                                                          *)
(***************************************************************************)
UnmarshalEvent ==
  /\ wire # NotObject /\ held # Null
  /\ EventDecodes(wire)
  /\ heap' = [heap EXCEPT ![held] = EventDecoded(wire)]
  /\ UNCHANGED <<wire, held, ce, sent, turns>>

FromEvent ==
  /\ ce' = [event |-> held, jmap |-> JMAP!ZeroStruct]
  /\ heap' = Swept(heap, {held})
  /\ UNCHANGED <<wire, held, sent, turns>>

ToEvent ==
  /\ held' = ce.event
  /\ heap' = Swept(heap, {ce.event})
  /\ UNCHANGED <<wire, ce, sent, turns>>

(***************************************************************************)
(* The program assigns to the Event it holds, or to a JMAP member; Broken  *)
(* is a value whose own MarshalJSON fails.                                 *)
(***************************************************************************)
Edit ==
  /\ turns < MaxTurns
  /\ turns' = turns + 1
  /\ \/ /\ held # Null
        /\ \/ \E f \in Known, v \in Scalars \cup Sets :
                Fits(f, v) /\ heap' = [heap EXCEPT ![held].fields[f] = v]
           \/ \E n \in ToSet(Names), v \in Scalars \cup {Broken} :
                heap' = [heap EXCEPT ![held].extra =
                           [m \in DOMAIN @ \cup {n} |-> IF m = n THEN v ELSE @[m]]]
        /\ UNCHANGED ce
     \/ /\ \E f \in ToSet(JMAPMembers), v \in Scalars \cup Sets \cup {Broken} :
             /\ JMAP!Fits(f, v) \/ (v = Broken /\ JMAPKind[f] = "pointer")
             /\ ce' = [ce EXCEPT !.jmap[f] = v]
        /\ UNCHANGED heap
  /\ UNCHANGED <<wire, held, sent>>

(***************************************************************************)
(* CalendarEvent.MarshalJSON: the bytes of the Event, of an empty one if   *)
(* there is none, with the JMAP members that are set at their end.         *)
(***************************************************************************)
EventOf(event) == IF event = Null THEN EmptyEvent ELSE heap[event]

JMAPEncodes(jmap) == \A f \in DOMAIN jmap : jmap[f] # Broken

JMAPFirst(event, jmap) == JMAP!KnownPart(jmap) \o Encoded(event)

Merged(event, jmap) == Encoded(event) \o JMAP!KnownPart(jmap)

Marshal ==
  /\ LET event == EventOf(ce.event)
     IN  IF Encodes(event) /\ JMAPEncodes(ce.jmap)
         THEN /\ wire' = Merged(event, ce.jmap)
              /\ sent' = [event |-> event, jmap |-> ce.jmap]
         ELSE UNCHANGED <<wire, sent>>
  /\ UNCHANGED <<heap, held, ce, turns>>

Next ==
  \/ Receive \/ Unmarshal \/ UnmarshalEvent
  \/ FromEvent \/ ToEvent \/ Edit \/ Marshal

Spec == Init /\ [][Next]_vars

-----------------------------------------------------------------------------
(***************************************************************************)
(* One flat object: whatever the program did, no bytes but JSON reach the  *)
(* wire, "@type" leads, and no name occurs twice if the Event keeps no     *)
(* JMAP name in its Extra.  (An Event that the core codec decoded from the *)
(* same wire does; its member is then there a second time.)                *)
(***************************************************************************)
KeepsNoJMAPName(event) == DOMAIN event.extra \cap ToSet(JMAPMembers) = {}

OneObject ==
  sent # Null =>
    /\ wire # <<>> /\ Head(wire) = Member(AtType, Type)
    /\ \A i \in DOMAIN wire : wire[i].value # Broken
    /\ KeepsNoJMAPName(sent.event) =>
         \A i, j \in DOMAIN wire : i # j => wire[i].name # wire[j].name

Decoding == ce' # ce /\ turns' = turns /\ Unmarshal

(***************************************************************************)
(* A decode is to the receiver alone: the Event the program holds, which   *)
(* may be the one the receiver had, is not written.                        *)
(***************************************************************************)
LeavesHeldEvent ==
  [][Decoding /\ held # Null => heap'[held] = heap[held]]_vars

(***************************************************************************)
(* What the split hands on is decoded as it would be on its own: a JMAP    *)
(* member is the last value that the wire has under its name, and unset    *)
(* only if there is none or null; none of them reaches the Event, and the  *)
(* Event is the one the core codec makes of the other members (where no    *)
(* name is repeated and no field is spelled in two ways: the split keeps   *)
(* only the last member of a name and sorts them).                         *)
(***************************************************************************)
Regular(w) ==
  \A i, j \in DOMAIN w : i # j =>
    w[i].name # w[j].name /\ FieldsFor(w[i].name) \cap FieldsFor(w[j].name) = {}

AgreesWithCore ==
  [][Decoding =>
       LET others == Selected(wire, {m \in ToSet(wire) : m.name \notin ToSet(JMAPMembers)})
       IN  /\ KeepsNoJMAPName(heap'[ce'.event])
           /\ Regular(wire) => heap'[ce'.event] = EventDecoded(others)
           /\ \A f \in ToSet(JMAPMembers) :
                ce'.jmap[f] = IF f \in NamesOf(wire) /\ LastOf(wire, f) # Null
                              THEN LastOf(wire, f) ELSE JMAP!Unset(f)]_vars

(***************************************************************************)
(* Decoding what was encoded gives the value back, up to the discriminator *)
(* and what a field or a JMAP member is authoritative for.                 *)
(***************************************************************************)
RoundTrip ==
  [][Decoding /\ sent # Null /\ Unambiguous(sent.event) /\ KeepsNoJMAPName(sent.event) =>
       heap'[ce'.event] = Normal(sent.event) /\ ce'.jmap = sent.jmap]_vars

(***************************************************************************)
(* jmap/calendarevent.go on BaseEventID: a pointer so that a JSON null is  *)
(* distinguishable from an absent member.  A null of the wire is still     *)
(* there when what was decoded is encoded again.                           *)
(***************************************************************************)
KeepsNull ==
  [][Decoding =>
       \A f \in ToSet(JMAPMembers) :
         f \in NamesOf(wire) /\ JMAPKind[f] = "pointer" /\ LastOf(wire, f) = Null
         => f \in NamesOf(Merged(heap'[ce'.event], ce'.jmap))]_vars

=============================================================================
