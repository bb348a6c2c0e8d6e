# go-jscalendar in TLA+

A verification development of `hstern/go-jscalendar`, a Go library for the
JSCalendar data model (RFC 8984): TLA+ modules translated from its source, TLC
runs that check them on small instances, and TLAPS proofs that hold for every
value of the constants. `PROJECT.json` is the index: which definition models
which lines (`map`), what each run checks (`runs`), the bug of the code each
property would notice (`mutants`), the hazards and the properties that cover
them, and where the code and its documentation disagree (`findings`).

## 1. The system

The library is passive. It starts no goroutine, keeps no state between calls
but a cache of member names, and persists nothing; every exported function runs
on its caller's goroutine and waits for nobody. There are no messages, crashes
or timeouts to model. What makes the code hard is elsewhere:

- **order that nobody fixes.** Go walks maps in random order; the code adds,
  removes and reports through them. Sorts are over bytes where the meaning is in
  decoded tokens or numbers, or unstable where two elements tie.
- **partial failure inside one call.** A patch fails at its third key, a decode
  at its last member, an expansion at the second rule, an export at the third
  object. The caller must see all or nothing.
- **two readings of the same data.** A field and an unknown member may claim
  one JSON member; a wall-clock value and an instant stand for one occurrence; a
  TZID may name a zone of the database and one the calendar defines; a bytewise
  and a tokenwise order compare one key.
- **sharing.** A CalendarEvent points to an Event its program may hold.
- **long sequences of legal calls.** Decode, edit, encode, decode again; export,
  import, export again.
- **numeric edges.** Half-open against closed windows, zero as "absent", index
  and duration arithmetic in machine integers, time-zone gaps and folds.

| Component | State | Operations | Talks to |
|---|---|---|---|
| recurrence expansion (`recur/recur.go`, `recur/rrule.go`) | per call: the set under construction, the override map still to walk, the sorted ids, the instances built | `Occurrences`, `TaskOccurrences` | patch application (one call per overridden instance), the object codec (stripped copy and decode), the external rrule-go engine, the zone database |
| patch application (`recur/patch.go`) | per call: the decoded document, the keys left | `ApplyPatch` | patch keys (shared pointer syntax) |
| patch keys (`patch.go`) | per call: the keys left | `PatchObject.Validate`, `ValidatePatchKey`, `ValidatePointer` | validation calls `ValidatePatchKey` for each pointer |
| object codec (`codec.go`, `extra.go`, `types.go`) | the object a program holds, its `Extra` | `MarshalJSON`, `UnmarshalJSON` of Event, Task, Group, and edits of the fields | encoding/json; the sub-object codecs share `marshalKnown`/`unmarshalKnown` |
| sub-object codecs (participants, locations, links, relations, zones, alerts) | the object | as above; a polymorphic alert trigger | object codec, value types |
| validation (`validate.go`, `validate_recurrence.go`) | per call: the violations collected | `Validate` of Event, Task, Group | patch keys, `TimeZoneId.ResolvesIn`, `ParseLocalDateTime`, routing |
| parse and groups (`parse.go`) | none | `Parse`, `Group.Entry`, `NumEntries` | object codec; used by the iCalendar export |
| recurrence rule types (`recurrence.go`) | none | codec of `RecurrenceRule` and `NDay`, `Frequency.IsValid` | expansion, validation, iCalendar |
| value types (`duration.go`, `datetime.go`, `localdatetime.go`, `utcdatetime.go`, `id.go`, `timezoneid.go`) | none | parse, format, arithmetic | everything |
| iCalendar import and export (`ical/`) | per call: the children left, the zones collected, the result | `FromICal`, `ToICal` | parse, go-ical, the zone database |
| JMAP objects (`jmap/`) | a pointer to an Event and the members JMAP adds | codec of `CalendarEvent`, `FromEvent`, `ToEvent` | object codec |

What makes each of them correct:

- *expansion*: the reply is the recurrence set of the request, cut to the
  half-open window on the recurrence id, in order of instants, each instance
  being the stripped, stamped and patched master; it is an error exactly when
  something the reply needs cannot be used; none of this depends on the order in
  which the override map is walked.
- *patch application*: one answer, the overlay of the whole patch or an error;
  nothing outside the addressed locations changes; the document stays a document.
- *patch keys*: accepted keys decode to distinct pointers, in an order that puts
  containers first; the key refused is always the same one.
- *codec*: output is one well-formed object whatever the program did to the
  fields and to `Extra`; decode then encode keeps what no field claims; encode
  then decode gives the object back; a failing decode changes nothing.
- *triggers and value types*: what is accepted re-formats to text that is
  accepted with the same value; nothing overflows in between; only dates the
  calendar has are emitted; a trigger does not change its kind on the way.
- *validation*: every broken MUST is reported, nothing else is, each once and in
  an order that does not depend on map walks.
- *routing*: what `Group.Validate` accepts, `Entry` and `Parse` route alike.
- *iCalendar*: an imported object stands for the instants and zones its component
  names; what has a place in iCalendar survives export and import; what is lost is
  lost in the first round.
- *JMAP*: one flat object on the wire, which agrees with the core codec on the
  Event in it; a decode never writes an Event the program holds.

`PROJECT.json` lists the hazards of the code one by one, each at its line.

## 2. The modules

```
WallClock <- RecurrenceRule <- RecurringObject <- RecurrenceSet       (contract)
                                              <- Expansion            (INSTANCE RecurrenceSet)
                                                   <- MCExpansion
                                                   <- ExpansionProofs
Pointer <- PatchValidation <- MCPatchValidation
        <- JSONTree <- PatchOverlay                                   (contract)
                    <- PatchApplication <- MCPatchApplication         (INSTANCE PatchOverlay)
        <- PatchProofs                        (of PatchValidation and PatchApplication)
        <- Validation <- MCValidation, ValidationProofs
Routing <- Validation
MemberCodec <- ObjectCodec   <- MCObjectCodec
            <- CalendarEvent <- MCCalendarEvent                       (INSTANCE MemberCodec)
            <- MemberCodecProofs <- ObjectCodecProofs, CalendarEventProofs
Duration, DateTime <- AlertTrigger <- MCAlertTrigger, AlertTriggerProofs
WallClock <- ICalTime ---------\
  Selection <- RecurrenceText <- ICalImport <- ICalExport <- ICalTypes <- ICalendar
                                      ICalendar <- ICalendarProperties <- MCICalendar
                                                                       <- ICalendarProofs
```

Some definitions come in a second form placed just before the one the
specification uses (`CheckLastKey` before `CheckKey`, `GraftedOver` before
`Grafted`, ...). They are plausible mistakes in the code, used by the mutants of
`PROJECT.json`, and no specification refers to them.

### 2.1 Recurrence expansion

`WallClock` has the two time scales of `recur.go`: a LocalDateTime is an integer
on a clock face that never jumps, an instant an integer on the absolute line, a
location an offset with at most one transition. `Place` is `time.Date`, with the
rule the Go library applies in a gap and in a fold; `Wall` is `timeToLocal`;
`Resolve` is `resolveLocation` with `fixedZoneFrom` for embedded zones.

`RecurrenceRule` is `buildROption` and, as an external part, what the engine does
with the options: candidates counted on the wall clock from dtstart's own wall
clock, placed one by one, cut at dtstart and `until`, counted by a non-zero count.

`RecurringObject` has a master as a record, the refused requests (`Usable`), the
recurrence ids of a window (`RecurrenceIds`) and one instance (`Body`).
`dangling` stands for a pointer `ApplyPatch` cannot follow; why it cannot is the
subject of `PatchApplication`.

`RecurrenceSet` is the contract: one request, one atomic reply. `Expansion` is the
call, one action per step of the code:

| Action | Code |
|---|---|
| `CheckMaster` | nil start, marshal of the master |
| `ResolveZone` | `resolveLocation`, dtstart, the choice between rules and a lone start |
| `ExpandRule`, `EndRules` | one turn of the loop over `recurrenceRules`, its end |
| `SubtractRule`, `EndExcluded` | the same for `excludedRecurrenceRules` |
| `ApplyOverrideKey(key)` | one turn of the `range` over the override map: any key still pending |
| `ClipAndSort` | the window test on every id, `sort.Slice` (any order of ties) |
| `BuildOccurrence` | `buildOccurrence` for the next id: strip, stamp, patch, decode |
| `Return` | the end |

The variables are the locals of `Occurrences`: `produced` (the key set),
`pending` (the part of the map not walked), `patches`, `ids`, `out`, plus the
place in the code (`phase`, `next`).

### 2.2 Patches

`Pointer` has texts as sequences of code points, because the order of bytes and
the escapes are what the hazards are about: `Split`, `Unescape`, `Tokens`,
`Index` (which wraps at `IntBits`) and `ValidKey`. A split is taken at the
positions of the slashes in increasing order and a replacement keeps the
positions that are not the second half of an escape, so that both can be reasoned
about without recursion. `PatchValidation` is the loop of `PatchObject.Validate`;
its specification is `ValidateSpec` and its variables have names of their own,
as the proofs extend it together with `PatchApplication`.

`JSONTree` is a decoded document as a function from locations to nodes, with
`navigate` (`Holders`), set (`Grafted`) and remove (`Pruned`). `PatchApplication`
is `ApplyPatch`: `DecodeDocument`, `ApplyKey` once per sorted key with
`SetPointer` and `RemovePointer`, `EncodeDocument`, failing at the first key that
cannot be applied. `PatchOverlay` is its contract and has no order in it: a
location is governed by the longest key above it. `Decoded` says what a decoded
document is: a finite tree whose arrays are numbered from zero without holes.

### 2.3 Codec

`MemberCodec` relates the members of one JSON object to the fields of a struct
and its `Extra`: `FieldsFor` and `Stored` (what encoding/json does with a
member), `Captured` (`captureExtra`), `Forced`, `KnownPart` and `ExtraPart` (the
encoding and `spliceExtra`). `Fields`, their kinds and the other spellings of a
name are constants, so the module stands for every type that goes through
`marshalKnown` and `unmarshalKnown`. The case-insensitive match of encoding/json
is `Variants`; a nil and an empty map are one value, as `omitempty` and the
decoder treat them. `Selected` filters a sequence by ranks, so that the module
has no recursion and can be proved about.

`ObjectCodec` is a program that holds one object and may at any time receive a
wire, decode it (`Unmarshal`, then `DecodeMember` per member into the shadow
struct, then `FinishDecode`), edit a field or `Extra` (`Edit`), or encode
(`Marshal`).

### 2.4 Alert triggers and value types

`Duration` has the scanner of `duration.go` on texts cut into components, the
fold into one count of seconds with its overflow tests in `MaxUint`-wide
integers, and the formatter. `DateTime` has the calendar checks of `datetime.go`
and the conversion of a UTCDateTime from and to an instant, by the 400 years after
which the calendar repeats itself. `AlertTrigger` is a program that receives the `trigger` member of an alert, decodes it (`Unmarshal`,
with the three kinds and the member kept raw for an unknown one), sets a
trigger of its own (`Set`) and encodes it (`Marshal`).

### 2.5 Validation and routing

`Validation` is `Validate` of the three types. The groups of checks come in the
order of the code (`Groups`), a group visits its places in the order of the
sorted keys and indices (`Visit`), and each place yields the violations of the
code there (`Checks`). Whether a key is a LocalDateTime is a set of texts.
`Routing` has `peekType`, `Parse` and `Entry` as operators on a raw value of which
only the brace, the syntax, the discriminator and the decodability are told apart.

### 2.6 iCalendar

`ICalTime` splits an iCalendar date-time into a wall clock and a zone and goes
back (`splitDateTime`, `dateTimeProp`), and derives a duration from two of them.
`RecurrenceText` is the RRULE in both directions, a text being the sequence of
its parts; `Selection` has the loops that keep some elements of a list, by their
positions and without recursion. `ICalImport` turns a component into an object, property by property;
`ICalExport` is the way back; what go-ical's `SetText` writes of a token (CLASS, STATUS,
ACTION) is the constant `Quoted`, and of a TZID `Escaped`, since the import reads them
raw. A component is a record with a field per property,
which may be absent or malformed; properties that are carried over as text are
represented by one, SUMMARY. `ICalTypes` says what a component, an Event and a
Task can hold: the types of go-ical's components and of the fields of the Go
structs, as far as a conversion looks into them.

`ICalendar` runs the two calls: `ToICal` with `AppendObject`, `AppendGroup`
(the entries take the place of their group), `RejectObject`, `EmitZone` and
`Finish`; `FromICal` with `CollectZone`, `Collected`, `ImportChild` and `Return`.
A program may export what it imported and so on, and a peer's calendar may
arrive (`Receive`). `ICalendarProperties` states what the bridge owes.

### 2.7 JMAP

`CalendarEvent` has a heap: Events live in cells, the program holds the address
of one (`held`) and its CalendarEvent points to one. `FromEvent` and `ToEvent`
pass addresses, `Unmarshal` splits a wire through a map (`Collapsed`) and
allocates, `UnmarshalEvent` decodes into the held Event, `Marshal` joins the two
encodings (`Selected` takes the members apart). The codec of the Event is `MemberCodec`; that of the JMAP members is an
`INSTANCE` of it.

## 3. The runs

| Run | Checks | Instance |
|---|---|---|
| `expansion` | `TypeOK`, `Construction`, `Verdict`, `ImplementsContract`, `CountBounds`, `InstanceDoesNotRecur`, `KeepsWallClockOutsideGap` | three days of four units; floating time, a zone with a gap on a wall clock that daily rules hit, one with a fold, one east of UTC, one (`Late`) that skips the last hour of a day into the next, a fixed embedded zone; 0-2 rules and excluded rules among daily, counted, every other day and hourly with `byHour` and `until`; 0-3 overrides that exclude, move, add, retitle, remove and break; three windows, one of them ending on an instance and one empty; one master for each refusal |
| `patch_validation` | `FirstOffender`, `Unaliased`, `ParentsFirst` | every patch of one or two keys of at most three characters over `~ / 0 1 @` |
| `patch_application` | `TypeOK`, `IndexInBounds`, `Framed`, `KeepsType`, `ImplementsContract` | five documents of nested objects and arrays against some 2,400 patches of up to three keys with escapes, indices in and out of range, append, removals and malformed values; all of them `Unambiguous` (an `ASSUME` of the instance) |
| `object_codec` | `TypeOK`, `WellFormed`, `Preserved`, `DecodesWhole`, `RoundTrip`, `ByteStable` | a field of each kind, another spelling of two, an unknown name; wires of up to three members; two edits between any encodes and decodes. 1.6 million states |
| `alert_trigger` | `SameSpan`, `DecodedFits`, `RoundTrips`, `RealInstant`, `KeepsKind` | 13-bit integers, so that two hours of seconds fit and three do not; every selection of the units; each field of a date-time at its boundaries |
| `validation` | `Ordered`, `Reported`, `SameRouting` | some 6,500 objects of the three kinds, with up to two entries in each list and map |
| `icalendar` | `SameInstants`, `EndsAtEnd`, `ZoneResolved`, `Lossless`, `Settles`, `ReferencesDefined` | some 900 lists of objects and 700 calendars that differ from a plain one in one group of fields at a time, the time fields in every combination; tokens and zone names with and without a comma; tasks that have only a due; a zone with a gap, one with a fold; two round trips |
| `calendar_event` | `OneObject`, `LeavesHeldEvent`, `AgreesWithCore`, `RoundTrip` | two fields, three JMAP members of the three kinds, two other spellings of a field and one of a JMAP member; wires of up to two of eight members, and those of the two spellings; three cells. 570,000 states |

Why these bounds are enough for what they look for: a fault of the override loop
needs two keys that interact and one that does not, and a zone fault one
transition; an ordering fault of pointers needs two keys and an escape is two
characters long; a codec fault needs one member a field and an unknown name both
claim, one earlier value to be left behind, and one edit before and one after a
round trip; an overflow needs integers narrow enough for every sum to reach their
limit; a fault of the validation loops needs two keys and one nested list; the
bridge's zone faults need two components that share a name, and a loss that is not
final shows in the second round, by which a text has been escaped at most twice
(`MCQuoted` goes no further); sharing needs the held cell, the receiver's and a
fresh one. What the bounds leave out is named in section 6.

The runs of calls (`expansion`, `patch_*`, `validation`, `icalendar`) switch the
deadlock check off: a call ends. The programs of the other runs can always go on.

What the passing runs show, property by property:

- `Construction` gives the closed form of the set in construction at every point of
  the call, for every order of the map; `Verdict` says that the call fails exactly
  on the requests with no answer; `ImplementsContract` that it is one atomic answer.
  `CountBounds` counts over the whole recurrence, not the window: what
  all windows show and what overrides drop of it are together no more. Where the master is outside
  a gap every daily instance keeps its wall clock, but for one that falls into a gap
  itself and has the wall clock the zone skips to (`KeepsWallClockOutsideGap`); a
  master inside a gap moves all of them (`expansion_gap`). `InstanceDoesNotRecur` is
  about all three stripped members: one is in an instance only if the override of that
  very instance sets it.
- `Framed` and `ImplementsContract` of `PatchApplication` say that a key touches
  what it addresses only, and that byte order amounts to containers first wherever
  the patch applies at all. The overlay is stated without any order, so this is
  not a restatement of the loop. `IndexInBounds`: a token names an element only if
  its number, read without a width, is within the array, as long as an int holds it.
  `Unambiguous` excludes two keys that mean one place by accident; section 4 says
  what happens with them.
- `Unaliased` and `ParentsFirst` say what an accepted patch may rely on. `FirstOffender`
  has the error as the code makes it, which is not always what its comment says.
- `DecodesWhole` compares the fields and `Extra` after a decode with the meaning of the
  wire, stated without decoding it; `RoundTrip` and `ByteStable` hold for objects whose `Extra` does not
  hold another spelling of a field (`Unambiguous`), which `object_codec_lossless`
  shows to be needed.
- `SameSpan` compares a duration with its text by the span they stand for, in
  integers without a width; `RealInstant` asks for a date of the calendar.
- `Reported` compares the pass with the set of breaches of the object, of the rules the
  checks are about. The documentation has two more, named below, which the code does not
  check.
- `SameInstants` and `EndsAtEnd` compare on the absolute line, over gaps and folds.
  `ZoneResolved` and `ReferencesDefined` are about the start and about a due alone.
  `Lossless` is for objects with none of the lossy constructs listed with it;
  `Settles` says of the others that what the first round trip returns, the second
  leaves. It leaves out ten ids, a custom zone without a plain name, and a token that
  a TEXT value escapes: such a token changes in every round trip (`ical_escapes`).
- `AgreesWithCore` says that each JMAP member gets the last value the wire has for it,
  and that the Event of a decoded CalendarEvent is what the core
  codec makes of the members that are not JMAP's, for a wire that is `Regular`: no
  name comes twice, and no field in two spellings. The split sorts the members, so
  without the second condition another spelling may win than in the core codec.

Where the code and a statement about it disagree, a run of kind *violation* has
the counterexample. `PROJECT.json` quotes the statement.

| Run | Property | What happens |
|---|---|---|
| `expansion_gap` | `KeepsWallClock` | a master start that falls into a gap moves every later instance: one unit earlier in a zone west of UTC (start 5 gives 4 and 8), one later in a zone east of it (6 and 10) |
| `object_codec_lossless` | `Lossless` | a member spelled in another case is both field and unknown member, and the order on the wire decides which value survives |
| `ical_escapes` | `EscapedTextReturns` | the zone `/A,` has its TZID escaped in the definition, `A\,`, and not in the reference, `A,`, so the import does not find it; the privacy, status and action `x,y` of the same event are written `X\,Y` and read back as `x\,y` |
| `calendar_event_null` | `KeepsNull` | a null `baseEventId` is not told from an absent one |

Other behaviour met while modelling that a property of a passing run leaves out, and
says so:

- `validateTimeZoneClosure` is given the object's `timeZone` and its locations
  (`validate_recurrence.go:116`), so a `recurrenceIdTimeZone` that nothing defines is
  accepted; `types.go:217` and `394` have the closure for a custom zone "referenced
  anywhere in the event", and say that the validation phase checks it;
- `validateGroupEntry` decodes nothing but the discriminator (`validate.go:301`), so an
  entry that `Group.Entry` then fails on is accepted; `validate.go:219` says that one
  "that fails to decode" is reported;
- the error about a key with a wrong escape names it behind a slash, `/~` for `~`
  (`patch.go:174`); `patch.go:218` says "the offending key, as it appeared in the
  PatchObject". `FirstOffender` states which of the two it is;
- a count of zero reaches the engine, for which zero is no bound (`recur/rrule.go:82`);
- an override patch may set a recurrence member again, and its instance then recurs
  (`recur/recur.go:293`);
- an index of more digits than an int holds wraps and may name an element
  (`recur/patch.go:199`);
- the Property path of a violation joins keys with unescaped slashes, so two places
  can be reported at one path; `Validation` identifies a violation by its place;
- the formatter of durations leaves gaps (`PT1H1S`) that the grammar quoted in the
  code does not have; the parser accepts them;
- a recognised trigger drops the members it does not model (`alert.go:286`);
- a custom id that is a zone's name behind a slash comes back as that zone; of two
  definitions of one custom zone the last wins for both objects; ten or more
  generated ids are dealt out anew in every round trip, as they are sorted as
  bytes; the "Z" of an UNTIL is dropped.

### Fairness

No fairness is assumed, as no property needs any. A call runs on its caller's
goroutine, blocks on nothing and shares nothing; that it ends is plain from its loops
over finite lists, and for a rule without bound it is rrule-go's, of which `Between` is
one step here over a finite `Horizon`. A liveness property of these models would hold
by their shape, so there is none. The programs of `ObjectCodec`, `AlertTrigger`,
`ICalendar` and `CalendarEvent` may stop at any time.

## 4. The proofs

Every proof module extends the modules it is about. All assumptions are named
`ASSUME`s of the specifications, which TLC evaluates in their runs, or hypotheses
named in the table. All 39 properties of the passing runs are theorems, for every value
of the constants.

| Module | Theorem | Statement |
|---|---|---|
| `ExpansionProofs` | `TypeCorrect`, `ConstructionCorrect`, `VerdictCorrect` | `Spec => []TypeOK`, `[]Construction`, `[]Verdict` |
| | `WallClockKept`, `CountsBound`, `InstancesDoNotRecur` | `Spec => []KeepsWallClockOutsideGap`, `[]CountBounds`, `[]InstanceDoesNotRecur` |
| | `Refinement` | `Spec => ImplementsContract` |
| | `WindowsPage` | two adjacent windows list every instance of their union once, in its order, and both are answered iff it is |
| `PatchProofs` | `TokensInjective` | well-escaped keys with the same tokens are one key |
| | `PrefixesBefore` | the key whose tokens begin another's comes first in the order of bytes |
| | `LeastOffenderNamed` | `ValidateSpec => []FirstOffender` |
| | `AcceptsExactly` | the patch is accepted iff all keys are well formed |
| | `NoAliases`, `ContainersFirst` | `ValidateSpec => []Unaliased`, `[]ParentsFirst` |
| | `TypeCorrect`, `FrameHolds`, `TypePreserved` | `Spec => []TypeOK`, `[]Framed`, `[]KeepsType` |
| | `BoundsKept` | `Spec => []IndexInBounds`, if `Unambiguous` |
| | `PatchContract` | `Spec => ImplementsContract`, if `Unambiguous` |
| | `FittingContract` | the same, if `Fitting` |
| `ObjectCodecProofs` | `TypeCorrect`, `EncodesWellFormed`, `UnknownPreserved` | `Spec => []TypeOK`, `[]WellFormed`, `[]Preserved` |
| | `ReplacedWhole`, `RoundTrips`, `BytesStable` | `Spec => DecodesWhole`, `RoundTrip`, `ByteStable` |
| `ValidationProofs` | `AllReported`, `ReportsOrdered`, `AcceptedRoutedAlike` | `Spec => []Reported`, `[]Ordered`, `[]SameRouting` |
| `CalendarEventProofs` | `HeldEventLeft`, `FlatObject` | `Spec => LeavesHeldEvent`, `[]OneObject` |
| | `RoundTripped`, `SplitAgrees` | `Spec => RoundTrip`, `AgreesWithCore` |
| `AlertTriggerProofs` | `OffsetsFit`, `TriggersRoundTrip` | `Spec => []DecodedFits`, `[]RoundTrips`, if `NoRecords` |
| | `InstantsReal`, `KindKept` | `Spec => []RealInstant`, `[]KeepsKind`, if `NoRecords` |
| | `SpansKept` | `Spec => []SameSpan`, if `NoRecords` |
| `ICalendarProofs` | `BridgeCorrect` | `Spec => []BridgeInv` |
| | `InstantsKept`, `EndsKept`, `ZonesResolved` | `Spec => []SameInstants`, `[]EndsAtEnd`, `[]ZoneResolved` |
| | `ReferencesKept`, `NothingLost` | `Spec => []ReferencesDefined`, `[]Lossless` |
| | `RoundTripsSettled`, `RoundTripsSettle` | `Spec => []SettledInv`, `[]Settles` |

Facts about functions defined by recursion (the value of a decimal, the fraction of
a second, the position of a token) are proved by the least number for which they
would fail (`LeastNat`), as an induction over a set that is named and not over an
operator. `PowersAssumption` and `PowersOfTen` say what a power of two and of ten
is: true of every number, and stated because the provers know no exponents.

**Expansion.** Assumptions: zones are locations with at most one transition and the
identifiers are disjoint (`ZoneAssumption`); rules are unrolled over a finite set of
integers (`HorizonAssumption`); masters have the shape of a decoded object and
windows have integer ends (`SeriesAssumption`). The inductive invariant is `IInv ==
TypeOK /\ Construction /\ Verdict`. None of the three is inductive alone.
`Construction` needs the zone to have resolved before it can speak of ids at all,
which is `Verdict`'s; `Verdict` needs to know that the ids being built are those of
the request, which is `Construction`'s; both need the types. The preservation
proof has one lemma per action (`CheckMasterKeeps` to `ReturnKeeps`). Two facts
carry the weight. `PlaceStable`: placing the wall clock of a placed value is the
same instant, in gaps and folds too, so that an id, which is what the code keeps,
stands for the instant it came from, which is what the window is about.
`KeysAreIds` and `ClippedSet`: the engine's closed window and the final half-open
test on the id together give exactly the ids of the contract, whether they are
applied before or after the set operations. `Refinement` then maps each step: every
step before the last is a stutter of the contract, `Return` is the answer and
`Fail` the error, by `Verdict`. The other three follow from the closed form:
`CountsBound` by counting the instants the engine yields (`CountedBounded`) and
mapping them onto ids (`IdsBounded`); `WallClockKept` from the ids of a daily rule
(`DailyIds`), which are the candidates read back from the instants they were placed
on; `InstancesDoNotRecur` from the body each instance was built with. `WindowsPage` is
about the contract alone: a caller that asks for one window after the other misses no
instance and gets none twice, also where a transition lies on the border, since an id
is in a window by the one instant it stands for.

**Keys.** The first part of `PatchProofs` is about texts of any length. `CutsDelimit` and
`PieceClean` say that a split at the slashes returns the pieces between them and
`ReplaceInjective` that a replacement of escapes forgets nothing in a well-escaped
text, since the character an escape stands for does not occur in it otherwise
(`OnlyAtHits`); the two passes of `Unescape` are one application each
(`FirstPass`). From these, two keys with the same tokens agree in every cut and
every piece (`AgreeingKeys`). Without well-formed escapes it is false: `~3` and
`~03` have one token.

**Patch keys.** `KeySetsAssumption`: a patch is a finite set of texts. The invariant
(`Checked`) keeps what is left to check sorted and what was passed well formed. The
order of texts is irreflexive, so a sorting repeats nothing and, by counting, leaves
nothing out (`SortingsCover`).

**Patch application.** Assumptions: documents and values are decoded JSON
(`DocumentsAssumption`, `PatchesAssumption`). The invariant `IInv` has the keys left
in strict order, the copy a decoded tree with an object at its root, `TypeKept` and
`Framed`. The order is what makes a key not yet applied a key not in `Applied`; the
root is what makes a first token a name and not an index, without which `TypeKept`
is not inductive. The lemmas on `JSONTree` (`PrunedDecoded`, `GraftedDecoded`,
`PrunedChanges`, `GraftedChanges`) say that a set and a removal keep a tree a tree
and what they change. These theorems hold for every patch, accepted or not.
`PatchContract` needs a second invariant, `LInv`: the copy is the document with the
keys applied so far laid over it (`Overlaid`), and all of them could be laid. The
overlay of a set of keys is unique, as every location has one governor, its longest
key (`GovernorUnique`, `GovernorExists`, `OverlaidUnique`); the next key in order is
not above any that was applied (`PrefixesBefore`), so it governs exactly what it
addresses (`ApplyMeans`). `Unambiguous` is needed: with a key `a/0/3` and, later in
the order, one whose index wraps to the same int (`a/65536` at 16 bits), or with one
that has an escape RFC 6901 does not have (`a~/3`, before `a~0`), the loop applies a
content before its container, which then replaces it. `FittingUnambiguous` gives the condition in the
terms of a caller: the keys are JSON Pointers and no index is larger than an int.

**Object codec.** All six properties of the run, for any fields, spellings, names,
values and wires. Assumptions: the fields and the names are lists without
repetitions, another spelling is no field's own name, entries are closed under
union, null is no scalar and no set, the discriminator is not the zero value
(`CodecAssumption`); a peer's wire is a list of members or no object
(`WiresAssumption`). The invariant follows the decode: `Reading` says that the
struct being filled is the `Meaning` of the prefix read so far and that every
member of it fits; `Produced` that the wire a sent object left is its `Encoded`
form; `Unedited` that an object not edited since its decode is what its wire means.
`MemberCodecProofs` has the facts on data this rests on: `SelectedSpec`, that the
selection by ranks keeps exactly the elements wanted and their order;
`NextMeaning`, that one more member changes the meaning of a wire as `Stored`
changes a struct, which makes the loop correct without an induction over data;
`EncodedSpec`, the shape of an encoding; `EncodingMeans` and `EncodingCaptured`,
that it decodes to what was encoded. `Unambiguous` is used in one place only:
there a member of `Extra` would be for a field.

**Validation.** The report of a group is built for the places in the order visited;
the proof carries the order of groups, of paths and of checks through
concatenation, and for the entries of a group that a place without a violation has
a discriminator both routings take. `AllReported` has an invariant of its own,
`Collected`: what has been reported is what the checks find at the places visited.
When the pass is over all were visited (`CollectedPass`), and the rest compares, one
group of checks at a time (`RulesFound` to `EntriesFound`), what the checks of the
code find with the breaches that `Reported` lists without reference to them.
`ObjectsAssumption` is used here only: a receiver has no more than the members of
its Go type.

**CalendarEvent.** `CalendarEventAssumption`: there are three cells, the JMAP
members have names no field has; `WiresAssumption`: a peer's wire is a list of
members. `HeldEventLeft`: with the cells the program and the receiver point to taken
away one is left (`FreshCell`), and the decode writes only there. The rest needs the
invariant `IInv`, of which `Held` types every Event on the heap and `Produced` says
that a wire the program sent is the merge of the encodings of what it sent.
`MergedSpec` describes that merge: no name twice, the members of both sides and no
others. `RoundTripped` splits it again (`EventBack`, `JMAPBack`), and `SplitAgrees`
compares what the split hands to the core codec with the members of the wire that
are not JMAP's, field by field (`PartAgrees`), as the two differ in their order.

**Alert triggers.** The inductive invariant is `Coherent`: the trigger has one of
four shapes with typed contents, it is the decoded source if it has one, offsets
decoded fit the integers, and the member is a peer's or the encoding of the trigger
sent. Under it lie three inverses, each for every value:
the fraction of a second, whose digits without trailing zeros are read back as the
nanoseconds they were written from (`FractionDigits`, `FractionRead`); a duration,
whose text is taken apart into the components it was written from and folded to the
same span (`ComponentsRead`, `PartsRead`, `FormatRead`), while no sum of an accepted
text passes the width of its integer (`ParsedFits`); and a date, where the day
numbers of a cycle of 400 years fall into years, the days of a year into months
(`YearFound`, `MonthFound`) and the seconds of a day into the clock, each in exactly
one way (`ClockInverse`). Assumptions: numbers, texts and their absences are
disjoint (`DurationAssumption`, `DateTimeAssumption`); the values a program sets
have the types of the Go fields and an instant is in the range of the conversion
(`TriggerAssumption`); the fraction in an offset a peer sends is a list of digits
(`MembersAssumption`). The hypothesis `NoRecords` says that the values that stand for
an absent member, null, a member that is no object and one that is no text are not
mistaken for records. In the run they are model values, which have no domain TLC
could look at, so it is a hypothesis and no `ASSUME`.
`SpansKept` compares a text and a trigger by sums over the components of the text, in
integers without a width; the sums are recursive functions, so that a fact about
them is one about the least number of components it would fail for.

**iCalendar.** Assumptions: what a program passes and a peer sends has the types of
`ICalTypes` (`ICalendarAssumption`); folding a token to lower case and back is what it
should be on the tokens the code names (`TokensAssumption`); values that are absent
are told from those that are there (`PartsAssumption`, `ICalTimeAssumption`); the ids
the import generates are different and known to the order of ids, and the character
that escapes others is one that is escaped (`ICalExportAssumption`). `TokensAssumption`
also has `Quoted`: a function on the upper-case tokens that leaves the ones the code
names as they are. Of the other tokens `NothingLost` and `RoundTripsSettle` ask that
it leaves them too (`VerbatimTokens`). `Subsequence` is characterised by the increasing function
onto its positions (`SubsequenceIs`, `Enumerated`), which is what lets the components
of a calendar be followed through appending, prepending and passing one.

The inductive invariant is `BridgeInv == Exporting /\ Finished /\ Importing`.
`Exporting`: the converted components are those of the objects appended, in their
order; every zone component was made from an object's definition; every definition is
still among the collected zones or already emitted. `Finished`: a calendar that
`ToICal` returned has all of this with no zone left. `Importing`: the zones are the
definitions of the children passed, every one of them, and the objects their
conversions. There is one lemma per action (`BridgeAppendObject` to `BridgeReturn`).
`InstantsKept`, `EndsKept`, `ZonesResolved` and `ReferencesKept` follow from it and
what an import does with one component.

`NothingLost` needs that an import inverts an export, one property at a time
(`RulesReturn`, `ZoneReturns`, `PrivacyReturns`, `AlertsReturn`, `ParticipantsReturn`,
`TimesReturn`), gathered in `ObjectReturns` under `ZoneKept`: the zones collected give
the object its own zone back. That is no matter of one object, since all the objects
of a calendar share its definitions; `ZonesReturn` has it for objects that agree on
them, from `BridgeInv`.

`RoundTripsSettle` has a second invariant, `SettledInv`: from the second call of
`ToICal` on, whatever is in the call came out of an import. An object that did is
`Settled` (`ObjectSettles`, again a lemma per property): it has all that `NothingLost`
asks of its fields, except that its generated ids need not sort by bytes as they were
numbered, which is what `FewOrdinals` adds (`FewArePlain`). Two objects of one
import are `Coherent`: they embed the same definition of a zone, and none embeds a zone
that another one had to leave as an unknown name. Without the second half the invariant
says too little, since the unknown name would find a definition in the next round.

Attempts that failed were about the model, and changed it: two arms of the `CASE` in
`Routing!Dispatch` overlapped, and which one is taken is then not determined;
`AgreesWithCore` was stated for wires that spell one field in two ways, of which it
is false; the year search of `FromTime` did not reach the days before year 1 that a
UTCDateTime can stand for; nothing said that the sign of an offset is a Boolean; and
three properties of the bridge were said too broadly. Two definitions may give one
custom id (`ZoneResolved` now names any of them), a custom zone that would lose a second
slash or become IANA's is not portable (`PlainId`), and ids are portable only if
their order by bytes is the one they were numbered in (`HasIds`).

## 5. Only model-checked

- What the runs of kind *violation* show. Everything a passing run checks is a theorem.

## 6. Not modelled, and why

- `ApplyPatch` does not validate its keys. Of keys with escapes RFC 6901 does not
  have, byte order may apply the content before its container; `ParentsFirst` is
  about accepted keys. The runs of `PatchApplication` use well-formed escapes.
- Of the frequencies, daily and hourly are unrolled. The other five, and the BY
  parts beyond `byHour`, are handed to rrule-go unchanged; they differ inside an
  engine that is not in this repository. What `buildROption` refuses is a set of
  part names.
- A nil event or task, refused at the first line.
- The errors `json.Marshal` gives for a field of the struct (`codec.go:93`): in the model
  an encode fails on `Extra` only. The fields that can fail are the sub-objects with a
  polymorphic trigger and the date-times, whose own errors `AlertTrigger` has.
- Zones have one transition in the span of a run.
- Fractional seconds of a LocalDateTime, which has none; equal keys are equal texts.
- The codec of `PatchObject`, `IsRemoval` and `Removals` (no state); the JSON codec of
  `RecurrenceRule` and `NDay`, which is that of the other sub-objects; the character
  classes of an `Id` and the fixed-width digits of a date-time (a syntax table).
- What no property says of behaviour that is in the model: a duration derived from wall
  clocks where a zone is unknown or a date meets a date-time (`ical/duration.go:101`);
  ten and more generated ids; the two lossy zone names of section 3.
- Contents of members no property tells apart; formatting of error messages; the
  package documentation and the fixtures.
- That imported objects validate: the comment of `FromICal` names `Validate` as the
  caller's next step, and the import checks nothing of it.

## 7. What could come next

1. The other frequencies of the engine, weekly and monthly with `byDay` and
   `byMonthDay`, as the candidates of `RecurrenceRule`; the theorems on `Expansion`
   speak of the candidates only through the instants they give.
2. Recurrence overrides across the bridge: RDATE, EXDATE and RECURRENCE-ID are read
   by no line of `ical/` yet, and would become fields of the components.
3. Zones with more than one transition, for which `PlaceStable` is the fact to prove
   again.
