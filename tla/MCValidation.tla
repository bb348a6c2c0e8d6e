---------------------------- MODULE MCValidation ----------------------------
(***************************************************************************)
(* Objects with up to two entries in a list or map, over the texts below:  *)
(* every combination of the members of one bundle, the others being fine.  *)
(***************************************************************************)
EXTENDS Validation

A == 97
MCAtType    == <<64>>
MCUidText   == <<117>>
MCDateTimes == {<<50>>, <<51>>}

Good    == [frequency |-> "daily", count |-> TRUE,  until |-> FALSE]
Bad     == [frequency |-> "",      count |-> FALSE, until |-> TRUE]
Both    == [frequency |-> "daily", count |-> TRUE,  until |-> TRUE]
BadBoth == [frequency |-> "often", count |-> TRUE,  until |-> TRUE]
Lists   == {<<>>, <<Bad>>, <<Both>>, <<Good, BadBoth>>}

Patches ==
  {{}, {<<A>>}, {MCUidText, <<A, Tilde>>}, {MCAtType, <<A>>, <<Slash, A>>},
   {<<Tilde>>, <<A, Slash, Tilde>>}}
Patched(keys) ==
  {[k \in {} |-> {}]} \cup [keys -> Patches] \cup {[k \in {CHOOSE l \in keys : TRUE} |-> p] : p \in Patches}

Custom  == <<Slash, A>>
Other   == <<Slash, 98>>
Iana    == <<85>>
Refs    == {<<>>, Custom, Iana}

Base ==
  [kind |-> "Event", type |-> "right", uid |-> TRUE, due |-> FALSE,
   rules |-> <<>>, excluded |-> <<>>, overrides |-> << >>, localizations |-> << >>,
   zone |-> <<>>, recurIdZone |-> <<>>, locations |-> << >>, zones |-> << >>,
   entries |-> <<>>]

Zone(standard, daylight) == [standard |-> standard, daylight |-> daylight]
ZoneMaps ==
  {<<>>, (Custom :> Zone(<< <<>>, <<Bad>> >>, << <<BadBoth>> >>)),
   (Custom :> Zone(<<>>, <<>>)) @@ (Other :> Zone(<< <<Both, Bad>> >>, <<>>))}

Headers ==
  {[Base EXCEPT !.kind = k, !.type = t, !.uid = u, !.due = d, !.rules = r, !.excluded = x] :
     k \in {"Event", "Task"}, t \in {"right", "wrong", "empty"}, u, d \in BOOLEAN,
     r, x \in Lists}

PatchMaps ==
  {[Base EXCEPT !.type = t, !.overrides = o, !.localizations = l] :
     t \in {"right", "wrong"},
     o \in Patched({<<50>>, <<50, Slash, A>>}) \cup Patched({<<51>>, <<50>>}),
     l \in Patched({<<100>>, <<101>>})}

Zoned ==
  {[Base EXCEPT !.kind = k, !.uid = u, !.zone = z, !.recurIdZone = rz, !.locations = ls,
                !.zones = zs, !.rules = r] :
     k \in {"Event", "Task"}, u \in BOOLEAN, z, rz \in Refs, zs \in ZoneMaps,
     ls \in {<<>>} \cup [{<<49>>, <<50>>} -> Refs], r \in {<<>>, <<Both>>}}

Raws ==
  [brace : BOOLEAN, json : BOOLEAN, body : BOOLEAN,
   type : {"Event", "Task", "Group", "other", "", Absent, NotText}]

Grouped ==
  {[Base EXCEPT !.kind = "Group", !.type = t, !.due = TRUE, !.entries = es] :
     t \in {"right", "wrong"}, es \in {<<>>} \cup {<<raw>> : raw \in Raws}
       \cup {<<r, q>> : r, q \in {raw \in Raws : raw.brace /\ raw.json}}}

MCObjects == Headers \cup PatchMaps \cup Zoned \cup Grouped

=============================================================================
