-------------------------- MODULE MCCalendarEvent --------------------------
(***************************************************************************)
(* Two fields of the Event and three JMAP members, one of each kind; two   *)
(* other spellings of a field, and one of a JMAP member, which is an       *)
(* unknown name.  Every wire of at most two of eight members, and those of *)
(* the two other spellings, in either order.                               *)
(***************************************************************************)
EXTENDS CalendarEvent

CONSTANTS Event, Empty, a, k1, c1, c2, c3

MCFields   == <<"@type", "title">>
MCKind     == [f \in {"@type", "title"} |-> "string"]
MCVariants == [n \in {"TITLE", "Title"} |-> "title"]
MCNames    ==
  <<"@type", "ID", "TITLE", "Title", "baseEventId", "calendarIds", "id", "title">>
MCScalars  == {Event, Empty, a}
MCSets     == {{}, {k1}}

MCJMAPMembers == <<"id", "baseEventId", "calendarIds">>
MCJMAPKind    ==
  [f \in {"id", "baseEventId", "calendarIds"} |->
     CASE f = "id"          -> "string"
       [] f = "baseEventId" -> "pointer"
       [] f = "calendarIds" -> "map"]

Of(names, values) == [name : names, value : values]

Members ==
  Of({"title"}, {a}) \cup Of({"TITLE"}, {Event})
    \cup Of({"ID"}, {a}) \cup Of({"id"}, {a, Null})
    \cup Of({"baseEventId"}, {a, Null}) \cup Of({"calendarIds"}, {{k1}, a})

MCWires ==
  BoundedSeq(Members, 2) \cup TupleOf(Of({"Title"}, {a}) \cup Of({"TITLE"}, {Event}), 2)
    \cup {NotObject}

=============================================================================
