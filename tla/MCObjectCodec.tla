--------------------------- MODULE MCObjectCodec ---------------------------
(***************************************************************************)
(* Four fields, one of each kind besides "@type"; another spelling of two  *)
(* of them; one unknown name.  Every wire of at most two members, and the  *)
(* wires of three that give one field three members.                       *)
(***************************************************************************)
EXTENDS ObjectCodec

CONSTANTS Event, Empty, a, b, k1, k2

MCFields   == <<"@type", "title", "start", "keywords">>
MCKind     == [f \in {"@type", "title", "start", "keywords"} |->
                 CASE f = "start"    -> "pointer"
                   [] f = "keywords" -> "map"
                   [] OTHER          -> "string"]
MCVariants == [n \in {"KEYWORDS", "TITLE"} |->
                 IF n = "TITLE" THEN "title" ELSE "keywords"]
MCNames    == <<"@type", "KEYWORDS", "TITLE", "keywords", "start", "title", "v:x">>
MCScalars  == {Event, Empty, a, b}
MCSets     == {{}, {k1}, {k2}, {k1, k2}}

Of(names, values) == [name : names, value : values]

Titles   == Of({"title"}, {a, b, Null}) \cup Of({"TITLE"}, {b, Null})
Keywords == Of({"keywords"}, {{k1}, {k2}, Null, a}) \cup Of({"KEYWORDS"}, {{k1}})
Members  == Titles \cup Keywords \cup Of({"@type"}, {a}) \cup Of({"start"}, {a, Null, {k1}})
              \cup Of({"v:x"}, {a, b, Null})

MCWires == BoundedSeq(Members, 2) \cup TupleOf(Titles, 3) \cup TupleOf(Keywords, 3)
             \cup {NotObject}

=============================================================================
