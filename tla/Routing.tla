------------------------------ MODULE Routing ------------------------------
(***************************************************************************)
(* The routing of a raw JSON value on its "@type": Parse for a top-level   *)
(* object, Group.Entry for an entry of a group.                            *)
(*                                                                         *)
(* A raw value is a record: brace, its first character opens an object;    *)
(* json, it is well formed to the end; type, its "@type"; body, its other  *)
(* members decode into the type it names.  Absent also stands for a null   *)
(* "@type", NotText for one that is no string.                             *)
(***************************************************************************)
CONSTANTS Absent, NotText

Peeks(raw) == raw.brace /\ raw.json /\ raw.type # NotText

(***************************************************************************)
(* The outcome of a dispatch over the types a caller knows: a decoded      *)
(* value of that type, an *UnknownTypeError or some other error.           *)
(***************************************************************************)
Dispatch(raw, types) ==
  CASE ~Peeks(raw)                          -> "structural"
    [] Peeks(raw) /\ raw.type \notin types -> "unknown type"
    [] Peeks(raw) /\ raw.type \in types    -> IF raw.body THEN raw.type ELSE "decode"

Parse(raw) == Dispatch(raw, {"Event", "Task", "Group"})

Entry(raw) == Dispatch(raw, {"Event", "Task"})

=============================================================================
