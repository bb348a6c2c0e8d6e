------------------------ MODULE MCPatchApplication ------------------------
(***************************************************************************)
(* Documents with a "@type", an object "a" holding an object, an array or  *)
(* a scalar, and an array "b"; patches of up to three keys that meet them: *)
(* parents and children of one another, names absent, escaped or empty,    *)
(* indexes in and out of range, appended or badly written; values that     *)
(* are scalars, containers, removals or do not decode.                     *)
(***************************************************************************)
EXTENDS PatchApplication

At == <<64>>
A  == <<97>>
B  == <<98>>

MCAtType == At

Leaf(scalar) == [p \in {<<>>} |-> scalar]

Node(kind, f) ==
  [p \in {<<>>} \cup UNION {{<<t>> \o r : r \in DOMAIN f[t]} : t \in DOMAIN f} |->
     IF p = <<>> THEN kind ELSE f[p[1]][Tail(p)]]

Object(f) == Node("object", f)
Array(values) ==
  LET text(i) == <<Zero + i - 1>>
  IN  Node("array", [t \in {text(i) : i \in DOMAIN values} |-> values[t[1] - Zero + 1]])

Typed(f) == Object((At :> Leaf("Event")) @@ f)

MCDocuments ==
  {Typed((A :> Object(B :> Object(A :> Leaf("one")))) @@ (B :> Array(<<Leaf("zero"), Object(A :> Leaf("one"))>>))),
   Typed(A :> Array(<<Array(<<Leaf("one")>>), Leaf("two")>>)),
   Typed((A :> Leaf("one")) @@ (<<Slash>> :> Object(<<Tilde>> :> Leaf("two")))),
   Array(<<Leaf("one")>>), Malformed}

S == <<Slash>>
Keys ==
  {<<>>, At, A, B, A \o S \o B, A \o S \o B \o S \o A, A \o S \o <<Zero>>,
   A \o S \o <<Zero>> \o S \o <<Zero>>, A \o S \o <<One>>, A \o S \o <<Zero, Zero>>,
   B \o S \o <<Dash>>, B \o S \o <<One>> \o S \o A, B \o S \o <<One + 1>>,
   S \o A, <<Tilde, One>>, <<Tilde, One>> \o S \o <<Tilde, Zero>>, At \o S \o A}

Values == {Null, Leaf("new"), Object(B :> Object(A :> Leaf("new"))), Array(<<Leaf("new")>>)}

MCPatches ==
  UNION {[{k, l} -> Values] : k, l \in Keys}
    \cup UNION {[{A, k, l} -> Values \ {Leaf("new")}] : k, l \in {A \o S \o B, A \o S \o B \o S \o A,
                   A \o S \o <<Zero>>, A \o S \o <<Zero>> \o S \o <<Zero>>}}
    \cup {[k \in {} |-> Null], (A :> Malformed) @@ (B :> Null)}

ASSUME Unambiguous

=============================================================================
