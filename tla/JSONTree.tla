------------------------------ MODULE JSONTree ------------------------------
(***************************************************************************)
(* A decoded JSON document (Go's map[string]any, []any and scalars) as a   *)
(* function from locations to nodes.  A location is the sequence of tokens *)
(* from the root, an array element's token being the decimal text of its   *)
(* position; a node is "object", "array" or a scalar.                      *)
(***************************************************************************)
EXTENDS Pointer

Children(tree, at) ==
  {p \in DOMAIN tree : Len(p) = Len(at) + 1 /\ IsPrefix(at, p)}

Length(tree, at) == Cardinality(Children(tree, at))

(***************************************************************************)
(* Every node hangs in a container, and the elements of an array are       *)
(* numbered from zero without holes.                                       *)
(***************************************************************************)
IsTree(tree) ==
  /\ <<>> \in DOMAIN tree
  /\ \A p \in DOMAIN tree :
       /\ p # <<>> => Front(p) \in DOMAIN tree /\ tree[Front(p)] \in {"object", "array"}
       /\ tree[p] = "array" =>
            \A c \in Children(tree, p) :
              /\ NamesElement(Last(c), Length(tree, p))
              /\ \A d \in Children(tree, p) : Index(Last(c)) = Index(Last(d)) => c = d

(***************************************************************************)
(* What json.Unmarshal makes: a tree with finitely many nodes.             *)
(***************************************************************************)
Decoded(tree) ==
  /\ DOMAIN tree \subseteq Seq(Seq(Nat)) /\ IsFiniteSet(DOMAIN tree)
  /\ tree = [p \in DOMAIN tree |-> tree[p]]
  /\ IsTree(tree)

-----------------------------------------------------------------------------
(***************************************************************************)
(* What one token reaches from a node: a member by its name, an element by *)
(* its index, nothing from a scalar.                                       *)
(***************************************************************************)
ReachesAny(tree, at, tok, child) ==
  \/ tree[at] = "object" /\ child = tok
  \/ tree[at] = "array" /\ NamesElement(tok, Length(tree, at))

Reaches(tree, at, tok, child) ==
  \/ tree[at] = "object" /\ child = tok
  \/ /\ tree[at] = "array"
     /\ NamesElement(tok, Length(tree, at))
     /\ Index(child) = Index(tok)

(***************************************************************************)
(* navigate: the container that holds the last token, none when the empty  *)
(* pointer is given, a member is absent, an index is bad or out of range,  *)
(* or a scalar is in the way.                                              *)
(***************************************************************************)
Holders(tree, tokens) ==
  {p \in DOMAIN tree :
     /\ tokens # <<<<>>>>
     /\ Len(p) + 1 = Len(tokens)
     /\ \A i \in DOMAIN p : Reaches(tree, SubSeq(p, 1, i - 1), tokens[i], p[i])}

Members(tree, tokens) ==
  {Append(p, Last(tokens)) : p \in {h \in Holders(tree, tokens) : tree[h] = "object"}}

Elements(tree, tokens) ==
  UNION {{c \in Children(tree, h) : Reaches(tree, h, Last(tokens), Last(c))} :
           h \in {g \in Holders(tree, tokens) : tree[g] = "array"}}

(***************************************************************************)
(* The tree with everything at a location gone, and with a value there.    *)
(***************************************************************************)
Pruned(tree, at) == Restrict(tree, {p \in DOMAIN tree : ~IsPrefix(at, p)})

Below(at, p) == SubSeq(p, Len(at) + 1, Len(p))

GraftedOver(tree, at, value) ==
  [p \in DOMAIN tree \cup {at \o r : r \in DOMAIN value} |->
     IF IsPrefix(at, p) /\ Below(at, p) \in DOMAIN value THEN value[Below(at, p)]
     ELSE tree[p]]

Grafted(tree, at, value) ==
  [p \in DOMAIN Pruned(tree, at) \cup {at \o r : r \in DOMAIN value} |->
     IF IsPrefix(at, p) THEN value[Below(at, p)] ELSE tree[p]]

=============================================================================
