-------------------------- MODULE PatchApplication --------------------------
(***************************************************************************)
(* recur.ApplyPatch step by step: the document is decoded, the keys are    *)
(* applied one at a time in sorted order on the decoded copy, and the      *)
(* first failure drops the copy.                                           *)
(***************************************************************************)
EXTENDS JSONTree

CONSTANTS
  Documents,  \* the documents a caller may patch
  Patches,    \* functions from keys to values
  Null,       \* the removal sentinel
  Malformed   \* a document or a value that does not decode

ASSUME DocumentsAssumption == \A d \in Documents : d = Malformed \/ Decoded(d)

ASSUME PatchesAssumption ==
  /\ Null # Malformed
  /\ \A p \in Patches :
       /\ DOMAIN p \subseteq Seq(Nat) /\ IsFiniteSet(DOMAIN p)
       /\ p = [k \in DOMAIN p |-> p[k]]
       /\ \A k \in DOMAIN p :
            \/ p[k] \in {Null, Malformed}
            \/ Decoded(p[k]) /\ \A r \in DOMAIN p[k] : p[k][r] # Null

VARIABLES
  document,  \* the document passed in
  patch,     \* the patch passed in
  todo,      \* the keys still to apply, in order
  root,      \* the decoded copy
  status     \* "pending", "applying", "ok" or "error"

vars == <<document, patch, todo, root, status>>

Init ==
  /\ document \in Documents
  /\ patch \in Patches
  /\ todo \in Sortings(DOMAIN patch)
  /\ root = Null
  /\ status = "pending"

Fail ==
  /\ status' = "error"
  /\ UNCHANGED <<document, patch, todo, root>>

(***************************************************************************)
(* The decode of the document, which must be an object.                    *)
(***************************************************************************)
DecodeDocument ==
  /\ status = "pending"
  /\ IF document # Malformed /\ document[<<>>] = "object"
     THEN /\ root' = document
          /\ status' = "applying"
          /\ UNCHANGED <<document, patch, todo>>
     ELSE Fail

(***************************************************************************)
(* removePointer: deleting an absent member changes nothing, an array      *)
(* element cannot be removed.                                              *)
(***************************************************************************)
RemovePointer(key) ==
  \E m \in Members(root, Tokens(key)) : root' = Pruned(root, m)

(***************************************************************************)
(* setPointer: a member, new or not, or an existing element.               *)
(***************************************************************************)
SetPointer(key, value) ==
  \E l \in Members(root, Tokens(key)) \cup Elements(root, Tokens(key)) :
    root' = Grafted(root, l, value)

CanApply(key) ==
  /\ patch[key] # Malformed
  /\ \/ Members(root, Tokens(key)) # {}
     \/ patch[key] # Null /\ Elements(root, Tokens(key)) # {}

ApplyKeyOrSkip ==
  /\ status = "applying"
  /\ todo # <<>>
  /\ IF ~CanApply(Head(todo)) THEN UNCHANGED root
     ELSE IF patch[Head(todo)] = Null THEN RemovePointer(Head(todo))
     ELSE SetPointer(Head(todo), patch[Head(todo)])
  /\ todo' = Tail(todo)
  /\ UNCHANGED <<document, patch, status>>

ApplyKey ==
  /\ status = "applying"
  /\ todo # <<>>
  /\ LET key == Head(todo)
     IN  IF CanApply(key)
         THEN /\ IF patch[key] = Null THEN RemovePointer(key) ELSE SetPointer(key, patch[key])
              /\ todo' = Tail(todo)
              /\ UNCHANGED <<document, patch, status>>
         ELSE Fail

EncodeDocument ==
  /\ status = "applying"
  /\ todo = <<>>
  /\ status' = "ok"
  /\ UNCHANGED <<document, patch, todo, root>>

Next == DecodeDocument \/ ApplyKey \/ EncodeDocument

Spec == Init /\ [][Next]_vars

-----------------------------------------------------------------------------
Applied == {k \in DOMAIN patch : \A i \in DOMAIN todo : todo[i] # k}

(***************************************************************************)
(* The types of the variables; the copy is a tree at every step, whatever  *)
(* has been set or removed so far.                                         *)
(***************************************************************************)
TypeOK ==
  /\ document \in Documents
  /\ patch \in Patches
  /\ status \in {"pending", "applying", "ok", "error"}
  /\ \A i \in DOMAIN todo : todo[i] \in DOMAIN patch
  /\ IF status = "pending" THEN root = Null
     ELSE status \in {"applying", "ok"} => IsTree(root)

(***************************************************************************)
(* What a key may touch: the location of its tokens, an index token        *)
(* standing for the element parseIndex makes of it, and all below.         *)
(***************************************************************************)
Addresses(tokens, p) ==
  /\ Len(tokens) <= Len(p)
  /\ \A i \in 1 .. Len(tokens) :
       p[i] = tokens[i] \/ (IsDecimal(tokens[i]) /\ Index(p[i]) = Index(tokens[i]))

(***************************************************************************)
(* A key touches what it addresses and nothing else: a location that no    *)
(* applied key addresses holds what it held in the document, present or    *)
(* absent.                                                                 *)
(***************************************************************************)
Framed ==
  status \in {"applying", "ok"} =>
    \A p \in DOMAIN root \cup DOMAIN document :
      \/ \E k \in Applied : Addresses(Tokens(k), p)
      \/ p \in DOMAIN root /\ p \in DOMAIN document /\ root[p] = document[p]

(***************************************************************************)
(* A patch whose keys ValidatePatchKey accepts leaves the root "@type" of  *)
(* the document alone: the patched object is still of its type.            *)
(***************************************************************************)
KeepsType ==
  (status = "ok" /\ \A k \in DOMAIN patch : ValidKey(k)) =>
    /\ <<AtType>> \in DOMAIN root <=> <<AtType>> \in DOMAIN document
    /\ <<AtType>> \in DOMAIN root => root[<<AtType>>] = document[<<AtType>>]

(***************************************************************************)
(* The keys are JSON Pointers as RFC 6901 has them, and no two indexes     *)
(* written in the document, the keys or the values wrap to the same int.   *)
(***************************************************************************)
Names(tree) == UNION {{p[i] : i \in DOMAIN p} : p \in DOMAIN tree}

NamesUsed(d, p) ==
  UNION ({Names(d)} \cup {Range(Tokens(k)) : k \in DOMAIN p}
                    \cup {Names(p[k]) : k \in {l \in DOMAIN p : p[l] \notin {Null, Malformed}}})

Unambiguous ==
  \A p \in Patches :
    /\ \A k \in DOMAIN p : WellEscaped(k)
    /\ \A d \in Documents \ {Malformed} :
         \A t, u \in NamesUsed(d, p) :
           IsDecimal(t) /\ IsDecimal(u) /\ Index(t) = Index(u) => t = u

(***************************************************************************)
(* ApplyPatch as its caller sees it: one answer, the overlay of the whole  *)
(* patch or an error, never a document patched in part.                    *)
(***************************************************************************)
Contract == INSTANCE PatchOverlay WITH
  request <- [document |-> document, patch |-> patch],
  reply   <- [status |-> IF status = "applying" THEN "pending" ELSE status,
              document |-> IF status = "ok" THEN root ELSE Null]

ImplementsContract == Contract!Spec

(***************************************************************************)
(* arrayIndex: "the index is bounds-checked against the length", so no     *)
(* element is set through a number as large as the array or larger, as     *)
(* long as the number is one an int can hold.  (Beyond that parseIndex     *)
(* wraps, and a huge number may name an element.)                          *)
(***************************************************************************)
Decimal(tok) ==
  LET value[n \in 0 .. Len(tok)] ==
        IF n = 0 THEN 0 ELSE value[n - 1] * 10 + (tok[n] - Zero)
  IN  value[Len(tok)]

IndexInBounds ==
  status = "ok" =>
    \A k \in DOMAIN patch :
      \A h \in Holders(root, Tokens(k)) :
        root[h] = "array" /\ Decimal(Last(Tokens(k))) < 2 ^ (IntBits - 1)
        => Decimal(Last(Tokens(k))) < Length(root, h)

=============================================================================
