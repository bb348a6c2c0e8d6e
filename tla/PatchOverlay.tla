---------------------------- MODULE PatchOverlay ----------------------------
(***************************************************************************)
(* What ApplyPatch promises, with no order of application in it: the       *)
(* patch is laid over the document all at once.  A location is governed by *)
(* the longest key above it; a key can be laid when, in the document under *)
(* the keys above it, the container it names is there.                     *)
(***************************************************************************)
EXTENDS JSONTree

CONSTANTS
  Documents,  \* the documents a caller may patch
  Patches,    \* functions from keys to values
  Null,       \* the removal sentinel
  Malformed   \* a document or a value that does not decode

VARIABLES
  request,  \* [document, patch]
  reply     \* [status, document]

Pending == [status |-> "pending", document |-> Null]
Error   == [status |-> "error", document |-> Null]

Governors(patch, p) == {k \in DOMAIN patch : IsPrefix(Tokens(k), p)}

Governor(patch, p) ==
  CHOOSE k \in Governors(patch, p) :
    \A l \in Governors(patch, p) : Len(Tokens(l)) <= Len(Tokens(k))

(***************************************************************************)
(* The node the patch gives a location, Null when it removes it.           *)
(***************************************************************************)
Given(patch, p) ==
  LET k == Governor(patch, p)
      r == Below(Tokens(k), p)
  IN  IF patch[k] # Null /\ r \in DOMAIN patch[k] THEN patch[k][r] ELSE Null

Overlay(tree, patch) ==
  LET kept  == {p \in DOMAIN tree : Governors(patch, p) = {}}
      given == UNION {{Tokens(k) \o r : r \in DOMAIN patch[k]} :
                        k \in {l \in DOMAIN patch : patch[l] # Null}}
  IN  [p \in kept \cup {q \in given : Given(patch, q) # Null} |->
         IF p \in kept THEN tree[p] ELSE Given(patch, p)]

(***************************************************************************)
(* The document under the keys above a key.                                *)
(***************************************************************************)
Under(tree, patch, key) ==
  Overlay(tree, Restrict(patch, {k \in DOMAIN patch :
                                   IsStrictPrefix(Tokens(k), Tokens(key))}))

Lays(tree, patch, key) ==
  LET under == Under(tree, patch, key)
      above == Front(Tokens(key))
  IN  /\ Tokens(key) # <<<<>>>>
      /\ above \in DOMAIN under
      /\ \/ under[above] = "object"
         \/ under[above] = "array" /\ patch[key] # Null /\ Tokens(key) \in DOMAIN under

Applicable(tree, patch) ==
  /\ tree # Malformed
  /\ tree[<<>>] = "object"
  /\ \A k \in DOMAIN patch : patch[k] # Malformed
  /\ \A k \in DOMAIN patch : Lays(tree, patch, k)

Init ==
  /\ request \in [document : Documents, patch : Patches]
  /\ reply = Pending

Answer ==
  /\ reply = Pending
  /\ reply' = IF Applicable(request.document, request.patch)
              THEN [status |-> "ok",
                    document |-> Overlay(request.document, request.patch)]
              ELSE Error
  /\ UNCHANGED request

Next == Answer

Spec == Init /\ [][Next]_<<request, reply>>

=============================================================================
