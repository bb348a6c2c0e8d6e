-------------------------- MODULE PatchValidation --------------------------
(***************************************************************************)
(* PatchObject.Validate: the keys are checked one by one in sorted order   *)
(* and the first offender ends the call.  What an accepted patch may rely  *)
(* on is what ApplyPatch needs of its keys.                                *)
(***************************************************************************)
EXTENDS Pointer

CONSTANTS
  KeySets,  \* the key sets of the patches a caller may validate
  Accepted  \* the nil error

ASSUME KeySetsAssumption ==
  /\ \A set \in KeySets : IsFiniteSet(set) /\ set \subseteq Seq(Nat)
  /\ \A key \in UNION KeySets : Accepted \notin {key, <<Slash>> \o key}

VARIABLES
  keys,      \* the keys of the patch
  unchecked, \* the keys still to check, in order
  verdict    \* <<>> while running, then <<Accepted>> or <<the error's Pointer>>

validation == <<keys, unchecked, verdict>>

ValidateInit ==
  /\ keys \in KeySets
  /\ unchecked \in Sortings(keys)
  /\ verdict = <<>>

CheckLastKey ==
  /\ verdict = <<>>
  /\ unchecked # <<>>
  /\ IF ValidKey(Last(unchecked))
     THEN unchecked' = Front(unchecked) /\ UNCHANGED verdict
     ELSE verdict' = <<ErrorPointer(Last(unchecked))>> /\ UNCHANGED unchecked
  /\ UNCHANGED keys

CheckKey ==
  /\ verdict = <<>>
  /\ unchecked # <<>>
  /\ IF ValidKey(Head(unchecked))
     THEN unchecked' = Tail(unchecked) /\ UNCHANGED verdict
     ELSE verdict' = <<ErrorPointer(Head(unchecked))>> /\ UNCHANGED unchecked
  /\ UNCHANGED keys

Accept ==
  /\ verdict = <<>>
  /\ unchecked = <<>>
  /\ verdict' = <<Accepted>>
  /\ UNCHANGED <<keys, unchecked>>

ValidateNext == CheckKey \/ Accept

ValidateSpec == ValidateInit /\ [][ValidateNext]_validation

-----------------------------------------------------------------------------
(***************************************************************************)
(* The error is the same on every call: it is that of the least of the     *)
(* keys that are not well formed.  Its Pointer is that key when the key is *)
(* empty, starts with a slash or is the root type.  When the escapes of    *)
(* the key are wrong it is the key behind a slash, though the comment on   *)
(* PatchError.Pointer says "the offending key, as it appeared in the       *)
(* PatchObject".                                                           *)
(***************************************************************************)
Refused == verdict # <<>> /\ verdict # <<Accepted>>

FirstOffender ==
  Refused =>
    \E k \in keys :
      /\ ~ValidKey(k)
      /\ \A l \in keys : l = k \/ ValidKey(l) \/ Before(k, l)
      /\ verdict[1] = IF k = <<>> \/ k = AtType \/ Head(k) = Slash THEN k
                      ELSE <<Slash>> \o k

(***************************************************************************)
(* No two keys of an accepted patch address the same member, so the order  *)
(* in which they are applied never picks a winner.                         *)
(***************************************************************************)
Unaliased ==
  verdict = <<Accepted>> =>
    \A k, l \in keys : Tokens(k) = Tokens(l) => k = l

(***************************************************************************)
(* In an accepted patch a key that creates a container sorts before every  *)
(* key that targets inside it, escapes notwithstanding.                    *)
(***************************************************************************)
ParentsFirst ==
  verdict = <<Accepted>> =>
    \A k, l \in keys : IsStrictPrefix(Tokens(k), Tokens(l)) => Before(k, l)

=============================================================================
