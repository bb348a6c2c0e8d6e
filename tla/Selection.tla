----------------------------- MODULE Selection -----------------------------
(***************************************************************************)
(* The loops over a list that keep some of its elements, without           *)
(* recursion.                                                              *)
(***************************************************************************)
EXTENDS Integers, FiniteSets

(***************************************************************************)
(* The elements of a sequence at the positions of a set, in their order:   *)
(* the n-th is the one with n of the positions up to it.                   *)
(***************************************************************************)
Count(at, i) == Cardinality({j \in at : j <= i})

Subsequence(s, at) ==
  [n \in 1 .. Cardinality(at) |-> s[CHOOSE i \in at : Count(at, i) = n]]

=============================================================================
