------------------------- MODULE MCPatchValidation -------------------------
(***************************************************************************)
(* Every patch of one or two keys among the texts of at most three         *)
(* characters over "~", "/", "0", "1" and "@", and every key "@" stands    *)
(* for "@type".                                                            *)
(***************************************************************************)
EXTENDS PatchValidation

MCAtType  == <<64>>
Alphabet  == {Slash, Zero, One, 64, Tilde}
Texts     == BoundedSeq(Alphabet, 3)
MCKeySets == {{k, l} : k, l \in Texts}

=============================================================================
