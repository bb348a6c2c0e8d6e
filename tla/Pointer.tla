------------------------------ MODULE Pointer ------------------------------
(***************************************************************************)
(* The keys of a PatchObject: relative JSON Pointers.  A text is a         *)
(* sequence of code points; only the order of texts, the slash, the tilde  *)
(* escapes and the decimal digits matter here.  ApplyPatch (package recur) *)
(* reads any key; ValidatePatchKey (the core package) says which keys are  *)
(* well formed.                                                            *)
(***************************************************************************)
EXTENDS Integers, SequencesExt

CONSTANTS
  AtType,   \* the text "@type"
  IntBits   \* the width of a Go int

ASSUME PointerAssumption ==
  /\ AtType \in Seq(Nat \ {47, 126})  \* neither "/" nor "~"
  /\ IntBits \in Nat \ {0}

(***************************************************************************)
(* Powers of two: true of every width, and stated because the provers have *)
(* no arithmetic of exponents.                                             *)
(***************************************************************************)
ASSUME PowersAssumption ==
  2 ^ (IntBits - 1) \in Nat \ {0} /\ 2 ^ IntBits = 2 * 2 ^ (IntBits - 1)

Dash  == 45
Slash == 47
Zero  == 48
One   == 49
Nine  == 57
Tilde == 126

(***************************************************************************)
(* The order slices.Sort gives: that of the bytes.                         *)
(***************************************************************************)
Before(a, b) ==
  \/ IsStrictPrefix(a, b)
  \/ \E i \in DOMAIN a \cap DOMAIN b :
       a[i] < b[i] /\ \A j \in 1 .. i - 1 : a[j] = b[j]

(***************************************************************************)
(* The keys in sorted order (there is one such sequence).                  *)
(***************************************************************************)
Sortings(keys) ==
  {q \in [1 .. Cardinality(keys) -> keys] :
     \A i, j \in DOMAIN q : i < j => Before(q[i], q[j])}

-----------------------------------------------------------------------------
(***************************************************************************)
(* A finite set of positions in increasing order: the n-th is the one with *)
(* n positions up to it.                                                   *)
(***************************************************************************)
Rank(set, i) == Cardinality({j \in set : j <= i})

Ascending(set) == [n \in 1 .. Cardinality(set) |-> CHOOSE i \in set : Rank(set, i) = n]

(***************************************************************************)
(* strings.Split at the slashes: n slashes make n + 1 pieces, the empty    *)
(* text one empty piece.                                                   *)
(***************************************************************************)
Cuts(key) == {0, Len(key) + 1} \cup {i \in DOMAIN key : key[i] = Slash}

Split(key) ==
  LET cuts == Ascending(Cuts(key))
  IN  [n \in 1 .. Len(cuts) - 1 |-> SubSeq(key, cuts[n] + 1, cuts[n + 1] - 1)]

(***************************************************************************)
(* strings.ReplaceAll of the pair "~" digit by one character.  Two such    *)
(* pairs cannot overlap.                                                   *)
(***************************************************************************)
Hits(text, digit) ==
  {i \in DOMAIN text : i < Len(text) /\ text[i] = Tilde /\ text[i + 1] = digit}

Kept(text, digit) == {i \in DOMAIN text : i - 1 \notin Hits(text, digit)}

ReplaceEscape(text, digit, char) ==
  LET kept == Ascending(Kept(text, digit))
  IN  [n \in DOMAIN kept |-> IF kept[n] \in Hits(text, digit) THEN char ELSE text[kept[n]]]

UnescapeSwapped(piece) ==
  ReplaceEscape(ReplaceEscape(piece, Zero, Tilde), One, Slash)

Unescape(piece) == ReplaceEscape(ReplaceEscape(piece, One, Slash), Zero, Tilde)

(***************************************************************************)
(* patchTokens.                                                            *)
(***************************************************************************)
Tokens(key) == LET pieces == Split(key)
               IN  [n \in DOMAIN pieces |-> Unescape(pieces[n])]

-----------------------------------------------------------------------------
(***************************************************************************)
(* parseIndex: no sign, no leading zero; the value is accumulated in an    *)
(* int that wraps.                                                         *)
(***************************************************************************)
IsDecimal(tok) ==
  /\ tok # <<>>
  /\ \A i \in DOMAIN tok : tok[i] \in Zero .. Nine
  /\ Len(tok) > 1 => tok[1] # Zero

Wrapped(n) ==
  LET r == n % 2 ^ IntBits
  IN  IF r >= 2 ^ (IntBits - 1) THEN r - 2 ^ IntBits ELSE r

Index(tok) ==
  LET value[n \in 0 .. Len(tok)] ==
        IF n = 0 THEN 0 ELSE Wrapped(value[n - 1] * 10 + (tok[n] - Zero))
  IN  value[Len(tok)]

(***************************************************************************)
(* arrayIndex: the token names an element of an array of this length.  The *)
(* append token "-" is no decimal.                                         *)
(***************************************************************************)
NamesElement(tok, length) == IsDecimal(tok) /\ Index(tok) \in 0 .. length - 1

-----------------------------------------------------------------------------
(***************************************************************************)
(* ValidatePointer, less its leading slash, and ValidatePatchKey.          *)
(***************************************************************************)
WellEscapedAtEnd(key) == key = <<>> \/ key[Len(key)] # Tilde

WellEscaped(key) ==
  \A i \in DOMAIN key :
    key[i] = Tilde => i < Len(key) /\ key[i + 1] \in {Zero, One}

ValidKeyUntyped(key) ==
  /\ key # <<>>
  /\ key[1] # Slash
  /\ WellEscaped(key)

ValidKey(key) ==
  /\ key # <<>>
  /\ key[1] # Slash
  /\ key # AtType
  /\ WellEscaped(key)

(***************************************************************************)
(* The Pointer of the PatchError for a key that is not valid: ValidatePatch*)
(* Key's own checks name the key; its call of ValidatePointer hands back   *)
(* the error for the absolute pointer, the key behind a slash.             *)
(***************************************************************************)
ErrorPointer(key) ==
  IF key = <<>> \/ key[1] = Slash \/ key = AtType THEN key ELSE <<Slash>> \o key

=============================================================================
