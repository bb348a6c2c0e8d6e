------------------------- MODULE AlertTriggerProofs -------------------------
(***************************************************************************)
(* Proofs about AlertTrigger and the values in it.  Duration: a fraction   *)
(* and a text that the formatter wrote are read back, and a parsed text    *)
(* fits the integers.  DateTime: the date found for a day number is the    *)
(* one date with that number.  AlertTrigger: what was decoded and encoded  *)
(* hangs together (Coherent), from which the properties follow.            *)
(***************************************************************************)
EXTENDS AlertTrigger, NaturalsInduction, WellFoundedInduction, TLAPS

-----------------------------------------------------------------------------
(***************************************************************************)
(* A nonempty set of numbers has a least one, which gives induction up to  *)
(* a bound, and a nonempty set of positions a last one.                    *)
(***************************************************************************)
LEMMA LeastNat ==
  ASSUME NEW T, T \subseteq Nat, T # {}
  PROVE  \E n \in T : \A m \in T : n <= m
<1>1. IsWellFoundedOn(OpToRel(<, Nat), Nat)
  BY NatLessThanWellFounded
<1>2. PICK n \in T : \A m \in T : <<m, n>> \notin OpToRel(<, Nat)
  BY <1>1, WFMin
<1>3. \A m \in T : ~(m < n)
  BY <1>2 DEF OpToRel
<1>4. QED
  BY <1>3

LEMMA Upward ==
  ASSUME NEW N \in Nat, NEW S, 0 \in S, \A n \in 1 .. N : n - 1 \in S => n \in S
  PROVE  \A n \in 0 .. N : n \in S
<1> DEFINE T == {n \in 0 .. N : n \notin S}
<1>1. ASSUME T # {} PROVE FALSE
  <2>1. PICK n \in T : \A i \in T : n <= i
    <3>1. T \subseteq Nat
      OBVIOUS
    <3> HIDE DEF T
    <3>2. QED
      BY <1>1, <3>1, LeastNat
  <2>2. n \in 1 .. N /\ n - 1 \in 0 .. N /\ ~(n <= n - 1)
    BY <2>1
  <2>3. n - 1 \in S
    BY <2>1, <2>2
  <2>4. QED
    BY <2>1, <2>2, <2>3
<1>2. QED
  BY <1>1

LEMMA LastOf ==
  ASSUME NEW N \in Nat, NEW T, T \subseteq 1 .. N, T # {}
  PROVE  Max(T) \in T /\ \A i \in T : i <= Max(T)
<1> DEFINE U == {n \in 0 .. N : N - n \in T}
<1>1. U # {} /\ U \subseteq Nat
  <2>1. PICK i \in T : TRUE
    OBVIOUS
  <2>2. i \in 1 .. N /\ N - i \in 0 .. N /\ N - (N - i) = i
    BY <2>1
  <2>3. N - i \in U
    BY <2>1, <2>2
  <2>4. U \subseteq Nat
    OBVIOUS
  <2> HIDE DEF U
  <2>5. QED
    BY <2>3, <2>4
<1>2. PICK n \in U : \A m \in U : n <= m
  <2> HIDE DEF U
  <2>1. QED
    BY <1>1, LeastNat
<1>3. \A i \in T : N - i \in 0 .. N /\ N - (N - i) = i /\ i \in Int
  OBVIOUS
<1>4. \A i \in T : N - i \in U
  BY <1>3
<1>5. N - n \in T /\ n \in 0 .. N
  BY <1>2
<1>6. \A i \in T : n <= N - i
  BY <1>2, <1>4
<1>7. \A i \in T : N - n >= i
  BY <1>3, <1>5, <1>6
<1>8. \E x \in T : \A y \in T : x >= y
  BY <1>5, <1>7
<1>9. Max(T) \in T /\ \A y \in T : Max(T) >= y
  BY <1>8 DEF Max
<1>10. \A y \in T : y \in Int
  BY <1>3
<1>11. QED
  BY <1>9, <1>10

(***************************************************************************)
(* A function defined by recursion up to a bound exists.                   *)
(***************************************************************************)
Recurs(g, N, base, step) ==
  g = [n \in 0 .. N |-> IF n = 0 THEN base ELSE step[n][g[n - 1]]]

LEMMA RecursionExists ==
  ASSUME NEW N \in Nat, NEW S, NEW base \in S, NEW step \in [1 .. N -> [S -> S]]
  PROVE  \E g \in [0 .. N -> S] : Recurs(g, N, base, step)
<1> DEFINE Reached(m) == \E g \in [0 .. m -> S] : Recurs(g, m, base, step)
           R == {m \in 0 .. N : Reached(m)}
<1>1. 0 \in R
  <2> DEFINE g == [n \in 0 .. 0 |-> base]
  <2>1. g \in [0 .. 0 -> S] /\ g = [n \in 0 .. 0 |-> IF n = 0 THEN base ELSE step[n][g[n - 1]]]
    OBVIOUS
  <2> HIDE DEF g
  <2>2. QED
    BY <2>1 DEF Recurs
<1>2. ASSUME NEW m \in 1 .. N, m - 1 \in R PROVE m \in R
  <2> DEFINE i == m - 1
  <2>1. i \in Nat /\ m = i + 1 /\ m \in 0 .. N
    OBVIOUS
  <2>2. Reached(i)
    BY <1>2
  <2> HIDE DEF i
  <2>3. PICK g \in [0 .. i -> S] : Recurs(g, i, base, step)
    BY <2>2
  <2> DEFINE h == [n \in 0 .. i + 1 |-> IF n <= i THEN g[n] ELSE step[i + 1][g[i]]]
  <2>4. g[i] \in S /\ step[i + 1][g[i]] \in S
    <3>1. g[i] \in S /\ i + 1 \in 1 .. N
      BY <2>1
    <3>2. step[i + 1] \in [S -> S]
      BY <3>1
    <3>3. QED
      BY <3>1, <3>2
  <2>5. h \in [0 .. i + 1 -> S]
    BY <2>1, <2>4
  <2>6. ASSUME NEW n \in 0 .. i + 1
        PROVE  h[n] = IF n = 0 THEN base ELSE step[n][h[n - 1]]
    <3>1. \A j \in 0 .. i : g[j] = IF j = 0 THEN base ELSE step[j][g[j - 1]]
      BY <2>3 DEF Recurs
    <3>2. CASE n <= i
      <4>1. n \in 0 .. i /\ h[n] = g[n] /\ (n # 0 => n - 1 \in 0 .. i + 1 /\ h[n - 1] = g[n - 1])
        BY <2>1, <3>2
      <4> HIDE DEF h
      <4>2. QED
        BY <3>1, <4>1
    <3>3. CASE ~(n <= i)
      <4>1. n = i + 1 /\ n # 0 /\ h[n] = step[n][g[i]] /\ n - 1 = i /\ h[i] = g[i]
        BY <2>1, <3>3
      <4> HIDE DEF h
      <4>2. QED
        BY <4>1
    <3>4. QED
      BY <3>2, <3>3
  <2> HIDE DEF h
  <2>7. Recurs(h, i + 1, base, step)
    BY <2>5, <2>6 DEF Recurs
  <2>8. QED
    BY <2>1, <2>5, <2>7
<1> HIDE DEF R
<1>3. N \in R
  <2>1. \A n \in 0 .. N : n \in R
    BY <1>1, <1>2, Upward
  <2>2. QED
    BY <2>1
<1>4. QED
  BY <1>3 DEF R

-----------------------------------------------------------------------------
(***************************************************************************)
(* The quotient by a power of ten and the digit in front of it.            *)
(***************************************************************************)
LEMMA Quotient ==
  ASSUME NEW d \in Nat \ {0}, NEW a \in Nat, NEW e \in Nat, e < d, NEW n, n = d * a + e
  PROVE  n \div d = a
<1>1. n \in Nat
  OBVIOUS
<1>2. PICK q \in Nat, r \in 0 .. d - 1 : n \div d = q /\ n = (d * q) + r
  <2>1. \A m \in Nat, c \in Nat \ {0} : m \div c \in Nat /\ m % c \in 0 .. c - 1 /\ m = (c * (m \div c)) + (m % c)
    OBVIOUS
  <2>2. QED
    BY <1>1, <2>1
<1>3. \A x, y \in Nat : x < y => d * x + d <= d * y
  <2> SUFFICES ASSUME NEW x \in Nat, NEW y \in Nat, x < y PROVE d * x + d <= d * y
    OBVIOUS
  <2>1. PICK z \in Nat : y = x + 1 + z
    <3>1. y - x - 1 \in Nat /\ y = x + 1 + (y - x - 1)
      OBVIOUS
    <3>2. QED
      BY <3>1
  <2>2. d * y = d * x + d + d * z
    BY <2>1
  <2>3. d * z \in Nat /\ d * x \in Nat
    OBVIOUS
  <2>4. QED
    BY <2>2, <2>3
<1>4. d * a \in Nat /\ d * q \in Nat
  OBVIOUS
<1>5. ~(a < q)
  BY <1>2, <1>3, <1>4
<1>6. ~(q < a)
  BY <1>2, <1>3, <1>4
<1>7. QED
  BY <1>2, <1>5, <1>6

LEMMA NextDigit ==
  ASSUME NEW n \in Nat, NEW p \in Nat \ {0}
  PROVE  /\ n \div p \in Nat /\ (n \div p) % 10 \in 0 .. 9
         /\ n \div p = 10 * (n \div (10 * p)) + ((n \div p) % 10)
<1>1. \A m \in Nat, c \in Nat \ {0} : m \div c \in Nat /\ m % c \in 0 .. c - 1 /\ m = (c * (m \div c)) + (m % c)
  OBVIOUS
<1> DEFINE q == n \div p
           r == n % p
           a == q \div 10
           b == q % 10
<1>2. q \in Nat /\ r \in 0 .. p - 1 /\ n = (p * q) + r
  BY <1>1
<1> HIDE DEF q, r
<1>3. a \in Nat /\ b \in 0 .. 9 /\ q = 10 * a + b
  BY <1>2
<1> HIDE DEF a, b
<1>4. p * q = (10 * p) * a + p * b
  BY <1>3
<1>5. p * b \in Nat /\ p * b <= 9 * p
  BY <1>3
<1>6. 10 * p \in Nat \ {0} /\ p * b + r \in Nat /\ p * b + r < 10 * p
  BY <1>2, <1>5
<1>7. n = (10 * p) * a + (p * b + r)
  BY <1>2, <1>3, <1>4, <1>5
<1>8. n \div (10 * p) = a
  BY <1>3, <1>6, <1>7, Quotient
<1>9. QED
  BY <1>2, <1>3, <1>8 DEF q, b

-----------------------------------------------------------------------------
(***************************************************************************)
(* fractionToNanos reads a digit at a time.                                *)
(***************************************************************************)
At(frac, i) == IF i \in DOMAIN frac THEN frac[i] ELSE 0

LEMMA Powers ==
  /\ 10 ^ 0 = 1
  /\ \A i \in 0 .. NanoDigits + 1 : 10 ^ i \in Nat \ {0}
  /\ \A i \in 0 .. NanoDigits : 10 ^ (i + 1) = 10 * 10 ^ i
<1>1. NanoDigits \in Nat \ {0}
  BY DurationAssumption
<1>2. ASSUME NEW i \in 0 .. NanoDigits + 1 PROVE 10 ^ i \in Nat \ {0}
  <2>1. CASE i = NanoDigits + 1
    <3>1. NanoDigits \in 0 .. NanoDigits
      BY <1>1
    <3>2. 10 ^ NanoDigits \in Nat \ {0} /\ 10 ^ i = 10 * 10 ^ NanoDigits
      BY <2>1, <3>1, PowersOfTen
    <3>3. \A p \in Nat \ {0} : 10 * p \in Nat \ {0}
      OBVIOUS
    <3>4. QED
      BY <3>2, <3>3
  <2>2. CASE i # NanoDigits + 1
    <3>1. i \in 0 .. NanoDigits
      BY <1>1, <2>2
    <3>2. QED
      BY <3>1, PowersOfTen
  <2>3. QED
    BY <2>1, <2>2
<1>3. QED
  BY <1>2, PowersOfTen

LEMMA NanosRun ==
  ASSUME NEW frac, \A i \in 1 .. NanoDigits : At(frac, i) \in 0 .. 9
  PROVE  \E g \in [0 .. NanoDigits -> Nat] :
           /\ g[0] = 0 /\ g[NanoDigits] = Nanos(frac)
           /\ \A i \in 1 .. NanoDigits : g[i] = 10 * g[i - 1] + At(frac, i)
<1> DEFINE N == NanoDigits
           step == [i \in 1 .. N |-> [v \in Nat |-> 10 * v + At(frac, i)]]
<1>1. N \in Nat
  BY DurationAssumption
<1>2. step \in [1 .. N -> [Nat -> Nat]]
  OBVIOUS
<1>3. \A i \in 1 .. N, v \in Nat : step[i][v] = 10 * v + At(frac, i)
  OBVIOUS
<1> HIDE DEF step
<1>4. PICK g \in [0 .. N -> Nat] : Recurs(g, N, 0, step)
  BY <1>1, <1>2, RecursionExists
<1> DEFINE Value(h) ==
      h = [i \in 0 .. N |-> IF i = 0 THEN 0
                            ELSE 10 * h[i - 1] + (IF i \in DOMAIN frac THEN frac[i] ELSE 0)]
<1> HIDE DEF N
<1>5. g[0] = 0 /\ \A i \in 1 .. N : g[i] = 10 * g[i - 1] + At(frac, i)
  <2>1. \A i \in 0 .. N : g[i] = IF i = 0 THEN 0 ELSE step[i][g[i - 1]]
    BY <1>4 DEF Recurs
  <2>2. 0 \in 0 .. N /\ \A i \in 1 .. N : i - 1 \in 0 .. N /\ i \in 0 .. N /\ i # 0
    BY <1>1
  <2>3. \A i \in 1 .. N : g[i] = step[i][g[i - 1]] /\ g[i - 1] \in Nat
    BY <1>4, <2>1, <2>2
  <2>4. QED
    BY <1>3, <2>1, <2>2, <2>3
<1>6. \A h : Value(h) <=> h = [i \in 0 .. N |-> IF i = 0 THEN 0 ELSE 10 * h[i - 1] + At(frac, i)]
  BY Zenon DEF At
<1>7. Value(g)
  <2>1. \A i \in 0 .. N : i # 0 => i \in 1 .. N
    BY <1>1
  <2>2. \A i \in 0 .. N : g[i] = IF i = 0 THEN 0 ELSE 10 * g[i - 1] + At(frac, i)
    BY <1>5, <2>1
  <2> HIDE DEF Value
  <2>3. g = [i \in 0 .. N |-> IF i = 0 THEN 0 ELSE 10 * g[i - 1] + At(frac, i)]
    BY <1>4, <2>2
  <2>4. QED
    BY <1>6, <2>3
<1>8. ASSUME NEW h, Value(h) PROVE h[N] = g[N]
  <2> HIDE DEF Value
  <2>1. h = [i \in 0 .. N |-> IF i = 0 THEN 0 ELSE 10 * h[i - 1] + At(frac, i)]
    BY <1>6, <1>8
  <2> DEFINE S == {i \in 0 .. N : h[i] = g[i]}
  <2>2. 0 \in 0 .. N /\ N \in 0 .. N /\ \A i \in 1 .. N : i \in 0 .. N /\ i # 0
    BY <1>1
  <2>3. h[0] = g[0] /\ \A i \in 1 .. N : h[i] = 10 * h[i - 1] + At(frac, i)
    BY <1>5, <2>1, <2>2
  <2>4. 0 \in S /\ \A i \in 1 .. N : i - 1 \in S => i \in S
    BY <1>5, <2>2, <2>3
  <2> HIDE DEF S
  <2>5. N \in S
    <3>1. \A i \in 0 .. N : i \in S
      BY <1>1, <2>4, Upward
    <3>2. QED
      BY <2>2, <3>1
  <2>6. QED
    BY <2>5 DEF S
<1>9. Nanos(frac) = g[N]
  <2>1. Nanos(frac) = (CHOOSE h : Value(h))[N]
    BY DEF Nanos, N
  <2> HIDE DEF Value
  <2>2. QED
    BY <1>7, <1>8, <2>1
<1>10. QED
  BY <1>4, <1>5, <1>9 DEF N

(***************************************************************************)
(* What is cut off behind the resolution leaves less than a second.        *)
(***************************************************************************)
LEMMA NanosBelow ==
  ASSUME NEW frac, \A i \in 1 .. NanoDigits : At(frac, i) \in 0 .. 9
  PROVE  Nanos(frac) \in Nat /\ Nanos(frac) < 10 ^ NanoDigits
<1> DEFINE N == NanoDigits
<1>1. N \in Nat
  BY DurationAssumption
<1>2. PICK g \in [0 .. N -> Nat] :
        /\ g[0] = 0 /\ g[N] = Nanos(frac)
        /\ \A i \in 1 .. N : g[i] = 10 * g[i - 1] + At(frac, i)
  BY NanosRun
<1> DEFINE S == {i \in 0 .. N : g[i] < 10 ^ i}
<1>3. 0 \in S
  BY <1>1, <1>2, Powers
<1>4. ASSUME NEW i \in 1 .. N, i - 1 \in S PROVE i \in S
  <2> DEFINE p == 10 ^ (i - 1)
             q == 10 ^ i
             a == g[i - 1]
             b == g[i]
             d == At(frac, i)
  <2>1. i \in 0 .. N /\ i - 1 \in 0 .. N /\ (i - 1) + 1 = i /\ i - 1 \in 0 .. N + 1
    BY <1>1
  <2>2. p \in Nat \ {0} /\ q = 10 * p
    BY <2>1, Powers
  <2>3. a \in Nat /\ a < p /\ b = 10 * a + d /\ d \in 0 .. 9
    BY <1>2, <1>4, <2>1
  <2> HIDE DEF p, q, a, b, d
  <2>4. b < q
    BY <2>2, <2>3
  <2>5. QED
    BY <2>1, <2>4 DEF b, q
<1> HIDE DEF S
<1>5. \A i \in 0 .. N : i \in S
  BY <1>1, <1>3, <1>4, Upward
<1>6. N \in S /\ N \in 0 .. N
  BY <1>1, <1>5
<1>7. QED
  BY <1>2, <1>6 DEF S

(***************************************************************************)
(* The digits of a number that has at most `width` of them, the leading    *)
(* zeros included: they are digits, they make the number, and one of a     *)
(* number other than zero is not zero.                                     *)
(***************************************************************************)
LEMMA DigitSteps ==
  ASSUME NEW width \in 0 .. NanoDigits + 1, NEW n \in Nat, n < 10 ^ width
  PROVE  /\ n \div 10 ^ (width - 0) = 0 /\ n \div 10 ^ (width - width) = n
         /\ \A i \in 1 .. width :
              /\ n \div 10 ^ (width - i) \in Nat /\ Digit(n, width, i) \in 0 .. 9
              /\ n \div 10 ^ (width - i) = 10 * (n \div 10 ^ (width - (i - 1))) + Digit(n, width, i)
<1>1. NanoDigits \in Nat
  BY DurationAssumption
<1>2. width - 0 = width /\ width - width = 0 /\ width \in Nat
  BY <1>1
<1>3. n \div 10 ^ (width - 0) = 0
  <2> DEFINE p == 10 ^ width
  <2>1. p \in Nat \ {0} /\ n < p
    BY Powers
  <2> HIDE DEF p
  <2>2. n = p * 0 + n
    BY <2>1
  <2>3. n \div p = 0
    BY <2>1, <2>2, Quotient
  <2>4. QED
    BY <1>2, <2>3 DEF p
<1>4. n \div 10 ^ (width - width) = n
  <2>1. 10 ^ (width - width) = 1
    BY <1>2, Powers
  <2>2. n \div 1 = n
    OBVIOUS
  <2>3. QED
    BY <2>1, <2>2
<1>5. ASSUME NEW i \in 1 .. width
      PROVE  /\ n \div 10 ^ (width - i) \in Nat /\ Digit(n, width, i) \in 0 .. 9
             /\ n \div 10 ^ (width - i) = 10 * (n \div 10 ^ (width - (i - 1))) + Digit(n, width, i)
  <2> DEFINE p == 10 ^ (width - i)
             q == 10 ^ (width - (i - 1))
  <2>1. width - i \in 0 .. NanoDigits /\ (width - i) + 1 = width - (i - 1) /\ width - i \in 0 .. NanoDigits + 1
    BY <1>1, <1>2
  <2>2. p \in Nat \ {0} /\ q = 10 * p
    BY <2>1, Powers
  <2>3. Digit(n, width, i) = (n \div p) % 10
    BY DEF Digit
  <2> HIDE DEF p, q
  <2>4. /\ n \div p \in Nat /\ (n \div p) % 10 \in 0 .. 9
        /\ n \div p = 10 * (n \div (10 * p)) + ((n \div p) % 10)
    BY <2>2, NextDigit
  <2>5. /\ n \div p \in Nat /\ Digit(n, width, i) \in 0 .. 9
        /\ n \div p = 10 * (n \div q) + Digit(n, width, i)
    BY <2>2, <2>3, <2>4
  <2>6. QED
    BY <2>5 DEF p, q
<1>6. QED
  BY <1>3, <1>4, <1>5

LEMMA NonZeroDigit ==
  ASSUME NEW width \in 0 .. NanoDigits + 1, NEW n \in Nat \ {0}, n < 10 ^ width
  PROVE  \E i \in 1 .. width : Digit(n, width, i) # 0
<1> SUFFICES ASSUME \A i \in 1 .. width : Digit(n, width, i) = 0
             PROVE  FALSE
  OBVIOUS
<1> DEFINE left(i) == n \div 10 ^ (width - i)
           S == {i \in 0 .. width : left(i) = 0}
<1>1. width \in Nat
  BY DurationAssumption
<1>2. /\ left(0) = 0 /\ left(width) = n
      /\ \A i \in 1 .. width : left(i) = 10 * left(i - 1) + Digit(n, width, i)
  BY DigitSteps
<1> HIDE DEF left
<1>3. 0 \in S
  BY <1>1, <1>2
<1>4. \A i \in 1 .. width : i - 1 \in S => i \in S
  BY <1>1, <1>2
<1> HIDE DEF S
<1>5. \A i \in 0 .. width : i \in S
  BY <1>1, <1>3, <1>4, Upward
<1>6. width \in S
  BY <1>1, <1>5
<1>7. QED
  BY <1>2, <1>6 DEF S

(***************************************************************************)
(* writeSeconds gives decimal digits, and fractionToNanos takes them back. *)
(***************************************************************************)
LEMMA FractionDigits ==
  ASSUME NEW n \in Nat \ {0}, NEW width, width = (IF n < 10 ^ NanoDigits THEN NanoDigits ELSE NanoDigits + 1),
         n < 10 ^ width
  PROVE  \E kept \in 1 .. width :
           /\ Fraction(n) = [i \in 1 .. kept |-> Digit(n, width, i)]
           /\ \A i \in 1 .. width : /\ Digit(n, width, i) \in 0 .. 9
                                    /\ i > kept => Digit(n, width, i) = 0
<1>1. width \in 0 .. NanoDigits + 1 /\ width \in Nat
  BY DurationAssumption
<1> DEFINE T == {i \in 1 .. width : Digit(n, width, i) # 0}
           kept == Max(T)
<1>2. T # {} /\ T \subseteq 1 .. width
  BY <1>1, NonZeroDigit
<1>3. Fraction(n) = [i \in 1 .. kept |-> Digit(n, width, i)]
  BY DEF Fraction
<1>4. kept \in T /\ \A i \in T : i <= kept
  <2> HIDE DEF T
  <2>1. QED
    BY <1>1, <1>2, LastOf
<1> HIDE DEF kept
<1>5. kept \in 1 .. width
  BY <1>4
<1>6. \A i \in 1 .. width : i > kept => Digit(n, width, i) = 0
  BY <1>4, <1>5
<1>7. \A i \in 1 .. width : Digit(n, width, i) \in 0 .. 9
  BY <1>1, DigitSteps
<1>8. QED
  BY <1>3, <1>5, <1>6, <1>7

LEMMA FractionTyped ==
  ASSUME NEW n \in 0 .. 10 ^ (NanoDigits + 1) - 1
  PROVE  Fraction(n) \in Seq(0 .. 9) \cup {NoPoint}
<1>1. CASE n = 0
  BY <1>1 DEF Fraction
<1>2. CASE n # 0
  <2> DEFINE width == IF n < 10 ^ NanoDigits THEN NanoDigits ELSE NanoDigits + 1
  <2>1. 10 ^ (NanoDigits + 1) \in Nat /\ NanoDigits \in Nat
    <3>1. NanoDigits \in Nat /\ NanoDigits + 1 \in 0 .. NanoDigits + 1
      BY DurationAssumption
    <3>2. QED
      BY <3>1, Powers
  <2>2. n \in Nat \ {0} /\ n < 10 ^ (NanoDigits + 1)
    BY <1>2, <2>1
  <2>3. n < 10 ^ width
    BY <2>2
  <2>4. width \in Nat
    BY <2>1
  <2> HIDE DEF width
  <2>5. PICK kept \in 1 .. width :
          /\ Fraction(n) = [i \in 1 .. kept |-> Digit(n, width, i)]
          /\ \A i \in 1 .. width : Digit(n, width, i) \in 0 .. 9
    BY <2>2, <2>3, FractionDigits DEF width
  <2>6. kept \in Nat /\ \A i \in 1 .. kept : i \in 1 .. width
    BY <2>4
  <2>7. QED
    BY <2>5, <2>6
<1>3. QED
  BY <1>1, <1>2

LEMMA FractionRead ==
  ASSUME NEW n \in Nat \ {0}, n < 10 ^ NanoDigits
  PROVE  /\ Fraction(n) \in Seq(0 .. 9) /\ Fraction(n) # <<>> /\ Fraction(n) # NoPoint
         /\ Nanos(Fraction(n)) = n
<1> DEFINE width == NanoDigits
<1>1. width \in Nat /\ width \in 0 .. NanoDigits + 1 /\ n < 10 ^ width
  BY DurationAssumption
<1>2. PICK kept \in 1 .. width :
        /\ Fraction(n) = [i \in 1 .. kept |-> Digit(n, width, i)]
        /\ \A i \in 1 .. width : /\ Digit(n, width, i) \in 0 .. 9
                                 /\ i > kept => Digit(n, width, i) = 0
  BY FractionDigits
<1> HIDE DEF width
<1>3. kept \in Nat \ {0} /\ \A i \in 1 .. kept : i \in 1 .. width
  BY <1>1
<1>4. Fraction(n) \in Seq(0 .. 9) /\ Fraction(n) # <<>>
  BY <1>2, <1>3
<1>5. Fraction(n) # NoPoint
  BY <1>4, DurationAssumption
<1>6. \A i \in 1 .. width : At(Fraction(n), i) = Digit(n, width, i)
  <2> SUFFICES ASSUME NEW i \in 1 .. width PROVE At(Fraction(n), i) = Digit(n, width, i)
    OBVIOUS
  <2>1. CASE i <= kept
    <3>1. i \in 1 .. kept
      BY <1>1, <1>3, <2>1
    <3>2. QED
      BY <1>2, <3>1 DEF At
  <2>2. CASE ~(i <= kept)
    <3>1. i \notin 1 .. kept /\ i > kept
      BY <1>1, <1>3, <2>2
    <3>2. QED
      BY <1>2, <3>1 DEF At
  <2>3. QED
    BY <2>1, <2>2
<1>7. \A i \in 1 .. width : At(Fraction(n), i) \in 0 .. 9
  BY <1>2, <1>6
<1>8. PICK g \in [0 .. width -> Nat] :
        /\ g[0] = 0 /\ g[width] = Nanos(Fraction(n))
        /\ \A i \in 1 .. width : g[i] = 10 * g[i - 1] + At(Fraction(n), i)
  BY <1>7, NanosRun DEF width
<1> DEFINE left(i) == n \div 10 ^ (width - i)
           S == {i \in 0 .. width : g[i] = left(i)}
<1>9. /\ left(0) = 0 /\ left(width) = n
      /\ \A i \in 1 .. width : left(i) = 10 * left(i - 1) + Digit(n, width, i)
  BY <1>1, DigitSteps
<1> HIDE DEF left
<1>10. 0 \in S
  BY <1>1, <1>8, <1>9
<1>11. ASSUME NEW i \in 1 .. width, i - 1 \in S PROVE i \in S
  <2>1. i \in 0 .. width
    BY <1>1
  <2>2. g[i - 1] = left(i - 1)
    BY <1>11
  <2>3. g[i] = left(i)
    BY <1>6, <1>8, <1>9, <2>2
  <2>4. QED
    BY <2>1, <2>3
<1> HIDE DEF S
<1>12. \A i \in 0 .. width : i \in S
  BY <1>1, <1>10, <1>11, Upward
<1>13. width \in S
  BY <1>1, <1>12
<1>14. QED
  BY <1>4, <1>5, <1>8, <1>9, <1>13 DEF S

-----------------------------------------------------------------------------
(***************************************************************************)
(* Three components, those that are zero left out.                         *)
(***************************************************************************)
Kept(c) == ~(c.whole = 0 /\ c.frac = NoPoint)

Laid(s, x, y, z) ==
  /\ s \in Seq({x, y, z})
  /\ \A c \in {x, y, z} : (\E i \in 1 .. Len(s) : s[i] = c) <=> Kept(c)
  /\ \A i, j \in 1 .. Len(s) : i < j => \/ s[i] = x /\ s[j] \in {y, z}
                                        \/ s[i] = y /\ s[j] = z

LEMMA Concatenated ==
  ASSUME NEW x, NEW y, NEW z, x # y, y # z, x # z
  PROVE  Laid(NonZero(x) \o NonZero(y) \o NonZero(z), x, y, z)
<1> DEFINE S == {x, y, z}
           X == NonZero(x)
           Y == NonZero(y)
           Z == NonZero(z)
           s == X \o Y \o Z
<1>1. \A c \in S : /\ NonZero(c) \in Seq(S)
                   /\ Len(NonZero(c)) = IF Kept(c) THEN 1 ELSE 0
                   /\ \A i \in 1 .. Len(NonZero(c)) : NonZero(c)[i] = c
  <2> SUFFICES ASSUME NEW c \in S
               PROVE  /\ NonZero(c) \in Seq(S)
                      /\ Len(NonZero(c)) = IF Kept(c) THEN 1 ELSE 0
                      /\ \A i \in 1 .. Len(NonZero(c)) : NonZero(c)[i] = c
    OBVIOUS
  <2> HIDE DEF S
  <2>1. CASE Kept(c)
    <3>1. NonZero(c) = <<c>>
      BY <2>1 DEF NonZero, Kept
    <3>2. QED
      BY <2>1, <3>1
  <2>2. CASE ~Kept(c)
    <3>1. NonZero(c) = <<>>
      BY <2>2 DEF NonZero, Kept
    <3>2. QED
      BY <2>2, <3>1
  <2>3. QED
    BY <2>1, <2>2
<1>2. \A p, q \in Seq(S) :
        /\ p \o q \in Seq(S) /\ Len(p) \in Nat /\ Len(p \o q) = Len(p) + Len(q)
        /\ \A i \in 1 .. Len(p) + Len(q) : (p \o q)[i] = IF i <= Len(p) THEN p[i] ELSE q[i - Len(p)]
  OBVIOUS
<1>3. x \in S /\ y \in S /\ z \in S /\ S = {x, y, z}
  OBVIOUS
<1> DEFINE k == Len(X)
           l == Len(Y)
           m == Len(Z)
<1> HIDE DEF S
<1>4. /\ k = IF Kept(x) THEN 1 ELSE 0
      /\ l = IF Kept(y) THEN 1 ELSE 0
      /\ m = IF Kept(z) THEN 1 ELSE 0
  BY <1>1, <1>3
<1>5. /\ X \in Seq(S) /\ \A i \in 1 .. k : X[i] = x
      /\ Y \in Seq(S) /\ \A i \in 1 .. l : Y[i] = y
      /\ Z \in Seq(S) /\ \A i \in 1 .. m : Z[i] = z
  BY <1>1, <1>3
<1> HIDE DEF X, Y, Z
<1>6. /\ X \o Y \in Seq(S) /\ Len(X \o Y) = k + l
      /\ \A i \in 1 .. k + l : (X \o Y)[i] = IF i <= k THEN X[i] ELSE Y[i - k]
  BY <1>2, <1>5
<1>7. /\ s \in Seq(S) /\ Len(s) = Len(X \o Y) + m
      /\ \A i \in 1 .. Len(X \o Y) + m :
           s[i] = IF i <= Len(X \o Y) THEN (X \o Y)[i] ELSE Z[i - Len(X \o Y)]
  BY <1>2, <1>5, <1>6
<1> HIDE DEF s, k, l, m
<1>8. /\ s \in Seq(S) /\ Len(s) = k + l + m
      /\ \A i \in 1 .. k + l + m :
           s[i] = IF i <= k THEN x ELSE IF i <= k + l THEN y ELSE z
  <2>1. k \in 0 .. 1 /\ l \in 0 .. 1 /\ m \in 0 .. 1
    BY <1>4
  <2>2. s \in Seq(S) /\ Len(s) = k + l + m
    BY <1>6, <1>7
  <2>3. ASSUME NEW i \in 1 .. k + l + m
        PROVE  s[i] = IF i <= k THEN x ELSE IF i <= k + l THEN y ELSE z
    <3>1. s[i] = IF i <= k + l THEN (X \o Y)[i] ELSE Z[i - (k + l)]
      BY <1>6, <1>7
    <3>2. CASE i <= k
      <4>1. i \in 1 .. k /\ i \in 1 .. k + l /\ i <= k + l
        BY <2>1, <3>2
      <4>2. QED
        BY <1>5, <1>6, <3>1, <3>2, <4>1
    <3>3. CASE ~(i <= k) /\ i <= k + l
      <4>1. i - k \in 1 .. l /\ i \in 1 .. k + l
        BY <2>1, <3>3
      <4>2. QED
        BY <1>5, <1>6, <3>1, <3>3, <4>1
    <3>4. CASE ~(i <= k) /\ ~(i <= k + l)
      <4>1. i - (k + l) \in 1 .. m
        BY <2>1, <3>4
      <4>2. QED
        BY <1>5, <3>1, <3>4, <4>1
    <3>5. QED
      BY <3>2, <3>3, <3>4
  <2>4. QED
    BY <2>2, <2>3
<1>9. \A c \in S : (\E i \in 1 .. Len(s) : s[i] = c) <=> Kept(c)
  <2>1. k \in 0 .. 1 /\ l \in 0 .. 1 /\ m \in 0 .. 1
    BY <1>4
  <2>2. (\E i \in 1 .. Len(s) : s[i] = x) <=> Kept(x)
    <3>1. Kept(x) => k = 1 /\ 1 \in 1 .. k + l + m /\ 1 <= k
      BY <1>4, <2>1
    <3>2. \A i \in 1 .. k + l + m : ~Kept(x) => ~(i <= k)
      BY <1>4, <2>1
    <3>3. QED
      BY <1>8, <3>1, <3>2
  <2>3. (\E i \in 1 .. Len(s) : s[i] = y) <=> Kept(y)
    <3>1. Kept(y) => k + 1 \in 1 .. k + l + m /\ ~(k + 1 <= k) /\ k + 1 <= k + l
      BY <1>4, <2>1
    <3>2. \A i \in 1 .. k + l + m : ~Kept(y) => (i <= k + l => i <= k)
      BY <1>4, <2>1
    <3>3. QED
      BY <1>8, <3>1, <3>2
  <2>4. (\E i \in 1 .. Len(s) : s[i] = z) <=> Kept(z)
    <3>1. Kept(z) => k + l + 1 \in 1 .. k + l + m /\ ~(k + l + 1 <= k) /\ ~(k + l + 1 <= k + l)
      BY <1>4, <2>1
    <3>2. \A i \in 1 .. k + l + m : ~Kept(z) => i <= k + l
      BY <1>4, <2>1
    <3>3. QED
      BY <1>8, <3>1, <3>2
  <2>5. QED
    BY <1>3, <2>2, <2>3, <2>4
<1>10. \A i, j \in 1 .. Len(s) : i < j => \/ s[i] = x /\ s[j] \in {y, z}
                                          \/ s[i] = y /\ s[j] = z
  <2> SUFFICES ASSUME NEW i \in 1 .. Len(s), NEW j \in 1 .. Len(s), i < j
               PROVE  \/ s[i] = x /\ s[j] \in {y, z}
                      \/ s[i] = y /\ s[j] = z
    OBVIOUS
  <2>1. k \in 0 .. 1 /\ l \in 0 .. 1 /\ m \in 0 .. 1
    BY <1>4
  <2>2. i \in 1 .. k + l + m /\ j \in 1 .. k + l + m
    BY <1>8
  <2>3. CASE i <= k
    <3>1. ~(j <= k)
      BY <2>1, <2>2, <2>3
    <3>2. QED
      BY <1>8, <2>2, <2>3, <3>1
  <2>4. CASE ~(i <= k)
    <3>1. i <= k + l /\ ~(j <= k) /\ ~(j <= k + l)
      BY <2>1, <2>2, <2>4
    <3>2. QED
      BY <1>8, <2>2, <2>4, <3>1
  <2>5. QED
    BY <2>3, <2>4
<1>11. QED
  BY <1>3, <1>8, <1>9, <1>10 DEF Laid, s, X, Y, Z

LEMMA Positions ==
  ASSUME NEW u, NEW v, NEW w, u # v, v # w, u # w, NEW units, units = <<u, v, w>>
  PROVE  /\ Contains(units, u) /\ Contains(units, v) /\ Contains(units, w)
         /\ Position(units, u) = 1 /\ Position(units, v) = 2 /\ Position(units, w) = 3
<1>1. DOMAIN units = {1, 2, 3} /\ units[1] = u /\ units[2] = v /\ units[3] = w /\ Len(units) = 3
  OBVIOUS
<1>2. Contains(units, u) /\ Contains(units, v) /\ Contains(units, w)
  BY <1>1 DEF Contains
<1>3. Position(units, u) = 1
  BY <1>1 DEF Position
<1>4. Position(units, v) = 2
  BY <1>1 DEF Position
<1>5. Position(units, w) = 3
  BY <1>1 DEF Position
<1>6. QED
  BY <1>2, <1>3, <1>4, <1>5

(***************************************************************************)
(* Written in the order of the units, the components are read back.        *)
(***************************************************************************)
IsComponent(c) == c = Component(c.whole, c.frac, c.unit)

PartsAre(s, x, y, z) ==
  /\ Field(s, x.unit) = x /\ Field(s, y.unit) = y /\ Field(s, z.unit) = z
  /\ Ordered(s, <<x.unit, y.unit, z.unit>>)
  /\ s \in Seq({x, y, z}) /\ DOMAIN s = 1 .. Len(s)
  /\ \A i \in 1 .. Len(s) : s[i] \in {x, y, z} /\ Kept(s[i])
  /\ (s = <<>>) <=> (~Kept(x) /\ ~Kept(y) /\ ~Kept(z))

AreComponents(x, y, z) ==
  /\ x.unit # y.unit /\ y.unit # z.unit /\ x.unit # z.unit
  /\ IsComponent(x) /\ IsComponent(y) /\ IsComponent(z)

LEMMA ComponentsRead ==
  \A x, y, z : AreComponents(x, y, z) =>
    PartsAre(NonZero(x) \o NonZero(y) \o NonZero(z), x, y, z)
<1> SUFFICES ASSUME NEW x, NEW y, NEW z, AreComponents(x, y, z),
                    NEW s, s = NonZero(x) \o NonZero(y) \o NonZero(z)
             PROVE  PartsAre(s, x, y, z)
  OBVIOUS
<1>0. /\ x.unit # y.unit /\ y.unit # z.unit /\ x.unit # z.unit
      /\ IsComponent(x) /\ IsComponent(y) /\ IsComponent(z)
  BY DEF AreComponents
<1> DEFINE u == x.unit
           v == y.unit
           w == z.unit
<1>1. x.unit = u /\ y.unit = v /\ z.unit = w /\ u # v /\ v # w /\ u # w
  BY <1>0
<1> HIDE DEF u, v, w
<1>2. Laid(s, x, y, z)
  <2>1. x # y /\ y # z /\ x # z
    BY <1>1
  <2>2. QED
    BY <2>1, Concatenated
<1>3. s \in Seq({x, y, z}) /\ Len(s) \in Nat /\ DOMAIN s = 1 .. Len(s)
  BY <1>2 DEF Laid
<1>4. \A k \in {x, y, z} : (\E i \in 1 .. Len(s) : s[i] = k) <=> Kept(k)
  BY <1>2 DEF Laid
<1>5. \A i \in 1 .. Len(s) : s[i] \in {x, y, z} /\ Kept(s[i])
  <2>1. \A S : \A t \in Seq(S) : \A i \in 1 .. Len(t) : t[i] \in S
    OBVIOUS
  <2>2. \A i \in 1 .. Len(s) : s[i] \in {x, y, z}
    BY <1>3, <2>1
  <2>3. QED
    BY <1>4, <2>2
<1>6. \A k \in {x, y, z}, i \in 1 .. Len(s) : s[i].unit = k.unit <=> s[i] = k
  <2> SUFFICES ASSUME NEW k \in {x, y, z}, NEW i \in 1 .. Len(s)
               PROVE  s[i].unit = k.unit <=> s[i] = k
    OBVIOUS
  <2> DEFINE e == s[i]
  <2>1. e \in {x, y, z}
    BY <1>5
  <2> HIDE DEF e
  <2>2. e.unit = k.unit <=> e = k
    BY <1>1, <2>1
  <2>3. QED
    BY <2>2 DEF e
<1>7. \A k \in {x, y, z} : Kept(k) => Field(s, k.unit) = k
  <2> SUFFICES ASSUME NEW k \in {x, y, z}, Kept(k) PROVE Field(s, k.unit) = k
    OBVIOUS
  <2>1. \E i \in DOMAIN s : s[i].unit = k.unit
    <3>1. PICK i \in 1 .. Len(s) : s[i] = k
      BY <1>4
    <3>2. QED
      BY <1>3, <3>1
  <2>2. Field(s, k.unit) = s[CHOOSE i \in DOMAIN s : s[i].unit = k.unit]
    BY <2>1 DEF Field
  <2> DEFINE i == CHOOSE j \in DOMAIN s : s[j].unit = k.unit
  <2>3. i \in 1 .. Len(s) /\ s[i].unit = k.unit
    BY <1>3, <2>1
  <2> HIDE DEF i
  <2>4. s[i] = k
    BY <1>6, <2>3
  <2>5. QED
    BY <2>2, <2>4 DEF i
<1>8. \A k \in {x, y, z} : ~Kept(k) => Field(s, k.unit) = Component(0, NoPoint, k.unit)
  <2> SUFFICES ASSUME NEW k \in {x, y, z}, ~Kept(k)
               PROVE  Field(s, k.unit) = Component(0, NoPoint, k.unit)
    OBVIOUS
  <2>1. ~\E i \in DOMAIN s : s[i].unit = k.unit
    BY <1>3, <1>4, <1>6
  <2>2. QED
    BY <2>1 DEF Field
<1>9. \A k \in {x, y, z} : ~Kept(k) => k = Component(0, NoPoint, k.unit)
  BY <1>0 DEF Kept, IsComponent
<1>10. Field(s, u) = x /\ Field(s, v) = y /\ Field(s, w) = z
  BY <1>1, <1>7, <1>8, <1>9
<1>11. Ordered(s, <<u, v, w>>)
  <2> DEFINE units == <<u, v, w>>
  <2>1. /\ Contains(units, u) /\ Contains(units, v) /\ Contains(units, w)
        /\ Position(units, u) = 1 /\ Position(units, v) = 2 /\ Position(units, w) = 3
    BY <1>1, Positions
  <2> HIDE DEF units
  <2>2. \A i \in DOMAIN s : Contains(units, s[i].unit)
    BY <1>1, <1>3, <1>5, <2>1
  <2>3. ASSUME NEW i \in DOMAIN s \ {1}
        PROVE  Position(units, s[i - 1].unit) < Position(units, s[i].unit)
    <3>1. i \in 1 .. Len(s) /\ i - 1 \in 1 .. Len(s) /\ i - 1 < i
      BY <1>3
    <3>2. \/ s[i - 1] = x /\ s[i] \in {y, z}
          \/ s[i - 1] = y /\ s[i] = z
      <4>1. \A m, n \in 1 .. Len(s) : m < n => (s[m] = x /\ s[n] \in {y, z}) \/ (s[m] = y /\ s[n] = z)
        BY <1>2 DEF Laid
      <4>2. QED
        BY <3>1, <4>1
    <3>3. s[i - 1].unit \in {u, v} /\ s[i].unit \in {v, w} /\ (s[i - 1].unit = v => s[i].unit = w)
      BY <1>1, <3>2
    <3>4. QED
      BY <2>1, <3>3
  <2>4. QED
    BY <2>2, <2>3 DEF Ordered, units
<1>12. s = <<>> <=> ~Kept(x) /\ ~Kept(y) /\ ~Kept(z)
  <2>1. s = <<>> <=> ~\E i \in 1 .. Len(s) : TRUE
    BY <1>3
  <2>2. QED
    BY <1>4, <1>5, <2>1
<1>13. QED
  BY <1>3, <1>5, <1>10, <1>11, <1>12 DEF u, v, w, PartsAre

-----------------------------------------------------------------------------
(***************************************************************************)
(* normalizedTime keeps the number of seconds, and what it has normalized  *)
(* it leaves as it is.                                                     *)
(***************************************************************************)
LEMMA Refolded ==
  ASSUME NEW t \in Nat
  PROVE  /\ t \div 3600 \in 0 .. t /\ (t % 3600) \div 60 \in 0 .. t /\ t % 60 \in 0 .. t
         /\ 3600 * (t \div 3600) + 60 * ((t % 3600) \div 60) + (t % 60) = t
<1> DEFINE h == t \div 3600
           r == t % 3600
           m == r \div 60
           s == t % 60
<1>1. h \in Nat /\ r \in Nat /\ t = 3600 * h + r /\ r < 3600
  OBVIOUS
<1>2. s = r % 60
  OBVIOUS
<1> HIDE DEF h, r, s
<1>3. m \in Nat /\ s \in Nat /\ r = 60 * m + s
  BY <1>1, <1>2
<1> HIDE DEF m
<1>4. h \in 0 .. t /\ m \in 0 .. t /\ s \in 0 .. t /\ 3600 * h + 60 * m + s = t
  BY <1>1, <1>3
<1>5. QED
  BY <1>4 DEF h, r, m, s

LEMMA NormalizedSpec ==
  ASSUME NEW d \in Durations, TotalFits(d), NEW n, n = Normalized(d)
  PROVE  /\ n \in Durations
         /\ TotalSeconds(n) = TotalSeconds(d) /\ TotalSeconds(d) \in Nat /\ TotalFits(n)
         /\ Normalized(n) = n
         /\ n.years = d.years /\ n.months = d.months /\ n.weeks = d.weeks /\ n.days = d.days
         /\ n.nanos = d.nanos
         /\ IsZero(n) <=> IsZero(d)
<1> DEFINE t == TotalSeconds(d)
           h == t \div 3600
           m == (t % 3600) \div 60
           s == t % 60
<1>1. /\ d.years \in Uint /\ d.months \in Uint /\ d.weeks \in Uint /\ d.days \in Uint
      /\ d.hours \in Uint /\ d.minutes \in Uint /\ d.seconds \in Uint
      /\ d.nanos \in 0 .. 10 ^ (NanoDigits + 1) - 1
      /\ d = [years |-> d.years, months |-> d.months, weeks |-> d.weeks, days |-> d.days,
              hours |-> d.hours, minutes |-> d.minutes, seconds |-> d.seconds, nanos |-> d.nanos]
  BY DEF Durations
<1>2. Uint \subseteq Nat /\ \A k \in Nat : k <= MaxUint => k \in Uint
  BY DurationAssumption DEF Uint
<1>3. t = 3600 * d.hours + 60 * d.minutes + d.seconds /\ t \in Nat /\ t <= MaxUint
  BY <1>1, <1>2 DEF TotalSeconds, TotalFits
<1>4. n = [years |-> d.years, months |-> d.months, weeks |-> d.weeks, days |-> d.days,
           hours |-> h, minutes |-> m, seconds |-> s, nanos |-> d.nanos]
  <2>1. n = [d EXCEPT !.hours = h, !.minutes = m, !.seconds = s]
    BY DEF Normalized
  <2> HIDE DEF h, m, s
  <2>2. QED
    BY <1>1, <2>1
<1> HIDE DEF t
<1>5. h \in 0 .. t /\ m \in 0 .. t /\ s \in 0 .. t /\ 3600 * h + 60 * m + s = t
  BY <1>3, Refolded
<1> HIDE DEF h, m, s
<1>6. h \in Uint /\ m \in Uint /\ s \in Uint
  <2>1. h \in Nat /\ m \in Nat /\ s \in Nat /\ h <= MaxUint /\ m <= MaxUint /\ s <= MaxUint
    BY <1>3, <1>5, DurationAssumption
  <2>2. QED
    BY <1>2, <2>1
<1>7. n \in Durations
  BY <1>1, <1>4, <1>6 DEF Durations
<1>8. TotalSeconds(n) = t
  BY <1>4, <1>5 DEF TotalSeconds
<1>9. TotalFits(n)
  BY <1>3, <1>8 DEF TotalFits
<1>10. Normalized(n) = n
  <2> DEFINE u == TotalSeconds(n)
             a == u \div 3600
             b == (u % 3600) \div 60
             c == u % 60
  <2>1. Normalized(n) = [n EXCEPT !.hours = a, !.minutes = b, !.seconds = c]
    BY <1>9 DEF Normalized
  <2>2. u = t
    BY <1>8
  <2> HIDE DEF u
  <2>3. a = h /\ b = m /\ c = s
    BY <2>2 DEF h, m, s
  <2> HIDE DEF a, b, c
  <2>4. Normalized(n) = [n EXCEPT !.hours = h, !.minutes = m, !.seconds = s]
    BY <2>1, <2>3, Zenon
  <2>5. n.hours = h /\ n.minutes = m /\ n.seconds = s
    BY <1>4
  <2>6. Normalized(n) = [n EXCEPT !.hours = n.hours, !.minutes = n.minutes, !.seconds = n.seconds]
    BY <2>4, <2>5, Zenon
  <2>7. n \in Durations
    BY <1>7
  <2>8. QED
    BY <2>6, <2>7 DEF Durations
<1>11. IsZero(n) <=> IsZero(d)
  <2>1. (h = 0 /\ m = 0 /\ s = 0) <=> (d.hours = 0 /\ d.minutes = 0 /\ d.seconds = 0)
    <3>1. d.hours \in Nat /\ d.minutes \in Nat /\ d.seconds \in Nat
      BY <1>1, <1>2
    <3>2. h \in Nat /\ m \in Nat /\ s \in Nat
      BY <1>2, <1>6
    <3>3. \A a, b, c \in Nat : 3600 * a + 60 * b + c = 0 <=> a = 0 /\ b = 0 /\ c = 0
      OBVIOUS
    <3>4. (h = 0 /\ m = 0 /\ s = 0) <=> t = 0
      BY <1>5, <3>2, <3>3
    <3>5. (d.hours = 0 /\ d.minutes = 0 /\ d.seconds = 0) <=> t = 0
      <4> DEFINE a == d.hours
                 b == d.minutes
                 c == d.seconds
      <4>1. a \in Nat /\ b \in Nat /\ c \in Nat /\ t = 3600 * a + 60 * b + c
        BY <1>3, <3>1
      <4> HIDE DEF a, b, c
      <4>2. (a = 0 /\ b = 0 /\ c = 0) <=> t = 0
        BY <3>3, <4>1
      <4>3. QED
        BY <4>2 DEF a, b, c
    <3>6. QED
      BY <3>4, <3>5
  <2>2. IsZero(n) <=> /\ d.years = 0 /\ d.months = 0 /\ d.weeks = 0 /\ d.days = 0
                      /\ h = 0 /\ m = 0 /\ s = 0 /\ d.nanos = 0
    BY <1>4 DEF IsZero, ZeroDuration
  <2>3. IsZero(d) <=> /\ d.years = 0 /\ d.months = 0 /\ d.weeks = 0 /\ d.days = 0
                      /\ d.hours = 0 /\ d.minutes = 0 /\ d.seconds = 0 /\ d.nanos = 0
    BY <1>1 DEF IsZero, ZeroDuration
  <2>4. QED
    BY <2>1, <2>2, <2>3
<1>12. QED
  BY <1>3, <1>4, <1>7, <1>8, <1>9, <1>10, <1>11 DEF t

-----------------------------------------------------------------------------
Spelled(time) == \A i \in DOMAIN time : time[i].frac \in Seq(0 .. 9) \cup {NoPoint}

WeeksAlone(d) == d.weeks # 0 => d = [ZeroDuration EXCEPT !.weeks = d.weeks]

LEMMA FieldFits ==
  ASSUME NEW part, NEW unit, \A i \in DOMAIN part : Scans(part[i])
  PROVE  Field(part, unit).whole \in Uint
<1>1. 0 \in Uint
  BY DurationAssumption DEF Uint
<1>2. CASE \E i \in DOMAIN part : part[i].unit = unit
  <2>1. (CHOOSE i \in DOMAIN part : part[i].unit = unit) \in DOMAIN part
    BY <1>2
  <2>2. QED
    BY <1>2, <2>1 DEF Field, Scans
<1>3. CASE ~\E i \in DOMAIN part : part[i].unit = unit
  BY <1>1, <1>3 DEF Field, Component
<1>4. QED
  BY <1>2, <1>3

LEMMA FieldNanos ==
  ASSUME NEW part, NEW unit, Spelled(part)
  PROVE  NanosOf(Field(part, unit)) \in Nat /\ NanosOf(Field(part, unit)) < 10 ^ NanoDigits
<1> DEFINE c == Field(part, unit)
<1>1. c.frac \in Seq(0 .. 9) \cup {NoPoint}
  <2>1. CASE \E i \in DOMAIN part : part[i].unit = unit
    <3>1. (CHOOSE i \in DOMAIN part : part[i].unit = unit) \in DOMAIN part
      BY <2>1
    <3>2. QED
      BY <2>1, <3>1 DEF Field, Spelled
  <2>2. CASE ~\E i \in DOMAIN part : part[i].unit = unit
    BY <2>2 DEF Field, Component
  <2>3. QED
    BY <2>1, <2>2
<1> HIDE DEF c
<1>2. CASE c.frac = NoPoint
  <2>1. NanoDigits \in 0 .. NanoDigits + 1
    BY DurationAssumption
  <2>2. 10 ^ NanoDigits \in Nat \ {0}
    BY <2>1, Powers
  <2>3. NanosOf(c) = 0
    BY <1>2 DEF NanosOf
  <2>4. \A p \in Nat \ {0} : 0 \in Nat /\ 0 < p
    OBVIOUS
  <2>5. QED
    BY <2>2, <2>3, <2>4 DEF c
<1>3. CASE c.frac # NoPoint
  <2>1. c.frac \in Seq(0 .. 9) /\ NanosOf(c) = Nanos(c.frac)
    BY <1>1, <1>3 DEF NanosOf
  <2>2. \A i \in 1 .. NanoDigits : At(c.frac, i) \in 0 .. 9
    BY <2>1 DEF At
  <2>3. QED
    BY <2>1, <2>2, NanosBelow DEF c
<1>4. QED
  BY <1>2, <1>3

(***************************************************************************)
(* What parseDuration accepts fits.                                        *)
(***************************************************************************)
LEMMA ParsedFits ==
  ASSUME NEW text, Parses(text), Spelled(text.time)
  PROVE  /\ Parse(text) \in Durations /\ TotalFits(Parse(text))
         /\ WeeksAlone(Parse(text)) /\ Parse(text).nanos < 10 ^ NanoDigits
<1> DEFINE d == Parse(text)
<1>1. 0 \in Uint /\ Uint \subseteq Nat /\ 0 <= MaxUint
  BY DurationAssumption DEF Uint
<1>2. /\ 10 ^ NanoDigits \in Nat \ {0}
      /\ \A k \in Nat : k < 10 ^ NanoDigits => k \in 0 .. 10 ^ (NanoDigits + 1) - 1
  <2> DEFINE p == 10 ^ NanoDigits
             q == 10 ^ (NanoDigits + 1)
  <2>1. NanoDigits \in 0 .. NanoDigits /\ NanoDigits \in 0 .. NanoDigits + 1
    BY DurationAssumption
  <2>2. p \in Nat \ {0} /\ q = 10 * p
    BY <2>1, Powers
  <2> HIDE DEF p, q
  <2>3. \A k \in Nat : k < p => k \in 0 .. q - 1
    BY <2>2
  <2>4. QED
    BY <2>2, <2>3 DEF p, q
<1> DEFINE top == 10 ^ NanoDigits
           wide == 0 .. 10 ^ (NanoDigits + 1) - 1
<1> HIDE DEF top, wide
<1>3. 0 \in Nat /\ 0 < top /\ \A k \in Nat : k < top => k \in wide
  <2>1. top \in Nat \ {0} /\ \A k \in Nat : k < top => k \in wide
    BY <1>2 DEF top, wide
  <2>2. QED
    BY <2>1
<1>4. CASE IsWeekForm(text.date)
  <2> DEFINE w == text.date[1].whole
  <2>1. d = [ZeroDuration EXCEPT !.weeks = w]
    BY <1>4 DEF Parse
  <2>2. w \in Uint
    BY <1>4 DEF Parses, Scans
  <2> HIDE DEF w
  <2>3. d = [years |-> 0, months |-> 0, weeks |-> w, days |-> 0,
             hours |-> 0, minutes |-> 0, seconds |-> 0, nanos |-> 0]
    BY <2>1 DEF ZeroDuration
  <2> HIDE DEF d
  <2>4. d \in [years : Uint, months : Uint, weeks : Uint, days : Uint,
               hours : Uint, minutes : Uint, seconds : Uint, nanos : wide]
    BY <1>1, <1>3, <2>2, <2>3
  <2>5. TotalSeconds(d) = 0
    BY <2>3 DEF TotalSeconds
  <2>6. TotalFits(d)
    BY <1>1, <2>5 DEF TotalFits
  <2>7. WeeksAlone(d)
    BY <2>1, <2>3 DEF WeeksAlone
  <2>8. d.nanos < top
    BY <1>3, <2>3
  <2>9. QED
    BY <2>4, <2>6, <2>7, <2>8 DEF d, Durations, top, wide
<1>5. CASE ~IsWeekForm(text.date)
  <2> DEFINE time == IF text.t THEN text.time ELSE <<>>
             y == Field(text.date, "Y").whole
             mo == Field(text.date, "M").whole
             da == Field(text.date, "D").whole
             h == Field(time, "H").whole
             mi == Field(time, "M").whole
             s == Field(time, "S").whole
             n == NanosOf(Field(time, "S"))
  <2>1. DateParses(text.date) /\ (text.t => TimeParses(text.time))
    BY <1>5 DEF Parses
  <2>2. y \in Uint /\ mo \in Uint /\ da \in Uint
    BY <2>1, FieldFits DEF DateParses
  <2>3. /\ \A i \in DOMAIN time : Scans(time[i])
        /\ Spelled(time)
    BY <2>1 DEF TimeParses, Spelled
  <2>4. h \in Uint /\ mi \in Uint /\ s \in Uint
    <3> HIDE DEF time
    <3>1. QED
      BY <2>3, FieldFits
  <2>5. n \in Nat /\ n < top
    <3> HIDE DEF time
    <3>1. QED
      BY <2>3, FieldNanos DEF top
  <2>6. TimeOf(time) = [ZeroDuration EXCEPT !.hours = h, !.minutes = mi, !.seconds = s, !.nanos = n]
    BY Zenon DEF TimeOf
  <2>7. d = [TimeOf(time) EXCEPT !.years = y, !.months = mo, !.days = da]
    BY <1>5, Zenon DEF Parse
  <2>8. TotalFits(TimeOf(time))
    <3>1. CASE text.t
      BY <2>1, <3>1 DEF TimeParses
    <3>2. CASE ~text.t
      <4>1. time = <<>>
        BY <3>2
      <4>2. TimeOf(time) = ZeroDuration
        <5>1. \A unit : Field(<<>>, unit) = Component(0, NoPoint, unit)
          BY DEF Field
        <5>2. h = 0 /\ mi = 0 /\ s = 0 /\ n = 0
          BY <4>1, <5>1 DEF Component, NanosOf
        <5>3. QED
          BY <2>6, <5>2 DEF ZeroDuration
      <4>3. QED
        BY <1>1, <4>2 DEF TotalFits, TotalSeconds, ZeroDuration
    <3>3. QED
      BY <3>1, <3>2
  <2> HIDE DEF time, y, mo, da, h, mi, s, n
  <2>9. TimeOf(time) = [years |-> 0, months |-> 0, weeks |-> 0, days |-> 0,
                        hours |-> h, minutes |-> mi, seconds |-> s, nanos |-> n]
    BY <2>6 DEF ZeroDuration
  <2>10. d = [years |-> y, months |-> mo, weeks |-> 0, days |-> da,
              hours |-> h, minutes |-> mi, seconds |-> s, nanos |-> n]
    <3> DEFINE e == TimeOf(time)
    <3>1. d = [e EXCEPT !.years = y, !.months = mo, !.days = da]
      BY <2>7
    <3>2. e = [years |-> 0, months |-> 0, weeks |-> 0, days |-> 0,
               hours |-> h, minutes |-> mi, seconds |-> s, nanos |-> n]
      BY <2>9
    <3> HIDE DEF e, d
    <3>3. QED
      BY <3>1, <3>2
  <2> HIDE DEF d
  <2>11. d \in [years : Uint, months : Uint, weeks : Uint, days : Uint,
                hours : Uint, minutes : Uint, seconds : Uint, nanos : wide]
    BY <1>1, <1>3, <2>2, <2>4, <2>5, <2>10
  <2>12. TotalFits(d)
    BY <2>8, <2>9, <2>10 DEF TotalFits, TotalSeconds
  <2>13. WeeksAlone(d)
    BY <2>10 DEF WeeksAlone
  <2>14. d.nanos < top
    BY <2>5, <2>10
  <2>15. QED
    BY <2>11, <2>12, <2>13, <2>14 DEF d, Durations, top, wide
<1>6. QED
  BY <1>4, <1>5

-----------------------------------------------------------------------------
(***************************************************************************)
(* What String writes of a value that can be normalized, parseDuration     *)
(* reads as the normalized value, which is written the same.               *)
(***************************************************************************)
ReadBack(d, text) ==
  /\ Parses(text) /\ Parse(text) = Normalized(d) /\ Format(Normalized(d)) = text
  /\ Spelled(text.time)

LEMMA Lone ==
  ASSUME NEW c
  PROVE  /\ <<c>> # <<>> /\ Len(<<c>>) = 1 /\ <<c>>[1] = c /\ Last(<<c>>) = c /\ DOMAIN <<c>> = {1}
BY DEF Last

LEMMA NoPointKept ==
  /\ NoPoint # <<>>
  /\ \A whole \in Uint : \A unit : unit # "" => Scans(Component(whole, NoPoint, unit))
  /\ \A whole, unit : NanosOf(Component(whole, NoPoint, unit)) = 0
  /\ \A whole, unit : Component(whole, NoPoint, unit).frac = NoPoint
<1>1. <<>> \in Seq(0 .. 9)
  OBVIOUS
<1>2. NoPoint # <<>>
  BY <1>1, DurationAssumption
<1>3. QED
  BY <1>2 DEF Scans, Component, NanosOf

LEMMA ZeroRead ==
  ASSUME NEW d \in Durations, TotalFits(d), IsZero(d), NEW text, text = Format(d)
  PROVE  ReadBack(d, text)
<1> DEFINE c == Component(0, NoPoint, "S")
           time == <<c>>
<1>1. text = Text(FALSE, TRUE, <<>>, TRUE, time)
  BY DEF Format
<1>2. Normalized(d) = d
  <2>1. IsZero(Normalized(d))
    BY NormalizedSpec
  <2>2. QED
    BY <2>1 DEF IsZero
<1>3. 0 \in Uint
  BY DurationAssumption DEF Uint
<1>4. /\ c.whole = 0 /\ c.frac = NoPoint /\ c.unit = "S"
      /\ Scans(c) /\ NanosOf(c) = 0
  <2>1. "S" # ""
    OBVIOUS
  <2>2. QED
    BY <1>3, <2>1, NoPointKept DEF Component
<1> HIDE DEF c
<1>5. time # <<>> /\ time[1] = c /\ DOMAIN time = {1}
  BY Lone
<1> HIDE DEF time
<1>6. \A unit : Field(time, unit).whole = 0 /\ NanosOf(Field(time, unit)) = 0
  <2> SUFFICES ASSUME NEW unit
               PROVE  Field(time, unit).whole = 0 /\ NanosOf(Field(time, unit)) = 0
    OBVIOUS
  <2>1. CASE unit = "S"
    <3>1. \E i \in DOMAIN time : time[i].unit = unit
      BY <1>4, <1>5, <2>1
    <3>2. (CHOOSE i \in DOMAIN time : time[i].unit = unit) = 1
      BY <1>5, <3>1
    <3>3. Field(time, unit) = c
      BY <1>5, <3>1, <3>2 DEF Field
    <3>4. QED
      BY <1>4, <3>3
  <2>2. CASE unit # "S"
    <3>1. ~\E i \in DOMAIN time : time[i].unit = unit
      BY <1>4, <1>5, <2>2
    <3>2. Field(time, unit) = Component(0, NoPoint, unit)
      BY <3>1 DEF Field
    <3>3. Component(0, NoPoint, unit).whole = 0 /\ NanosOf(Component(0, NoPoint, unit)) = 0
      BY NoPointKept DEF Component
    <3>4. QED
      BY <3>2, <3>3
  <2>3. QED
    BY <2>1, <2>2
<1>7. TimeOf(time) = ZeroDuration
  <2>1. TimeOf(time) = [ZeroDuration EXCEPT !.hours = 0, !.minutes = 0, !.seconds = 0, !.nanos = 0]
    BY <1>6 DEF TimeOf
  <2>2. QED
    BY <2>1 DEF ZeroDuration
<1>8. TotalFits(ZeroDuration)
  BY DurationAssumption DEF TotalFits, TotalSeconds, ZeroDuration
<1>9. Ordered(time, TimeUnits)
  <2>1. Contains(TimeUnits, "S")
    BY Positions DEF TimeUnits
  <2>2. QED
    BY <1>4, <1>5, <2>1 DEF Ordered
<1>10. TimeParses(time)
  BY <1>4, <1>5, <1>7, <1>8, <1>9 DEF TimeParses
<1>11. DOMAIN <<>> = {} /\ ~IsWeekForm(<<>>)
  BY DEF IsWeekForm
<1>12. DateParses(<<>>)
  BY <1>11 DEF DateParses, Ordered
<1>13. text.p /\ text.date = <<>> /\ text.t /\ text.time = time
  BY <1>1 DEF Text
<1>14. Parses(text)
  BY <1>10, <1>11, <1>12, <1>13 DEF Parses
<1>15. Parse(text) = ZeroDuration
  <2>1. \A unit : Field(<<>>, unit).whole = 0
    BY <1>11 DEF Field, Component
  <2>2. Parse(text) = [TimeOf(time) EXCEPT !.years  = Field(<<>>, "Y").whole,
                                           !.months = Field(<<>>, "M").whole,
                                           !.days   = Field(<<>>, "D").whole]
    BY <1>11, <1>13, Zenon DEF Parse
  <2>3. Parse(text) = [ZeroDuration EXCEPT !.years = 0, !.months = 0, !.days = 0]
    BY <1>7, <2>1, <2>2
  <2>4. QED
    BY <2>3 DEF ZeroDuration
<1>16. Spelled(text.time)
  BY <1>4, <1>5, <1>13 DEF Spelled
<1>17. QED
  BY <1>2, <1>14, <1>15, <1>16 DEF ReadBack, IsZero

LEMMA WeeksRead ==
  ASSUME NEW d \in Durations, TotalFits(d), WeeksAlone(d), d.weeks # 0, NEW text, text = Format(d)
  PROVE  ReadBack(d, text)
<1> DEFINE w == d.weeks
           c == Component(w, NoPoint, "W")
           date == <<c>>
           n == Normalized(d)
<1>1. w \in Uint /\ d = [ZeroDuration EXCEPT !.weeks = w]
  BY DEF WeeksAlone, Durations
<1> HIDE DEF w
<1>2. d = [years |-> 0, months |-> 0, weeks |-> w, days |-> 0,
           hours |-> 0, minutes |-> 0, seconds |-> 0, nanos |-> 0]
  BY <1>1 DEF ZeroDuration
<1>3. ~IsZero(d)
  BY <1>2 DEF IsZero, ZeroDuration
<1>4. text = Text(FALSE, TRUE, date, FALSE, <<>>)
  BY <1>3, Zenon DEF Format, w
<1>5. n = d
  <2>1. /\ n \in Durations /\ TotalSeconds(n) = TotalSeconds(d)
        /\ n.years = d.years /\ n.months = d.months /\ n.weeks = d.weeks /\ n.days = d.days
        /\ n.nanos = d.nanos
    BY NormalizedSpec
  <2>2. TotalSeconds(d) = 0
    BY <1>2 DEF TotalSeconds
  <2> HIDE DEF n
  <2>3. n.hours = 0 /\ n.minutes = 0 /\ n.seconds = 0
    <3>1. n.hours \in Nat /\ n.minutes \in Nat /\ n.seconds \in Nat
      BY <2>1, DurationAssumption DEF Durations, Uint
    <3>2. 3600 * n.hours + 60 * n.minutes + n.seconds = 0
      BY <2>1, <2>2 DEF TotalSeconds
    <3>3. \A a, b, e \in Nat : 3600 * a + 60 * b + e = 0 => a = 0 /\ b = 0 /\ e = 0
      OBVIOUS
    <3> DEFINE a == n.hours
               b == n.minutes
               e == n.seconds
    <3>4. a \in Nat /\ b \in Nat /\ e \in Nat /\ 3600 * a + 60 * b + e = 0
      BY <3>1, <3>2
    <3> HIDE DEF a, b, e
    <3>5. a = 0 /\ b = 0 /\ e = 0
      BY <3>3, <3>4
    <3>6. QED
      BY <3>5 DEF a, b, e
  <2>4. n = [years |-> n.years, months |-> n.months, weeks |-> n.weeks, days |-> n.days,
             hours |-> n.hours, minutes |-> n.minutes, seconds |-> n.seconds, nanos |-> n.nanos]
    BY <2>1 DEF Durations
  <2>5. QED
    BY <1>2, <2>1, <2>3, <2>4
<1>6. c.whole = w /\ c.frac = NoPoint /\ c.unit = "W" /\ Scans(c)
  <2>1. "W" # ""
    OBVIOUS
  <2>2. QED
    BY <1>1, <2>1, NoPointKept DEF Component
<1> HIDE DEF c
<1>7. date # <<>> /\ Len(date) = 1 /\ date[1] = c /\ Last(date) = c
  BY Lone
<1> HIDE DEF date
<1>8. text.p /\ text.date = date /\ ~text.t /\ text.time = <<>>
  BY <1>4 DEF Text
<1>9. IsWeekForm(text.date)
  BY <1>6, <1>7, <1>8 DEF IsWeekForm
<1>10. Parses(text)
  BY <1>6, <1>7, <1>8, <1>9 DEF Parses
<1>11. Parse(text) = d
  BY <1>1, <1>6, <1>7, <1>8, <1>9 DEF Parse
<1>12. Spelled(text.time)
  BY <1>8 DEF Spelled
<1>13. QED
  BY <1>5, <1>10, <1>11, <1>12 DEF ReadBack

(***************************************************************************)
(* The parts that String writes, and what is read in them.                 *)
(***************************************************************************)
Written(n, date, time) ==
  /\ Field(date, "Y").whole = n.years /\ Field(date, "M").whole = n.months
  /\ Field(date, "D").whole = n.days
  /\ Field(time, "H").whole = n.hours /\ Field(time, "M").whole = n.minutes
  /\ Field(time, "S").whole = n.seconds /\ NanosOf(Field(time, "S")) = n.nanos
  /\ Ordered(date, DateUnits) /\ Ordered(time, TimeUnits)
  /\ Len(date) \in Nat /\ DOMAIN date = 1 .. Len(date)
  /\ Len(time) \in Nat /\ DOMAIN time = 1 .. Len(time)
  /\ \A i \in DOMAIN date : Scans(date[i]) /\ date[i].frac = NoPoint /\ date[i].unit # "W"
  /\ \A i \in DOMAIN time : Scans(time[i]) /\ (time[i].unit # "S" => NanosOf(time[i]) = 0)
  /\ Spelled(time)
  /\ (date = <<>> /\ time = <<>>) => n = [ZeroDuration EXCEPT !.weeks = n.weeks]

LEMMA PartsWritten ==
  ASSUME NEW n \in Durations, n.nanos < 10 ^ NanoDigits,
         NEW time, time = NonZero(Component(n.hours, NoPoint, "H"))
                            \o NonZero(Component(n.minutes, NoPoint, "M"))
                            \o NonZero(Component(n.seconds, Fraction(n.nanos), "S")),
         NEW date, date = NonZero(Component(n.years, NoPoint, "Y"))
                            \o NonZero(Component(n.months, NoPoint, "M"))
                            \o NonZero(Component(n.days, NoPoint, "D"))
  PROVE  Written(n, date, time)
<1> DEFINE hours   == Component(n.hours, NoPoint, "H")
           minutes == Component(n.minutes, NoPoint, "M")
           seconds == Component(n.seconds, Fraction(n.nanos), "S")
           years  == Component(n.years, NoPoint, "Y")
           months == Component(n.months, NoPoint, "M")
           days   == Component(n.days, NoPoint, "D")
<1>1. /\ time = NonZero(hours) \o NonZero(minutes) \o NonZero(seconds)
      /\ date = NonZero(years) \o NonZero(months) \o NonZero(days)
  OBVIOUS
<1>4. /\ n.years \in Uint /\ n.months \in Uint /\ n.days \in Uint /\ n.weeks \in Uint
      /\ n.hours \in Uint /\ n.minutes \in Uint /\ n.seconds \in Uint
      /\ n = [years |-> n.years, months |-> n.months, weeks |-> n.weeks, days |-> n.days,
              hours |-> n.hours, minutes |-> n.minutes, seconds |-> n.seconds, nanos |-> n.nanos]
  BY DEF Durations
<1>5. /\ Fraction(n.nanos) \in Seq(0 .. 9) \cup {NoPoint} /\ Fraction(n.nanos) # <<>>
      /\ NanosOf(seconds) = n.nanos
  <2> DEFINE k == n.nanos
             f == Fraction(k)
  <2>1. k < 10 ^ NanoDigits /\ k \in 0 .. 10 ^ (NanoDigits + 1) - 1
    BY DEF Durations
  <2>2. k \in Nat
    <3>1. NanoDigits + 1 \in 0 .. NanoDigits + 1
      BY DurationAssumption
    <3>2. 10 ^ (NanoDigits + 1) \in Nat
      BY <3>1, Powers
    <3>3. QED
      BY <2>1, <3>2
  <2>3. seconds.frac = f
    BY DEF Component
  <2> HIDE DEF k
  <2>4. CASE k = 0
    <3>1. f = NoPoint
      BY <2>4 DEF Fraction
    <3>2. NanosOf(seconds) = 0
      BY <2>3, <3>1 DEF NanosOf
    <3>3. QED
      BY <2>4, <3>1, <3>2, NoPointKept DEF k
  <2>5. CASE k # 0
    <3>1. f \in Seq(0 .. 9) /\ f # <<>> /\ f # NoPoint /\ Nanos(f) = k
      BY <2>1, <2>2, <2>5, FractionRead
    <3>2. NanosOf(seconds) = Nanos(f)
      BY <2>3, <3>1 DEF NanosOf
    <3>3. QED
      BY <3>1, <3>2 DEF k
  <2>6. QED
    BY <2>4, <2>5
<1>6. /\ Scans(hours) /\ Scans(minutes) /\ Scans(seconds)
      /\ Scans(years) /\ Scans(months) /\ Scans(days)
  <2>1. "Y" # "" /\ "M" # "" /\ "D" # "" /\ "H" # "" /\ "S" # ""
    OBVIOUS
  <2>2. Scans(seconds)
    BY <1>4, <1>5, <2>1 DEF Scans, Component
  <2>3. QED
    BY <1>4, <2>1, <2>2, NoPointKept
<1>7. /\ hours.unit = "H" /\ minutes.unit = "M" /\ seconds.unit = "S"
      /\ years.unit = "Y" /\ months.unit = "M" /\ days.unit = "D"
      /\ hours.whole = n.hours /\ minutes.whole = n.minutes /\ seconds.whole = n.seconds
      /\ years.whole = n.years /\ months.whole = n.months /\ days.whole = n.days
      /\ hours.frac = NoPoint /\ minutes.frac = NoPoint /\ seconds.frac = Fraction(n.nanos)
      /\ years.frac = NoPoint /\ months.frac = NoPoint /\ days.frac = NoPoint
      /\ IsComponent(hours) /\ IsComponent(minutes) /\ IsComponent(seconds)
      /\ IsComponent(years) /\ IsComponent(months) /\ IsComponent(days)
  BY DEF Component, IsComponent
<1>8. /\ Field(time, "H") = hours /\ Field(time, "M") = minutes /\ Field(time, "S") = seconds
      /\ Ordered(time, <<"H", "M", "S">>)
      /\ Len(time) \in Nat /\ DOMAIN time = 1 .. Len(time)
      /\ \A i \in 1 .. Len(time) : time[i] \in {hours, minutes, seconds} /\ Kept(time[i])
      /\ (time = <<>>) <=> (~Kept(hours) /\ ~Kept(minutes) /\ ~Kept(seconds))
  <2>1. "H" # "M" /\ "M" # "S" /\ "H" # "S"
    OBVIOUS
  <2>2. AreComponents(hours, minutes, seconds)
    BY <1>7, <2>1 DEF AreComponents
  <2>3. PartsAre(time, hours, minutes, seconds)
    <3> HIDE DEF hours, minutes, seconds
    <3>1. QED
      BY <1>1, <2>2, ComponentsRead
  <2> HIDE DEF hours, minutes, seconds
  <2>4. QED
    BY <1>7, <2>3 DEF PartsAre
<1>9. /\ Field(date, "Y") = years /\ Field(date, "M") = months /\ Field(date, "D") = days
      /\ Ordered(date, <<"Y", "M", "D">>)
      /\ Len(date) \in Nat /\ DOMAIN date = 1 .. Len(date)
      /\ \A i \in 1 .. Len(date) : date[i] \in {years, months, days} /\ Kept(date[i])
      /\ (date = <<>>) <=> (~Kept(years) /\ ~Kept(months) /\ ~Kept(days))
  <2>1. "Y" # "M" /\ "M" # "D" /\ "Y" # "D"
    OBVIOUS
  <2>2. AreComponents(years, months, days)
    BY <1>7, <2>1 DEF AreComponents
  <2>3. PartsAre(date, years, months, days)
    <3> HIDE DEF years, months, days
    <3>1. QED
      BY <1>1, <2>2, ComponentsRead
  <2> HIDE DEF years, months, days
  <2>4. QED
    BY <1>7, <2>3 DEF PartsAre
<1> HIDE DEF hours, minutes, seconds, years, months, days
<1>10. ASSUME date = <<>>, time = <<>> PROVE n = [ZeroDuration EXCEPT !.weeks = n.weeks]
  <2>1. /\ ~Kept(hours) /\ ~Kept(minutes) /\ ~Kept(seconds)
        /\ ~Kept(years) /\ ~Kept(months) /\ ~Kept(days)
    BY <1>8, <1>9, <1>10
  <2>2. /\ n.hours = 0 /\ n.minutes = 0 /\ n.seconds = 0
        /\ n.years = 0 /\ n.months = 0 /\ n.days = 0 /\ seconds.frac = NoPoint
    BY <1>7, <2>1 DEF Kept
  <2>3. n.nanos = 0
    BY <1>5, <2>2 DEF NanosOf
  <2>4. QED
    BY <1>4, <2>2, <2>3 DEF ZeroDuration
<1>11. \A i \in DOMAIN date : Scans(date[i]) /\ date[i].frac = NoPoint /\ date[i].unit # "W"
  BY <1>6, <1>7, <1>9
<1>12. \A i \in DOMAIN time : Scans(time[i]) /\ (time[i].unit # "S" => NanosOf(time[i]) = 0)
  BY <1>6, <1>7, <1>8 DEF NanosOf
<1>13. Spelled(time)
  BY <1>5, <1>7, <1>8 DEF Spelled
<1>14. /\ Field(date, "Y").whole = n.years /\ Field(date, "M").whole = n.months
       /\ Field(date, "D").whole = n.days
       /\ Ordered(date, DateUnits) /\ Len(date) \in Nat /\ DOMAIN date = 1 .. Len(date)
  BY <1>7, <1>9 DEF DateUnits
<1>15. /\ Field(time, "H").whole = n.hours /\ Field(time, "M").whole = n.minutes
       /\ Field(time, "S").whole = n.seconds /\ NanosOf(Field(time, "S")) = n.nanos
       /\ Ordered(time, TimeUnits) /\ Len(time) \in Nat /\ DOMAIN time = 1 .. Len(time)
  BY <1>5, <1>7, <1>8 DEF TimeUnits
<1>16. QED
  BY <1>10, <1>11, <1>12, <1>13, <1>14, <1>15 DEF Written

LEMMA PartsRead ==
  ASSUME NEW d \in Durations, TotalFits(d), ~IsZero(d), d.weeks = 0,
         d.nanos < 10 ^ NanoDigits, NEW text, text = Format(d)
  PROVE  ReadBack(d, text)
<1> DEFINE n == Normalized(d)
           time == NonZero(Component(n.hours, NoPoint, "H"))
                     \o NonZero(Component(n.minutes, NoPoint, "M"))
                     \o NonZero(Component(n.seconds, Fraction(n.nanos), "S"))
           date == NonZero(Component(n.years, NoPoint, "Y"))
                     \o NonZero(Component(n.months, NoPoint, "M"))
                     \o NonZero(Component(n.days, NoPoint, "D"))
<1>1. /\ n \in Durations /\ TotalSeconds(n) = TotalSeconds(d) /\ TotalFits(n) /\ Normalized(n) = n
      /\ n.years = d.years /\ n.months = d.months /\ n.weeks = d.weeks /\ n.days = d.days
      /\ n.nanos = d.nanos /\ ~IsZero(n)
  BY NormalizedSpec
<1>2. text = Text(FALSE, TRUE, date, time # <<>>, time)
  <2>1. text = LET date2 == NonZero(Component(d.years, NoPoint, "Y"))
                              \o NonZero(Component(d.months, NoPoint, "M"))
                              \o NonZero(Component(d.days, NoPoint, "D"))
               IN  Text(FALSE, TRUE, date2, time # <<>>, time)
    BY DEF Format
  <2> HIDE DEF n
  <2>2. QED
    BY <1>1, <2>1
<1>3. Format(n) = text
  <2>1. n.weeks = 0 /\ Normalized(n) = n /\ ~IsZero(n)
    BY <1>1
  <2> HIDE DEF n
  <2>2. Format(n) = Text(FALSE, TRUE, date, time # <<>>, time)
    BY <2>1 DEF Format
  <2>3. QED
    BY <1>2, <2>2
<1> HIDE DEF n
<1>4. Written(n, date, time)
  BY <1>1, PartsWritten
<1> HIDE DEF time, date
<1>5. /\ n.weeks = 0
      /\ n = [years |-> n.years, months |-> n.months, weeks |-> 0, days |-> n.days,
              hours |-> n.hours, minutes |-> n.minutes, seconds |-> n.seconds, nanos |-> n.nanos]
  BY <1>1 DEF Durations
<1>6. date # <<>> \/ time # <<>>
  <2> SUFFICES ASSUME date = <<>>, time = <<>> PROVE FALSE
    OBVIOUS
  <2>1. n = [ZeroDuration EXCEPT !.weeks = n.weeks]
    BY <1>4 DEF Written
  <2>2. n = ZeroDuration
    BY <1>5, <2>1 DEF ZeroDuration
  <2>3. QED
    BY <1>1, <2>2 DEF IsZero
<1>7. ~IsWeekForm(date)
  <2> SUFFICES ASSUME date # <<>> PROVE Last(date).unit # "W"
    BY DEF IsWeekForm
  <2>1. Len(date) \in DOMAIN date
    <3>1. Len(date) \in Nat /\ DOMAIN date = 1 .. Len(date)
      BY <1>4 DEF Written
    <3>2. Len(date) # 0
      BY <1>4, <3>1 DEF Written
    <3>3. QED
      BY <3>1, <3>2
  <2>2. QED
    BY <1>4, <2>1 DEF Last, Written
<1>8. DateParses(date)
  BY <1>4 DEF DateParses, Written
<1>9. TimeOf(time) = [years |-> 0, months |-> 0, weeks |-> 0, days |-> 0,
                      hours |-> n.hours, minutes |-> n.minutes, seconds |-> n.seconds,
                      nanos |-> n.nanos]
  <2>1. TimeOf(time) = [ZeroDuration EXCEPT !.hours = n.hours, !.minutes = n.minutes,
                                            !.seconds = n.seconds, !.nanos = n.nanos]
    BY <1>4 DEF TimeOf, Written
  <2>2. QED
    BY <2>1 DEF ZeroDuration
<1>10. time # <<>> => TimeParses(time)
  <2>1. TotalFits(TimeOf(time))
    BY <1>1, <1>9 DEF TotalFits, TotalSeconds
  <2>2. QED
    BY <1>4, <2>1 DEF TimeParses, Written
<1>11. text.p /\ text.date = date /\ text.t = (time # <<>>) /\ text.time = time
  BY <1>2 DEF Text
<1>12. Parses(text)
  BY <1>6, <1>7, <1>8, <1>10, <1>11 DEF Parses
<1>13. Parse(text) = n
  <2>1. (IF text.t THEN text.time ELSE <<>>) = time
    BY <1>11
  <2>2. Parse(text) = [TimeOf(time) EXCEPT !.years = n.years, !.months = n.months, !.days = n.days]
    BY <1>4, <1>7, <1>11, <2>1 DEF Parse, Written
  <2> DEFINE e == TimeOf(time)
  <2>3. /\ Parse(text) = [e EXCEPT !.years = n.years, !.months = n.months, !.days = n.days]
        /\ e = [years |-> 0, months |-> 0, weeks |-> 0, days |-> 0,
                hours |-> n.hours, minutes |-> n.minutes, seconds |-> n.seconds, nanos |-> n.nanos]
    BY <1>9, <2>2
  <2> HIDE DEF e
  <2>4. QED
    BY <1>5, <2>3
<1>14. Spelled(text.time)
  BY <1>4, <1>11 DEF Written
<1>15. QED
  BY <1>3, <1>12, <1>13, <1>14 DEF ReadBack, n

LEMMA FormatRead ==
  ASSUME NEW d \in Durations, TotalFits(d), WeeksAlone(d), d.nanos < 10 ^ NanoDigits,
         NEW text, text = Format(d)
  PROVE  ReadBack(d, text)
<1>1. CASE IsZero(d)
  BY <1>1, ZeroRead
<1>2. CASE d.weeks # 0
  BY <1>2, WeeksRead
<1>3. CASE ~IsZero(d) /\ d.weeks = 0
  BY <1>3, PartsRead
<1>4. QED
  BY <1>1, <1>2, <1>3

-----------------------------------------------------------------------------
(***************************************************************************)
(* Sums: a total is reached a term at a time, and one term that is not     *)
(* zero is all of it.                                                      *)
(***************************************************************************)
LEMMA TotalRun ==
  ASSUME NEW f \in Seq(Nat)
  PROVE  \E g \in [0 .. Len(f) -> Nat] :
           /\ g[0] = 0 /\ g[Len(f)] = Total(f)
           /\ \A i \in 1 .. Len(f) : g[i] = g[i - 1] + f[i]
<1> DEFINE N == Len(f)
           step == [i \in 1 .. N |-> [v \in Nat |-> v + f[i]]]
<1>1. N \in Nat /\ \A i \in 1 .. N : f[i] \in Nat
  OBVIOUS
<1>2. step \in [1 .. N -> [Nat -> Nat]]
  BY <1>1
<1>3. \A i \in 1 .. N, v \in Nat : step[i][v] = v + f[i]
  OBVIOUS
<1> HIDE DEF step
<1> DEFINE Value(h) == h = [i \in 0 .. N |-> IF i = 0 THEN 0 ELSE h[i - 1] + f[i]]
<1>4. Total(f) = (CHOOSE h : Value(h))[N]
  BY DEF Total
<1> HIDE DEF N
<1>5. PICK g \in [0 .. N -> Nat] : Recurs(g, N, 0, step)
  BY <1>1, <1>2, RecursionExists
<1>6. 0 \in 0 .. N /\ N \in 0 .. N /\ \A i \in 1 .. N : i - 1 \in 0 .. N /\ i \in 0 .. N /\ i # 0
  BY <1>1
<1>7. g[0] = 0 /\ \A i \in 1 .. N : g[i] = g[i - 1] + f[i]
  <2>1. \A i \in 0 .. N : g[i] = IF i = 0 THEN 0 ELSE step[i][g[i - 1]]
    BY <1>5 DEF Recurs
  <2>2. \A i \in 1 .. N : g[i] = step[i][g[i - 1]] /\ g[i - 1] \in Nat
    BY <1>5, <1>6, <2>1
  <2>3. QED
    BY <1>3, <1>6, <2>1, <2>2
<1>8. Value(g)
  <2>1. \A i \in 0 .. N : i # 0 => i \in 1 .. N
    BY <1>1
  <2>2. \A i \in 0 .. N : g[i] = IF i = 0 THEN 0 ELSE g[i - 1] + f[i]
    BY <1>7, <2>1
  <2>3. QED
    BY <1>5, <2>2
<1>9. ASSUME NEW h, Value(h) PROVE h[N] = g[N]
  <2> DEFINE S == {i \in 0 .. N : h[i] = g[i]}
  <2>1. h[0] = 0 /\ \A i \in 1 .. N : h[i] = h[i - 1] + f[i]
    BY <1>6, <1>9
  <2>2. 0 \in S /\ \A i \in 1 .. N : i - 1 \in S => i \in S
    BY <1>6, <1>7, <2>1
  <2> HIDE DEF S
  <2>3. \A i \in 0 .. N : i \in S
    BY <1>1, <2>2, Upward
  <2>4. QED
    BY <1>6, <2>3 DEF S
<1>10. Total(f) = g[N]
  <2> HIDE DEF Value
  <2>1. QED
    BY <1>4, <1>8, <1>9
<1>11. QED
  BY <1>5, <1>7, <1>10 DEF N

LEMMA OneTerm ==
  ASSUME NEW f \in Seq(Nat), NEW k \in 1 .. Len(f), \A i \in 1 .. Len(f) : i # k => f[i] = 0
  PROVE  Total(f) = f[k]
<1> DEFINE N == Len(f)
<1>1. N \in Nat /\ f[k] \in Nat
  OBVIOUS
<1>2. PICK g \in [0 .. N -> Nat] : /\ g[0] = 0 /\ g[N] = Total(f)
                                   /\ \A i \in 1 .. N : g[i] = g[i - 1] + f[i]
  BY TotalRun
<1> DEFINE S == {i \in 0 .. N : g[i] = IF i < k THEN 0 ELSE f[k]}
<1>3. 0 \in S
  BY <1>1, <1>2
<1>4. ASSUME NEW i \in 1 .. N, i - 1 \in S PROVE i \in S
  <2>1. i \in 0 .. N /\ i - 1 \in 0 .. N /\ i \in Int /\ k \in Int
    BY <1>1
  <2>2. g[i - 1] = (IF i - 1 < k THEN 0 ELSE f[k]) /\ g[i] = g[i - 1] + f[i]
    BY <1>2, <1>4
  <2>3. CASE i < k
    BY <2>1, <2>2, <2>3
  <2>4. CASE i = k
    BY <1>1, <2>1, <2>2, <2>4
  <2>5. CASE i > k
    BY <1>1, <2>1, <2>2, <2>5
  <2>6. QED
    BY <2>1, <2>3, <2>4, <2>5
<1> HIDE DEF S
<1>5. \A i \in 0 .. N : i \in S
  BY <1>1, <1>3, <1>4, Upward
<1>6. N \in S /\ ~(N < k)
  BY <1>1, <1>5
<1>7. QED
  BY <1>2, <1>6 DEF S

LEMMA NoTerm ==
  ASSUME NEW f \in Seq(Nat), \A i \in 1 .. Len(f) : f[i] = 0
  PROVE  Total(f) = 0
<1> DEFINE N == Len(f)
<1>1. N \in Nat /\ \A i \in 1 .. N : f[i] = 0
  OBVIOUS
<1>2. PICK g \in [0 .. N -> Nat] : /\ g[0] = 0 /\ g[N] = Total(f)
                                   /\ \A i \in 1 .. N : g[i] = g[i - 1] + f[i]
  BY TotalRun
<1> HIDE DEF N
<1> DEFINE S == {i \in 0 .. N : g[i] = 0}
<1>3. 0 \in S
  BY <1>1, <1>2
<1>4. ASSUME NEW i \in 1 .. N, i - 1 \in S PROVE i \in S
  <2>1. i \in 0 .. N /\ g[i] = g[i - 1] + f[i] /\ g[i - 1] = 0 /\ f[i] = 0
    BY <1>1, <1>2, <1>4
  <2>2. QED
    BY <2>1
<1> HIDE DEF S
<1>5. \A i \in 0 .. N : i \in S
  BY <1>1, <1>3, <1>4, Upward
<1>6. N \in S
  BY <1>1, <1>5
<1>7. QED
  BY <1>2, <1>6 DEF S

(***************************************************************************)
(* The digits of a fraction, each at its weight, are its nanoseconds.      *)
(***************************************************************************)
LEMMA TextNanosRead ==
  ASSUME NEW c, c.frac \in Seq(0 .. 9) \cup {NoPoint}
  PROVE  TextNanos(c) = NanosOf(c)
<1>1. CASE c.frac = NoPoint
  BY <1>1 DEF TextNanos, NanosOf
<1>2. CASE c.frac # NoPoint
  <2> DEFINE frac == c.frac
             N == NanoDigits
             f == [i \in 1 .. N |-> IF i \in DOMAIN frac THEN frac[i] * 10 ^ (N - i) ELSE 0]
  <2>1. frac \in Seq(0 .. 9) /\ N \in Nat
    BY <1>2, DurationAssumption
  <2>2. \A i \in 1 .. N : At(frac, i) \in 0 .. 9
    BY <2>1 DEF At
  <2>3. \A i \in 0 .. N : N - i \in 0 .. N + 1 /\ 10 ^ (N - i) \in Nat \ {0}
    <3>1. \A i \in 0 .. N : N - i \in 0 .. N + 1
      BY <2>1
    <3>2. QED
      BY <3>1, Powers
  <2>4. \A i \in 1 .. N : f[i] = At(frac, i) * 10 ^ (N - i) /\ f[i] \in Nat
    <3> SUFFICES ASSUME NEW i \in 1 .. N
                 PROVE  f[i] = At(frac, i) * 10 ^ (N - i) /\ f[i] \in Nat
      OBVIOUS
    <3> DEFINE p == 10 ^ (N - i)
               a == At(frac, i)
    <3>1. p \in Nat /\ a \in Nat
      <4>1. i \in 0 .. N
        BY <2>1
      <4>2. QED
        BY <2>2, <2>3, <4>1
    <3>2. f[i] = IF i \in DOMAIN frac THEN a * p ELSE 0
      BY DEF At
    <3>3. i \notin DOMAIN frac => a = 0
      BY DEF At
    <3> HIDE DEF f, p, a
    <3>4. f[i] = a * p /\ f[i] \in Nat
      BY <3>1, <3>2, <3>3
    <3>5. QED
      BY <3>4 DEF p, a
  <2>5. TextNanos(c) = Total(f)
    BY <1>2 DEF TextNanos
  <2>6. f = [i \in 1 .. N |-> f[i]]
    OBVIOUS
  <2> HIDE DEF f
  <2>7. f \in Seq(Nat) /\ Len(f) = N
    BY <2>1, <2>4, <2>6
  <2>8. PICK g \in [0 .. N -> Nat] : /\ g[0] = 0 /\ g[N] = Total(f)
                                     /\ \A i \in 1 .. N : g[i] = g[i - 1] + f[i]
    BY <2>7, TotalRun
  <2>9. PICK h \in [0 .. N -> Nat] :
          /\ h[0] = 0 /\ h[N] = Nanos(frac)
          /\ \A i \in 1 .. N : h[i] = 10 * h[i - 1] + At(frac, i)
    BY <2>2, NanosRun
  <2> DEFINE S == {i \in 0 .. N : g[i] = h[i] * 10 ^ (N - i)}
  <2>10. 0 \in S
    <3>1. \A p \in Nat : 0 * p = 0
      OBVIOUS
    <3>2. 0 \in 0 .. N
      BY <2>1
    <3>3. 10 ^ (N - 0) \in Nat
      BY <2>3, <3>2
    <3>4. h[0] * 10 ^ (N - 0) = 0
      BY <2>9, <3>1, <3>3
    <3>5. QED
      BY <2>8, <3>2, <3>4
  <2>11. ASSUME NEW i \in 1 .. N, i - 1 \in S PROVE i \in S
    <3> DEFINE p == 10 ^ (N - i)
               q == 10 ^ (N - (i - 1))
               a == At(frac, i)
               x == h[i - 1]
               y == h[i]
    <3>1. i \in 0 .. N /\ i - 1 \in 0 .. N /\ N - i \in 0 .. N /\ (N - i) + 1 = N - (i - 1)
      BY <2>1
    <3>2. p \in Nat /\ q = 10 * p
      <4>1. 10 ^ ((N - i) + 1) = 10 * 10 ^ (N - i)
        BY <3>1, Powers
      <4>2. QED
        BY <2>3, <3>1, <4>1
    <3>3. a \in Nat /\ x \in Nat /\ y = 10 * x + a
      <4>1. a \in Nat
        BY <2>2
      <4>2. x \in Nat
        BY <2>9, <3>1
      <4>3. y = 10 * x + a
        BY <2>9
      <4>4. QED
        BY <4>1, <4>2, <4>3
    <3>4. g[i - 1] = x * q
      BY <2>11
    <3>5. g[i] = g[i - 1] + a * p
      BY <2>4, <2>8
    <3> HIDE DEF p, q, a, x, y
    <3>6. x * q = (10 * x) * p
      BY <3>2, <3>3
    <3>7. g[i] = y * p
      BY <3>2, <3>3, <3>4, <3>5, <3>6
    <3>8. QED
      BY <3>1, <3>7 DEF y, p
  <2> HIDE DEF S
  <2>12. \A i \in 0 .. N : i \in S
    BY <2>1, <2>10, <2>11, Upward
  <2>13. N \in S
    BY <2>1, <2>12
  <2>14. g[N] = h[N] * 10 ^ (N - N)
    BY <2>13 DEF S
  <2>15. h[N] \in Nat /\ 10 ^ (N - N) = 1
    <3>1. N - N = 0 /\ N \in 0 .. N
      BY <2>1
    <3>2. 10 ^ (N - N) = 1
      BY <3>1, Powers
    <3>3. QED
      BY <2>9, <3>1, <3>2
  <2>16. g[N] = h[N]
    BY <2>14, <2>15
  <2>17. NanosOf(c) = Nanos(frac)
    BY <1>2 DEF NanosOf
  <2>18. QED
    BY <2>5, <2>8, <2>9, <2>16, <2>17
<1>3. QED
  BY <1>1, <1>2

(***************************************************************************)
(* The components of a part in the order of its units: each unit once, so  *)
(* the amount of a unit is the field that holds it.                        *)
(***************************************************************************)
Regular(part, u, v, w) ==
  /\ Len(part) \in Nat /\ DOMAIN part = 1 .. Len(part)
  /\ \A i \in DOMAIN part : part[i].whole \in Nat
  /\ Ordered(part, <<u, v, w>>)

LEMMA UnitsOnce ==
  ASSUME NEW u, NEW v, NEW w, u # v, v # w, u # w, NEW part, Regular(part, u, v, w)
  PROVE  /\ \A i \in DOMAIN part : part[i].unit \in {u, v, w}
         /\ \A i, j \in DOMAIN part : part[i].unit = part[j].unit => i = j
<1> DEFINE units == <<u, v, w>>
           at(i) == Position(units, part[i].unit)
           N == Len(part)
<1>1. N \in Nat /\ DOMAIN part = 1 .. N
  BY DEF Regular
<1>2. /\ Contains(units, u) /\ Contains(units, v) /\ Contains(units, w)
      /\ Position(units, u) = 1 /\ Position(units, v) = 2 /\ Position(units, w) = 3
  BY Positions
<1>3. \A unit : Contains(units, unit) => unit \in {u, v, w}
  BY DEF Contains
<1>4. /\ \A i \in 1 .. N : Contains(units, part[i].unit)
      /\ \A i \in 1 .. N : i # 1 => at(i - 1) < at(i)
  BY <1>1 DEF Regular, Ordered
<1> HIDE DEF units
<1>5. \A i \in 1 .. N : part[i].unit \in {u, v, w} /\ at(i) \in Nat
  BY <1>2, <1>3, <1>4
<1> HIDE DEF at, N
<1>6. ASSUME NEW i \in 1 .. N
      PROVE  \A j \in 1 .. N : i < j => at(i) < at(j)
  <2> DEFINE S == {n \in 0 .. N : (n \in 1 .. N /\ i < n) => at(i) < at(n)}
  <2>1. 0 \in S
    BY <1>1
  <2>2. ASSUME NEW n \in 1 .. N, n - 1 \in S PROVE n \in S
    <3>1. n \in 0 .. N /\ n \in Int /\ i \in Int
      BY <1>1
    <3>2. CASE i < n
      <4>1. n # 1 /\ n - 1 \in 1 .. N /\ at(n - 1) < at(n)
        BY <1>1, <1>4, <3>1, <3>2
      <4>2. i = n - 1 \/ i < n - 1
        BY <3>1, <3>2
      <4>3. at(i) = at(n - 1) \/ at(i) < at(n - 1)
        BY <2>2, <4>1, <4>2
      <4>4. at(i) < at(n)
        BY <1>5, <4>1, <4>3
      <4>5. QED
        BY <3>1, <4>4
    <3>3. CASE ~(i < n)
      BY <3>1, <3>3
    <3>4. QED
      BY <3>2, <3>3
  <2> HIDE DEF S
  <2>3. \A n \in 0 .. N : n \in S
    BY <1>1, <2>1, <2>2, Upward
  <2>4. ASSUME NEW j \in 1 .. N, i < j PROVE at(i) < at(j)
    <3>1. j \in S
      BY <1>1, <2>3
    <3>2. QED
      BY <2>4, <3>1 DEF S
  <2>5. QED
    BY <2>4
<1>7. ASSUME NEW i \in 1 .. N, NEW j \in 1 .. N, part[i].unit = part[j].unit PROVE i = j
  <2>1. at(i) = at(j)
    BY <1>7 DEF at
  <2>2. ~(i < j) /\ ~(j < i)
    BY <1>5, <1>6, <2>1
  <2>3. QED
    BY <1>1, <2>2
<1>8. QED
  BY <1>1, <1>5, <1>7

LEMMA AmountRead ==
  ASSUME NEW u, NEW v, NEW w, u # v, v # w, u # w, NEW part, Regular(part, u, v, w), NEW unit
  PROVE  /\ Amount(part, unit) = Field(part, unit).whole
         /\ unit \notin {u, v, w} => Amount(part, unit) = 0
         /\ Field(part, unit).whole \in Nat
<1> DEFINE N == Len(part)
           f == [i \in 1 .. N |-> IF part[i].unit = unit THEN part[i].whole ELSE 0]
<1>1. N \in Nat /\ DOMAIN part = 1 .. N /\ \A i \in 1 .. N : part[i].whole \in Nat
  BY DEF Regular
<1>2. /\ \A i \in 1 .. N : part[i].unit \in {u, v, w}
      /\ \A i, j \in 1 .. N : part[i].unit = part[j].unit => i = j
  BY <1>1, UnitsOnce
<1>3. Amount(part, unit) = Total(f)
  BY DEF Amount
<1> HIDE DEF N
<1>4. f \in Seq(Nat) /\ Len(f) = N /\ \A i \in 1 .. N : f[i] = IF part[i].unit = unit THEN part[i].whole ELSE 0
  BY <1>1
<1> HIDE DEF f
<1>5. CASE \E i \in 1 .. N : part[i].unit = unit
  <2> DEFINE k == CHOOSE i \in DOMAIN part : part[i].unit = unit
  <2>1. k \in 1 .. N /\ part[k].unit = unit
    BY <1>1, <1>5
  <2>2. Field(part, unit) = part[k]
    BY <1>1, <1>5 DEF Field
  <2> HIDE DEF k
  <2>3. \A i \in 1 .. N : i # k => f[i] = 0
    BY <1>2, <1>4, <2>1
  <2>4. Total(f) = f[k]
    BY <1>4, <2>1, <2>3, OneTerm
  <2>5. f[k] = part[k].whole /\ unit \in {u, v, w} /\ part[k].whole \in Nat
    BY <1>1, <1>2, <1>4, <2>1
  <2>6. QED
    BY <1>3, <2>2, <2>4, <2>5
<1>6. CASE ~\E i \in 1 .. N : part[i].unit = unit
  <2>1. Total(f) = 0
    BY <1>4, <1>6, NoTerm
  <2>2. Field(part, unit).whole = 0
    BY <1>1, <1>6 DEF Field, Component
  <2>3. QED
    BY <1>3, <2>1, <2>2
<1>7. QED
  BY <1>5, <1>6

(***************************************************************************)
(* The nanoseconds of a time are those of its seconds when every other     *)
(* component has none.                                                     *)
(***************************************************************************)
LEMMA NanosRead ==
  ASSUME NEW time, Regular(time, "H", "M", "S"), Spelled(time),
         \A i \in DOMAIN time : time[i].unit # "S" => NanosOf(time[i]) = 0
  PROVE  Total([i \in 1 .. Len(time) |-> TextNanos(time[i])]) = NanosOf(Field(time, "S"))
<1> DEFINE N == Len(time)
           f == [i \in 1 .. N |-> TextNanos(time[i])]
<1>1. N \in Nat /\ DOMAIN time = 1 .. N
  BY DEF Regular
<1>2. \A i, j \in 1 .. N : time[i].unit = time[j].unit => i = j
  <2>1. "H" # "M" /\ "M" # "S" /\ "H" # "S"
    OBVIOUS
  <2>2. QED
    BY <1>1, <2>1, UnitsOnce
<1> HIDE DEF N
<1>3. \A i \in 1 .. N : TextNanos(time[i]) = NanosOf(time[i])
  BY <1>1, TextNanosRead DEF Spelled
<1>4. \A i \in 1 .. N : NanosOf(time[i]) \in Nat
  <2> SUFFICES ASSUME NEW i \in 1 .. N PROVE NanosOf(time[i]) \in Nat
    OBVIOUS
  <2>1. Spelled(<<time[i]>>)
    BY <1>1 DEF Spelled
  <2>2. Field(<<time[i]>>, time[i].unit) = time[i]
    BY DEF Field
  <2>3. QED
    BY <2>1, <2>2, FieldNanos
<1>5. f \in Seq(Nat) /\ Len(f) = N /\ \A i \in 1 .. N : f[i] = NanosOf(time[i])
  BY <1>1, <1>3, <1>4
<1> HIDE DEF f
<1>6. CASE \E i \in 1 .. N : time[i].unit = "S"
  <2> DEFINE k == CHOOSE i \in DOMAIN time : time[i].unit = "S"
  <2>1. k \in 1 .. N /\ time[k].unit = "S"
    BY <1>1, <1>6
  <2>2. Field(time, "S") = time[k]
    BY <1>1, <1>6 DEF Field
  <2> HIDE DEF k
  <2>3. \A i \in 1 .. N : i # k => f[i] = 0
    BY <1>1, <1>2, <1>5, <2>1
  <2>4. Total(f) = f[k]
    BY <1>5, <2>1, <2>3, OneTerm
  <2>5. QED
    BY <1>5, <2>1, <2>2, <2>4 DEF f, N
<1>7. CASE ~\E i \in 1 .. N : time[i].unit = "S"
  <2>1. Total(f) = 0
    BY <1>1, <1>5, <1>7, NoTerm
  <2>2. Field(time, "S") = Component(0, NoPoint, "S")
    BY <1>1, <1>7 DEF Field
  <2>3. NanosOf(Field(time, "S")) = 0
    BY <2>2, NoPointKept
  <2>4. QED
    BY <2>1, <2>3 DEF f, N
<1>8. QED
  BY <1>6, <1>7

(***************************************************************************)
(* The span of a text without weeks, from the fields that are read of it.  *)
(***************************************************************************)
LEMMA PartsSpan ==
  ASSUME NEW text, Regular(text.date, "Y", "M", "D"), Regular(text.time, "H", "M", "S"),
         Spelled(text.time),
         \A i \in DOMAIN text.time : text.time[i].unit # "S" => NanosOf(text.time[i]) = 0,
         NEW d,
         d.years = Field(text.date, "Y").whole, d.months = Field(text.date, "M").whole,
         d.weeks = 0, d.days = Field(text.date, "D").whole,
         d.hours = Field(text.time, "H").whole, d.minutes = Field(text.time, "M").whole,
         d.seconds = Field(text.time, "S").whole, d.nanos = NanosOf(Field(text.time, "S"))
  PROVE  TextSpan(text) = Span(d)
<1> DEFINE date == text.date
           time == text.time
<1>1. /\ Amount(date, "Y") = d.years /\ Amount(date, "M") = d.months
      /\ Amount(date, "D") = d.days /\ Amount(date, "W") = 0 /\ d.days \in Nat
  <2>1. "Y" # "M" /\ "M" # "D" /\ "Y" # "D" /\ "W" \notin {"Y", "M", "D"}
    OBVIOUS
  <2> HIDE DEF date
  <2>2. Regular(date, "Y", "M", "D")
    BY DEF date
  <2>3. \A unit : /\ Amount(date, unit) = Field(date, unit).whole
                  /\ unit \notin {"Y", "M", "D"} => Amount(date, unit) = 0
                  /\ Field(date, unit).whole \in Nat
    BY <2>1, <2>2, AmountRead
  <2>4. /\ Field(date, "Y").whole = d.years /\ Field(date, "M").whole = d.months
        /\ Field(date, "D").whole = d.days
    BY DEF date
  <2>5. QED
    BY <2>1, <2>3, <2>4
<1>2. /\ Amount(time, "H") = d.hours /\ Amount(time, "M") = d.minutes
      /\ Amount(time, "S") = d.seconds
  <2>1. "H" # "M" /\ "M" # "S" /\ "H" # "S"
    OBVIOUS
  <2>2. \A unit : Amount(time, unit) = Field(time, unit).whole
    BY <2>1, AmountRead
  <2>3. QED
    BY <2>2
<1>3. Total([i \in 1 .. Len(time) |-> TextNanos(time[i])]) = d.nanos
  BY NanosRead
<1> DEFINE nanos == Total([i \in 1 .. Len(time) |-> TextNanos(time[i])])
           y == Amount(date, "Y")
           mo == Amount(date, "M")
           w == Amount(date, "W")
           dy == Amount(date, "D")
           h == Amount(time, "H")
           mi == Amount(time, "M")
           s == Amount(time, "S")
<1>4. TextSpan(text) = [months |-> 12 * y + mo, days |-> 7 * w + dy,
                        seconds |-> 3600 * h + 60 * mi + s, nanos |-> nanos]
  BY DEF TextSpan
<1>5. y = d.years /\ mo = d.months /\ w = d.weeks /\ dy = d.days /\ nanos = d.nanos
  BY <1>1, <1>3
<1>6. h = d.hours /\ mi = d.minutes /\ s = d.seconds
  BY <1>2
<1> HIDE DEF nanos, y, mo, w, dy, h, mi, s
<1>7. QED
  BY <1>4, <1>5, <1>6 DEF Span

LEMMA WeeksSpan ==
  ASSUME NEW text, NEW c, text.date = <<c>>, text.time = <<>>, c.unit = "W", c.whole \in Nat,
         NEW d, d = [ZeroDuration EXCEPT !.weeks = c.whole]
  PROVE  TextSpan(text) = Span(d)
<1>1. d = [years |-> 0, months |-> 0, weeks |-> c.whole, days |-> 0,
           hours |-> 0, minutes |-> 0, seconds |-> 0, nanos |-> 0]
  BY DEF ZeroDuration
<1>2. \A unit : Amount(<<c>>, unit) = (IF unit = "W" THEN c.whole ELSE 0)
  <2> SUFFICES ASSUME NEW unit PROVE Amount(<<c>>, unit) = (IF unit = "W" THEN c.whole ELSE 0)
    OBVIOUS
  <2> DEFINE f == [i \in 1 .. 1 |-> IF <<c>>[i].unit = unit THEN <<c>>[i].whole ELSE 0]
  <2>1. Amount(<<c>>, unit) = Total(f)
    BY DEF Amount
  <2>2. f \in Seq(Nat) /\ Len(f) = 1 /\ f[1] = (IF unit = "W" THEN c.whole ELSE 0)
    OBVIOUS
  <2> HIDE DEF f
  <2>3. Total(f) = f[1]
    <3>1. 1 \in 1 .. Len(f) /\ \A i \in 1 .. Len(f) : i # 1 => f[i] = 0
      BY <2>2
    <3>2. QED
      BY <2>2, <3>1, OneTerm
  <2>4. QED
    BY <2>1, <2>2, <2>3
<1>3. Total(<<>>) = 0
  <2>1. <<>> \in Seq(Nat) /\ \A i \in 1 .. Len(<<>>) : <<>>[i] = 0
    OBVIOUS
  <2>2. QED
    BY <2>1, NoTerm
<1>4. \A unit : Amount(<<>>, unit) = 0
  <2> SUFFICES ASSUME NEW unit PROVE Amount(<<>>, unit) = 0
    OBVIOUS
  <2> DEFINE f == [i \in 1 .. Len(<<>>) |-> IF <<>>[i].unit = unit THEN <<>>[i].whole ELSE 0]
  <2>1. f = <<>>
    OBVIOUS
  <2>2. Amount(<<>>, unit) = Total(f)
    BY DEF Amount
  <2> HIDE DEF f
  <2>3. QED
    BY <1>3, <2>1, <2>2
<1>5. Total([i \in 1 .. Len(<<>>) |-> TextNanos(<<>>[i])]) = 0
  <2>1. [i \in 1 .. Len(<<>>) |-> TextNanos(<<>>[i])] = <<>>
    OBVIOUS
  <2>2. QED
    BY <1>3, <2>1
<1>6. TextSpan(text) =
        [months |-> 12 * 0 + 0, days |-> 7 * c.whole + 0, seconds |-> 3600 * 0 + 60 * 0 + 0,
         nanos |-> 0]
  <2>1. /\ Amount(text.date, "Y") = 0 /\ Amount(text.date, "M") = 0
        /\ Amount(text.date, "W") = c.whole /\ Amount(text.date, "D") = 0
    BY <1>2
  <2>2. /\ Amount(text.time, "H") = 0 /\ Amount(text.time, "M") = 0 /\ Amount(text.time, "S") = 0
    BY <1>4
  <2>3. Total([i \in 1 .. Len(text.time) |-> TextNanos(text.time[i])]) = 0
    BY <1>5
  <2> DEFINE nanos == Total([i \in 1 .. Len(text.time) |-> TextNanos(text.time[i])])
             y == Amount(text.date, "Y")
             mo == Amount(text.date, "M")
             w == Amount(text.date, "W")
             dy == Amount(text.date, "D")
             h == Amount(text.time, "H")
             mi == Amount(text.time, "M")
             s == Amount(text.time, "S")
  <2>4. TextSpan(text) = [months |-> 12 * y + mo, days |-> 7 * w + dy,
                          seconds |-> 3600 * h + 60 * mi + s, nanos |-> nanos]
    BY DEF TextSpan
  <2>5. y = 0 /\ mo = 0 /\ w = c.whole /\ dy = 0 /\ h = 0 /\ mi = 0 /\ s = 0 /\ nanos = 0
    BY <2>1, <2>2, <2>3
  <2> HIDE DEF nanos, y, mo, w, dy, h, mi, s
  <2>6. QED
    BY <2>4, <2>5
<1>7. QED
  BY <1>1, <1>6 DEF Span

(***************************************************************************)
(* What parseDuration accepts stands for the span of its value, and so     *)
(* does what String writes, normalized or too large for it.                *)
(***************************************************************************)
IsText(text) ==
  /\ \A part \in {text.date, text.time} :
       Len(part) \in Nat /\ part = [i \in 1 .. Len(part) |-> part[i]]
  /\ ~text.t => text.time = <<>>
  /\ Spelled(text.time)

LEMMA ParsedSpan ==
  ASSUME NEW text, Parses(text), IsText(text)
  PROVE  TextSpan(text) = Span(Parse(text))
<1> DEFINE date == text.date
           time == text.time
           d == Parse(text)
<1>1. Uint \subseteq Nat
  BY DurationAssumption DEF Uint
<1>2. CASE IsWeekForm(date)
  <2> DEFINE c == date[1]
  <2>1. Len(date) = 1 /\ Scans(c) /\ Last(date).unit = "W" /\ ~text.t
    BY <1>2 DEF Parses, IsWeekForm
  <2>2. date = <<c>>
    <3>1. date = [i \in 1 .. Len(date) |-> date[i]]
      BY DEF IsText
    <3>2. QED
      BY <2>1, <3>1
  <2>3. c.unit = "W" /\ c.whole \in Nat
    BY <1>1, <2>1 DEF Last, Scans
  <2>4. time = <<>>
    BY <2>1 DEF IsText
  <2>5. d = [ZeroDuration EXCEPT !.weeks = c.whole]
    BY <1>2 DEF Parse
  <2> HIDE DEF c, d
  <2>6. QED
    BY <2>2, <2>3, <2>4, <2>5, WeeksSpan DEF d
<1>3. CASE ~IsWeekForm(date)
  <2>1. DateParses(date) /\ (text.t => TimeParses(time))
    BY <1>3 DEF Parses
  <2>2. time = IF text.t THEN time ELSE <<>>
    BY DEF IsText
  <2>3. d = [TimeOf(time) EXCEPT !.years  = Field(date, "Y").whole,
                                 !.months = Field(date, "M").whole,
                                 !.days   = Field(date, "D").whole]
    BY <1>3, <2>2 DEF Parse
  <2>4. /\ Len(date) \in Nat /\ DOMAIN date = 1 .. Len(date)
        /\ Len(time) \in Nat /\ DOMAIN time = 1 .. Len(time) /\ Spelled(time)
    <3>1. \A part \in {date, time} : Len(part) \in Nat /\ DOMAIN part = 1 .. Len(part)
      BY DEF IsText
    <3>2. QED
      BY <3>1 DEF IsText
  <2>5. Regular(date, "Y", "M", "D")
    <3>1. \A i \in DOMAIN date : date[i].whole \in Nat
      BY <1>1, <2>1 DEF DateParses, Scans
    <3>2. Ordered(date, <<"Y", "M", "D">>)
      BY <2>1 DEF DateParses, DateUnits
    <3>3. QED
      BY <2>4, <3>1, <3>2 DEF Regular
  <2>6. /\ Regular(time, "H", "M", "S")
        /\ \A i \in DOMAIN time : time[i].unit # "S" => NanosOf(time[i]) = 0
    <3>1. CASE text.t
      <4>1. \A i \in DOMAIN time : time[i].whole \in Nat
        BY <1>1, <2>1, <3>1 DEF TimeParses, Scans
      <4>2. Ordered(time, <<"H", "M", "S">>)
        BY <2>1, <3>1 DEF TimeParses, TimeUnits
      <4>3. QED
        BY <2>1, <2>4, <3>1, <4>1, <4>2 DEF Regular, TimeParses
    <3>2. CASE ~text.t
      <4>1. time = <<>> /\ DOMAIN time = {}
        BY <2>2, <3>2
      <4>2. QED
        BY <2>4, <4>1 DEF Regular, Ordered
    <3>3. QED
      BY <3>1, <3>2
  <2>7. /\ d.years = Field(date, "Y").whole /\ d.months = Field(date, "M").whole
        /\ d.weeks = 0 /\ d.days = Field(date, "D").whole
        /\ d.hours = Field(time, "H").whole /\ d.minutes = Field(time, "M").whole
        /\ d.seconds = Field(time, "S").whole /\ d.nanos = NanosOf(Field(time, "S"))
    <3> DEFINE h == Field(time, "H").whole
               m == Field(time, "M").whole
               s == Field(time, "S").whole
               ns == NanosOf(Field(time, "S"))
    <3>1. TimeOf(time) = [ZeroDuration EXCEPT !.hours = h, !.minutes = m, !.seconds = s, !.nanos = ns]
      BY DEF TimeOf
    <3> HIDE DEF d, date, time, h, m, s, ns
    <3>2. TimeOf(time) = [years |-> 0, months |-> 0, weeks |-> 0, days |-> 0,
                          hours |-> h, minutes |-> m, seconds |-> s, nanos |-> ns]
      BY <3>1 DEF ZeroDuration
    <3>3. QED
      BY <2>3, <3>2 DEF h, m, s, ns
  <2> HIDE DEF d
  <2>8. QED
    BY <2>4, <2>5, <2>6, <2>7, PartsSpan DEF d
<1>4. QED
  BY <1>2, <1>3

LEMMA FormattedSpan ==
  ASSUME NEW d \in Durations, Legal(d)
  PROVE  TextSpan(Format(d)) = Span(d)
<1>1. WeeksAlone(d) /\ d.nanos < 10 ^ NanoDigits /\ Uint \subseteq Nat
  BY DurationAssumption DEF Legal, WeeksAlone, Uint
<1>2. CASE IsZero(d)
  <2>1. TotalFits(d)
    BY <1>2, DurationAssumption DEF IsZero, ZeroDuration, TotalFits, TotalSeconds
  <2>2. ReadBack(d, Format(d)) /\ Normalized(d) = d
    <3>1. IsZero(Normalized(d))
      BY <1>2, <2>1, NormalizedSpec
    <3>2. QED
      BY <1>1, <1>2, <2>1, <3>1, FormatRead DEF IsZero
  <2>3. Format(d) = Text(FALSE, TRUE, <<>>, TRUE, <<Component(0, NoPoint, "S")>>)
    BY <1>2 DEF Format
  <2>4. IsText(Format(d))
    <3> DEFINE c == Component(0, NoPoint, "S")
    <3>1. Spelled(Format(d).time)
      BY <2>2 DEF ReadBack
    <3>2. Format(d).date = <<>> /\ Format(d).time = <<c>> /\ Format(d).t
      BY <2>3 DEF Text
    <3> HIDE DEF c
    <3>3. Len(<<>>) \in Nat /\ DOMAIN <<>> = 1 .. Len(<<>>) /\ Len(<<c>>) \in Nat /\ DOMAIN <<c>> = 1 .. Len(<<c>>)
      OBVIOUS
    <3>4. QED
      BY <3>1, <3>2, <3>3 DEF IsText
  <2>5. QED
    BY <2>2, <2>4, ParsedSpan DEF ReadBack
<1>3. CASE d.weeks # 0
  <2> DEFINE c == Component(d.weeks, NoPoint, "W")
  <2>1. d = [ZeroDuration EXCEPT !.weeks = d.weeks] /\ d.weeks \in Nat /\ ~IsZero(d)
    BY <1>1, <1>3 DEF WeeksAlone, Durations, IsZero, ZeroDuration
  <2>2. Format(d) = Text(FALSE, TRUE, <<c>>, FALSE, <<>>)
    BY <1>3, <2>1, Zenon DEF Format
  <2>3. c.unit = "W" /\ c.whole = d.weeks
    BY DEF Component
  <2> HIDE DEF c
  <2>4. Format(d).date = <<c>> /\ Format(d).time = <<>>
    BY <2>2 DEF Text
  <2>5. QED
    BY <2>1, <2>3, <2>4, WeeksSpan
<1>4. CASE ~IsZero(d) /\ d.weeks = 0
  <2> DEFINE n == Normalized(d)
             time == NonZero(Component(n.hours, NoPoint, "H"))
                       \o NonZero(Component(n.minutes, NoPoint, "M"))
                       \o NonZero(Component(n.seconds, Fraction(n.nanos), "S"))
             date == NonZero(Component(n.years, NoPoint, "Y"))
                       \o NonZero(Component(n.months, NoPoint, "M"))
                       \o NonZero(Component(n.days, NoPoint, "D"))
  <2>1. /\ n \in Durations /\ TotalSeconds(n) = TotalSeconds(d)
        /\ n.years = d.years /\ n.months = d.months /\ n.weeks = d.weeks /\ n.days = d.days
        /\ n.nanos = d.nanos
    <3>1. CASE TotalFits(d)
      BY <3>1, NormalizedSpec
    <3>2. CASE ~TotalFits(d)
      BY <3>2 DEF Normalized
    <3>3. QED
      BY <3>1, <3>2
  <2>2. Format(d) = Text(FALSE, TRUE, date, time # <<>>, time)
    <3>1. Format(d) = LET date2 == NonZero(Component(d.years, NoPoint, "Y"))
                                     \o NonZero(Component(d.months, NoPoint, "M"))
                                     \o NonZero(Component(d.days, NoPoint, "D"))
                      IN  Text(FALSE, TRUE, date2, time # <<>>, time)
      BY <1>4 DEF Format
    <3> HIDE DEF n
    <3>2. QED
      BY <2>1, <3>1
  <2>3. Written(n, date, time)
    <3> HIDE DEF n
    <3>1. QED
      BY <1>1, <2>1, PartsWritten
  <2> HIDE DEF n, date, time
  <2> DEFINE text == Format(d)
  <2>4. text.date = date /\ text.time = time
    BY <2>2 DEF Text
  <2> HIDE DEF text
  <2>5. Regular(text.date, "Y", "M", "D") /\ Regular(text.time, "H", "M", "S")
    <3>1. /\ \A i \in DOMAIN date : date[i].whole \in Nat
          /\ \A i \in DOMAIN time : time[i].whole \in Nat
      BY <1>1, <2>3 DEF Written, Scans
    <3>2. QED
      BY <2>3, <2>4, <3>1 DEF Written, Regular, DateUnits, TimeUnits
  <2>6. /\ Spelled(text.time)
        /\ \A i \in DOMAIN text.time : text.time[i].unit # "S" => NanosOf(text.time[i]) = 0
        /\ n.years = Field(text.date, "Y").whole /\ n.months = Field(text.date, "M").whole
        /\ n.weeks = 0 /\ n.days = Field(text.date, "D").whole
        /\ n.hours = Field(text.time, "H").whole /\ n.minutes = Field(text.time, "M").whole
        /\ n.seconds = Field(text.time, "S").whole
        /\ n.nanos = NanosOf(Field(text.time, "S"))
    BY <1>4, <2>1, <2>3, <2>4 DEF Written
  <2>7. TextSpan(text) = Span(n)
    BY <2>5, <2>6, PartsSpan
  <2>8. Span(n) = Span(d)
    BY <2>1 DEF Span, TotalSeconds
  <2>9. QED
    BY <2>7, <2>8 DEF text
<1>5. QED
  BY <1>2, <1>3, <1>4

LEMMA Years ==
  /\ \A y \in Int : DaysBeforeYear(y) \in Int
  /\ \A y \in Int : YearLength(y) = IF IsLeapYear(y) THEN 366 ELSE 365
  /\ \A x, y \in Int : x < y => DaysBeforeYear(x + 1) <= DaysBeforeYear(y)
<1>1. \A y \in Int : DaysBeforeYear(y) \in Int
  BY DEF DaysBeforeYear
<1>2. \A y \in Int : YearLength(y) = IF IsLeapYear(y) THEN 366 ELSE 365
  <2> SUFFICES ASSUME NEW y \in Int
               PROVE  YearLength(y) = IF IsLeapYear(y) THEN 366 ELSE 365
    OBVIOUS
  <2>1. YearLength(y) = 365 + ((y \div 4) - ((y - 1) \div 4)) - ((y \div 100) - ((y - 1) \div 100))
                            + ((y \div 400) - ((y - 1) \div 400))
    BY DEF YearLength, DaysBeforeYear
  <2>2. (y \div 4) - ((y - 1) \div 4) = IF y % 4 = 0 THEN 1 ELSE 0
    OBVIOUS
  <2>3. (y \div 100) - ((y - 1) \div 100) = IF y % 100 = 0 THEN 1 ELSE 0
    OBVIOUS
  <2>4. (y \div 400) - ((y - 1) \div 400) = IF y % 400 = 0 THEN 1 ELSE 0
    OBVIOUS
  <2>5. (y % 400 = 0 => y % 100 = 0) /\ (y % 100 = 0 => y % 4 = 0)
    OBVIOUS
  <2>6. QED
    BY <2>1, <2>2, <2>3, <2>4, <2>5 DEF IsLeapYear
<1>3. \A x, y \in Int : x < y => DaysBeforeYear(x + 1) <= DaysBeforeYear(y)
  BY DEF DaysBeforeYear
<1>4. QED
  BY <1>1, <1>2, <1>3

LEMMA YearFound ==
  ASSUME NEW n \in Int
  PROVE  LET last == 400 * (n \div DaysIn400Years) + ((n % DaysIn400Years) \div 365) + 1
         IN  /\ last \in Int
             /\ \E y \in {last - 1, last} : DaysBeforeYear(y) <= n /\ n < DaysBeforeYear(y + 1)
<1> DEFINE c == n \div DaysIn400Years
           r == n % DaysIn400Years
           k == r \div 365
           last == 400 * c + k + 1
<1>1. c \in Int /\ r \in Nat /\ r <= 146096 /\ n = 146097 * c + r
  <2>1. \A q \in Nat \ {0} : /\ n \div q \in Int /\ n % q \in Nat /\ n % q < q
                           /\ n = (q * (n \div q)) + (n % q)
    OBVIOUS
  <2>2. DaysIn400Years \in Nat \ {0}
    BY DEF DaysIn400Years
  <2>3. c \in Int
    BY <2>1, <2>2
  <2>4. r \in Nat /\ r < DaysIn400Years
    BY <2>1, <2>2
  <2>5. n = (DaysIn400Years * c) + r
    BY <2>1, <2>2, Zenon
  <2> HIDE DEF c, r
  <2>6. QED
    BY <2>3, <2>4, <2>5 DEF DaysIn400Years
<1> HIDE DEF c, r
<1>2. k \in Nat /\ k <= 400 /\ 365 * k <= r /\ r < 365 * k + 365
  BY <1>1
<1> HIDE DEF k
<1>3. \A j \in 0 .. 401 : DaysBeforeYear(400 * c + j + 1)
                            = 146097 * c + 365 * j + (j \div 4) - (j \div 100) + (j \div 400)
  <2> SUFFICES ASSUME NEW j \in 0 .. 401
               PROVE  DaysBeforeYear(400 * c + j + 1)
                        = 146097 * c + 365 * j + (j \div 4) - (j \div 100) + (j \div 400)
    OBVIOUS
  <2>1. (400 * c + j + 1) - 1 = 400 * c + j
    BY <1>1
  <2>2. (400 * c + j) \div 4 = 100 * c + (j \div 4)
    BY <1>1
  <2>3. (400 * c + j) \div 100 = 4 * c + (j \div 100)
    BY <1>1
  <2>4. (400 * c + j) \div 400 = c + (j \div 400)
    BY <1>1
  <2>5. QED
    BY <1>1, <2>1, <2>2, <2>3, <2>4 DEF DaysBeforeYear
<1>4. last - 1 = 400 * c + (k - 1) + 1 /\ last + 1 = 400 * c + (k + 1) + 1
  BY <1>1, <1>2
<1> DEFINE Found == /\ last \in Int
                    /\ \E y \in {last - 1, last} : DaysBeforeYear(y) <= n /\ n < DaysBeforeYear(y + 1)
<1>5. ASSUME DaysBeforeYear(last) <= n PROVE Found
  <2>1. n < DaysBeforeYear(last + 1)
    <3>1. DaysBeforeYear(400 * c + (k + 1) + 1)
            = 146097 * c + 365 * (k + 1) + ((k + 1) \div 4) - ((k + 1) \div 100) + ((k + 1) \div 400)
      BY <1>2, <1>3
    <3>2. ((k + 1) \div 100) <= ((k + 1) \div 4) /\ 0 <= (k + 1) \div 400
      BY <1>2
    <3>3. (k + 1) \div 4 \in Int /\ (k + 1) \div 100 \in Int /\ (k + 1) \div 400 \in Int
      BY <1>2
    <3>4. 365 * (k + 1) = 365 * k + 365
      BY <1>2
    <3>5. QED
      BY <1>1, <1>2, <1>4, <3>1, <3>2, <3>3, <3>4
  <2>2. last \in Int /\ last \in {last - 1, last}
    BY <1>1, <1>2
  <2>3. QED
    BY <1>5, <2>1, <2>2
<1>6. ASSUME ~(DaysBeforeYear(last) <= n) PROVE Found
  <2>1. k # 0
    BY <1>1, <1>2, <1>3, <1>6
  <2>2. DaysBeforeYear(last - 1) <= n
    <3>1. k - 1 \in 0 .. 399
      BY <1>2, <2>1
    <3>2. DaysBeforeYear(400 * c + (k - 1) + 1)
            = 146097 * c + 365 * (k - 1) + ((k - 1) \div 4) - ((k - 1) \div 100) + ((k - 1) \div 400)
      BY <1>3, <3>1
    <3>3. ((k - 1) \div 4) <= 99 /\ 0 <= (k - 1) \div 100 /\ (k - 1) \div 400 = 0
      BY <3>1
    <3>4. (k - 1) \div 4 \in Int /\ (k - 1) \div 100 \in Int
      BY <3>1
    <3>5. 365 * (k - 1) = 365 * k - 365
      BY <1>2
    <3>6. QED
      BY <1>1, <1>2, <1>4, <3>2, <3>3, <3>4, <3>5
  <2>3. (last - 1) + 1 = last /\ last \in Int /\ DaysBeforeYear(last) \in Int
    BY <1>1, <1>2, Years
  <2>4. n < DaysBeforeYear((last - 1) + 1)
    BY <1>6, <2>3
  <2>5. QED
    BY <2>2, <2>3, <2>4
<1>7. QED
  BY <1>5, <1>6 DEF c, r, k

(***************************************************************************)
(* The days before a month of a year, and the month a day of the year is   *)
(* in.                                                                     *)
(***************************************************************************)
LEMMA Months ==
  ASSUME NEW y \in Int
  PROVE  /\ DaysBeforeMonth(y, 1) = 0
         /\ \A m \in 1 .. 12 : DaysBeforeMonth(y, m) \in Nat
         /\ \A m \in 1 .. 11 : DaysBeforeMonth(y, m + 1) = DaysBeforeMonth(y, m) + DaysInMonth(y, m)
         /\ YearLength(y) = DaysBeforeMonth(y, 12) + DaysInMonth(y, 12)
         /\ \A m \in 1 .. 12 : DaysInMonth(y, m) \in 28 .. 31
<1> DEFINE leap == IF IsLeapYear(y) THEN 1 ELSE 0
           table == <<0, 31, 59, 90, 120, 151, 181, 212, 243, 273, 304, 334>>
<1>1. leap \in 0 .. 1 /\ YearLength(y) = 365 + leap
  BY Years
<1>2. \A m \in 1 .. 12 : DaysInMonth(y, m) = IF m = 2 THEN 28 + leap
                                           ELSE IF m \in {4, 6, 9, 11} THEN 30 ELSE 31
  BY DEF DaysInMonth
<1>3. /\ table[1] = 0 /\ table[2] = 31 /\ table[3] = 59 /\ table[4] = 90 /\ table[5] = 120
      /\ table[6] = 151 /\ table[7] = 181 /\ table[8] = 212 /\ table[9] = 243
      /\ table[10] = 273 /\ table[11] = 304 /\ table[12] = 334
  OBVIOUS
<1>4. \A m \in 1 .. 12 : DaysBeforeMonth(y, m) = table[m] + (IF m > 2 THEN leap ELSE 0)
  BY <1>1 DEF DaysBeforeMonth
<1> HIDE DEF leap, table
<1>5. /\ DaysBeforeMonth(y, 1) = 0 /\ DaysBeforeMonth(y, 2) = 31
      /\ DaysBeforeMonth(y, 3) = 59 + leap /\ DaysBeforeMonth(y, 4) = 90 + leap
      /\ DaysBeforeMonth(y, 5) = 120 + leap /\ DaysBeforeMonth(y, 6) = 151 + leap
      /\ DaysBeforeMonth(y, 7) = 181 + leap /\ DaysBeforeMonth(y, 8) = 212 + leap
      /\ DaysBeforeMonth(y, 9) = 243 + leap /\ DaysBeforeMonth(y, 10) = 273 + leap
      /\ DaysBeforeMonth(y, 11) = 304 + leap /\ DaysBeforeMonth(y, 12) = 334 + leap
  BY <1>1, <1>3, <1>4
<1>6. \A m \in 1 .. 12 : DaysBeforeMonth(y, m) \in Nat
  BY <1>1, <1>5
<1>7. \A m \in 1 .. 11 : DaysBeforeMonth(y, m + 1) = DaysBeforeMonth(y, m) + DaysInMonth(y, m)
  <2> SUFFICES ASSUME NEW m \in 1 .. 11
               PROVE  DaysBeforeMonth(y, m + 1) = DaysBeforeMonth(y, m) + DaysInMonth(y, m)
    OBVIOUS
  <2>1. m \in {1, 2, 3, 4, 5, 6, 7, 8, 9, 10, 11}
    OBVIOUS
  <2>2. QED
    BY <1>1, <1>2, <1>5, <2>1
<1>8. YearLength(y) = DaysBeforeMonth(y, 12) + DaysInMonth(y, 12)
  BY <1>1, <1>2, <1>5
<1>9. \A m \in 1 .. 12 : DaysInMonth(y, m) \in 28 .. 31
  BY <1>1, <1>2
<1>10. QED
  BY <1>5, <1>6, <1>7, <1>8, <1>9

(***************************************************************************)
(* A month ends with the year at the latest.                               *)
(***************************************************************************)
LEMMA BeforeLast ==
  ASSUME NEW y \in Int, NEW m \in 1 .. 12
  PROVE  DaysBeforeMonth(y, m) <= YearLength(y)
<1> DEFINE leap == IF IsLeapYear(y) THEN 1 ELSE 0
           table == <<0, 31, 59, 90, 120, 151, 181, 212, 243, 273, 304, 334>>
<1>1. leap \in 0 .. 1 /\ YearLength(y) = 365 + leap
  BY Years
<1>2. DaysBeforeMonth(y, m) = table[m] + (IF m > 2 THEN leap ELSE 0)
  BY <1>1 DEF DaysBeforeMonth
<1>3. table[m] \in 0 .. 334
  OBVIOUS
<1> HIDE DEF leap, table
<1>4. QED
  BY <1>1, <1>2, <1>3

LEMMA MonthTypes ==
  ASSUME NEW y \in Int, NEW m \in 1 .. 12
  PROVE  /\ DaysBeforeMonth(y, m) \in Nat /\ DaysInMonth(y, m) \in Nat
         /\ m < 12 => DaysBeforeMonth(y, m + 1) = DaysBeforeMonth(y, m) + DaysInMonth(y, m)
         /\ m = 12 => YearLength(y) = DaysBeforeMonth(y, m) + DaysInMonth(y, m)
<1>1. DaysBeforeMonth(y, m) \in Nat
  BY Months
<1>2. DaysInMonth(y, m) \in 28 .. 31
  BY Months
<1>3. m < 12 => m \in 1 .. 11
  OBVIOUS
<1>4. m < 12 => DaysBeforeMonth(y, m + 1) = DaysBeforeMonth(y, m) + DaysInMonth(y, m)
  BY <1>3, Months
<1>5. m = 12 => YearLength(y) = DaysBeforeMonth(y, m) + DaysInMonth(y, m)
  BY Months
<1>6. QED
  BY <1>1, <1>2, <1>4, <1>5

InMonth(y, m, rest) ==
  /\ DaysBeforeMonth(y, m) < rest
  /\ m < 12 => rest <= DaysBeforeMonth(y, m + 1)

LEMMA MonthFound ==
  ASSUME NEW y \in Int, NEW rest \in 1 .. YearLength(y)
  PROVE  /\ \E m \in 1 .. 12 : InMonth(y, m, rest)
         /\ \A m \in 1 .. 12 : InMonth(y, m, rest) => rest - DaysBeforeMonth(y, m) \in 1 .. DaysInMonth(y, m)
         /\ \A m \in 1 .. 12 : \A d \in 1 .. DaysInMonth(y, m) :
              rest = DaysBeforeMonth(y, m) + d => \A n \in 1 .. 12 : InMonth(y, n, rest) <=> n = m
<1> DEFINE before(m) == DaysBeforeMonth(y, m)
           long(m) == DaysInMonth(y, m)
<1>1. /\ before(1) = 0
      /\ \A m \in 1 .. 12 : before(m) \in Nat /\ long(m) \in 28 .. 31
      /\ \A m \in 1 .. 11 : before(m + 1) = before(m) + long(m)
      /\ YearLength(y) = before(12) + long(12)
  BY Months
<1>2. rest \in Int /\ 1 <= rest /\ rest <= YearLength(y)
  BY <1>1
<1> HIDE DEF before, long
<1>3. \E m \in 1 .. 12 : before(m) < rest /\ (m < 12 => rest <= before(m + 1))
  <2> SUFFICES ASSUME \A m \in 1 .. 12 : ~(before(m) < rest /\ (m < 12 => rest <= before(m + 1)))
               PROVE  FALSE
    OBVIOUS
  <2>1. \A m \in 1 .. 11 : before(m) < rest => before(m + 1) < rest
    BY <1>1, <1>2
  <2>2. before(1) < rest
    BY <1>1, <1>2
  <2>3. /\ 1 \in 1 .. 11 /\ 2 \in 1 .. 11 /\ 3 \in 1 .. 11 /\ 4 \in 1 .. 11 /\ 5 \in 1 .. 11
        /\ 6 \in 1 .. 11 /\ 7 \in 1 .. 11 /\ 8 \in 1 .. 11 /\ 9 \in 1 .. 11
        /\ 10 \in 1 .. 11 /\ 11 \in 1 .. 11 /\ 12 \in 1 .. 12
    OBVIOUS
  <2>4. before(6) < rest
    BY <2>1, <2>2, <2>3
  <2>5. before(12) < rest
    BY <2>1, <2>3, <2>4
  <2>6. QED
    BY <2>3, <2>5
<1>4. \A m \in 1 .. 12 : before(m) < rest /\ (m < 12 => rest <= before(m + 1)) => rest - before(m) \in 1 .. long(m)
  BY <1>1, <1>2
<1>5. \A m, n \in 1 .. 12 : n < m => before(n + 1) <= before(m)
  <2> SUFFICES ASSUME NEW m \in 1 .. 12, NEW n \in 1 .. 12, n < m
               PROVE  before(n + 1) <= before(m)
    OBVIOUS
  <2>1. \A i \in 1 .. 11 : before(i) <= before(i + 1) /\ i \in 1 .. 12 /\ i + 1 \in 1 .. 12
    BY <1>1
  <2>2. /\ before(1) <= before(2) /\ before(2) <= before(3) /\ before(3) <= before(4)
        /\ before(4) <= before(5) /\ before(5) <= before(6) /\ before(6) <= before(7)
        /\ before(7) <= before(8) /\ before(8) <= before(9) /\ before(9) <= before(10)
        /\ before(10) <= before(11) /\ before(11) <= before(12)
    BY <2>1
  <2>3. /\ before(1) \in Nat /\ before(2) \in Nat /\ before(3) \in Nat /\ before(4) \in Nat
        /\ before(5) \in Nat /\ before(6) \in Nat /\ before(7) \in Nat /\ before(8) \in Nat
        /\ before(9) \in Nat /\ before(10) \in Nat /\ before(11) \in Nat /\ before(12) \in Nat
    BY <1>1
  <2>4. m \in {1, 2, 3, 4, 5, 6, 7, 8, 9, 10, 11, 12} /\ n + 1 \in {2, 3, 4, 5, 6, 7, 8, 9, 10, 11, 12} /\ n + 1 <= m
    OBVIOUS
  <2>5. QED
    BY <2>2, <2>3, <2>4
<1>6. ASSUME NEW m \in 1 .. 12, NEW d \in 1 .. long(m), rest = before(m) + d, NEW n \in 1 .. 12
      PROVE  (before(n) < rest /\ (n < 12 => rest <= before(n + 1))) <=> n = m
  <2>1. d \in Int /\ 1 <= d /\ d <= long(m)
    BY <1>1
  <2>2. before(m) \in Nat /\ before(n) \in Nat /\ (m < 12 => before(m + 1) = before(m) + long(m))
    BY <1>1
  <2>3. CASE n < m
    <3>1. n < 12 /\ before(n + 1) <= before(m) /\ n + 1 \in 1 .. 12
      BY <1>5, <2>3
    <3>2. before(n + 1) \in Nat
      BY <1>1, <3>1
    <3>3. QED
      BY <1>6, <2>1, <2>2, <2>3, <3>1, <3>2
  <2>4. CASE m < n
    <3>1. m < 12 /\ before(m + 1) <= before(n) /\ long(m) \in Int
      BY <1>1, <1>5, <2>4
    <3>2. QED
      BY <1>6, <2>1, <2>2, <2>4, <3>1
  <2>5. CASE n = m
    BY <1>1, <1>6, <2>1, <2>2, <2>5
  <2>6. QED
    BY <2>3, <2>4, <2>5
<1>7. \A m : InMonth(y, m, rest) <=> before(m) < rest /\ (m < 12 => rest <= before(m + 1))
  BY DEF InMonth, before
<1>8. QED
  BY <1>3, <1>4, <1>6, <1>7 DEF before, long

-----------------------------------------------------------------------------
(***************************************************************************)
(* A time of day and its hours, minutes and seconds.                       *)
(***************************************************************************)
LEMMA ClockFields ==
  ASSUME NEW s \in Nat, s < 86400
  PROVE  s \div 3600 \in 0 .. 23 /\ (s % 3600) \div 60 \in 0 .. 59 /\ s % 60 \in 0 .. 59
OBVIOUS

(***************************************************************************)
(* The fields an instant shows are those of a day of the calendar.         *)
(***************************************************************************)
LEMMA FromTimeSpec ==
  ASSUME NEW t, IsInstant(t)
  PROVE  LET dt == FromTime(t)
         IN  /\ dt \in DateTimes
             /\ dt.month \in 1 .. 12
             /\ dt.day \in 1 .. DaysInMonth(dt.year, dt.month)
             /\ dt.hour \in 0 .. 23 /\ dt.minute \in 0 .. 59 /\ dt.second \in 0 .. 59
             /\ DaysBeforeYear(dt.year) < t.day /\ t.day <= DaysBeforeYear(dt.year + 1)
<1> DEFINE days  == t.day - 1
           last  == 400 * (days \div DaysIn400Years) + ((days % DaysIn400Years) \div 365) + 1
           year  == CHOOSE y \in {last - 1, last} :
                      DaysBeforeYear(y) < t.day /\ t.day <= DaysBeforeYear(y + 1)
           rest  == t.day - DaysBeforeYear(year)
           month == CHOOSE m \in 1 .. 12 : InMonth(year, m, rest)
<1>1. FromTime(t) = DT(year, month, rest - DaysBeforeMonth(year, month),
                       t.second \div 3600, (t.second % 3600) \div 60, t.second % 60)
  BY Zenon DEF FromTime, InMonth
<1>2. t.day \in Int /\ days \in Int /\ t.second \in Nat /\ t.second < 86400
  BY DEF IsInstant
<1>3. last \in Int /\ \E y \in {last - 1, last} : DaysBeforeYear(y) <= days /\ days < DaysBeforeYear(y + 1)
  <2> HIDE DEF days
  <2>1. QED
    BY <1>2, YearFound
<1> HIDE DEF last
<1>4. year \in Int /\ DaysBeforeYear(year) < t.day /\ t.day <= DaysBeforeYear(year + 1)
  <2>1. PICK y \in {last - 1, last} : DaysBeforeYear(y) <= days /\ days < DaysBeforeYear(y + 1)
    BY <1>3
  <2>2. y \in Int /\ y + 1 \in Int /\ DaysBeforeYear(y) \in Int /\ DaysBeforeYear(y + 1) \in Int
    BY <1>3, Years
  <2>3. DaysBeforeYear(y) < t.day /\ t.day <= DaysBeforeYear(y + 1)
    BY <1>2, <2>1, <2>2
  <2>4. /\ year \in {last - 1, last}
        /\ DaysBeforeYear(year) < t.day /\ t.day <= DaysBeforeYear(year + 1)
    BY <2>3
  <2> HIDE DEF year
  <2>5. QED
    BY <1>3, <2>4
<1> HIDE DEF year
<1>5. rest \in 1 .. YearLength(year)
  <2>1. DaysBeforeYear(year) \in Int /\ DaysBeforeYear(year + 1) \in Int
    BY <1>4, Years
  <2>2. QED
    BY <1>2, <1>4, <2>1 DEF YearLength
<1> HIDE DEF rest
<1>6. month \in 1 .. 12 /\ InMonth(year, month, rest)
  BY <1>4, <1>5, MonthFound
<1> HIDE DEF month
<1>7. rest - DaysBeforeMonth(year, month) \in 1 .. DaysInMonth(year, month)
  BY <1>4, <1>5, <1>6, MonthFound
<1>8. rest - DaysBeforeMonth(year, month) \in Int
  <2>1. DaysBeforeMonth(year, month) \in Nat
    BY <1>4, <1>6, MonthTypes
  <2>2. YearLength(year) \in Int
    BY <1>4, Years
  <2>3. QED
    BY <1>5, <2>1, <2>2
<1>9. /\ t.second \div 3600 \in 0 .. 23 /\ (t.second % 3600) \div 60 \in 0 .. 59 /\ t.second % 60 \in 0 .. 59
  BY <1>2, ClockFields
<1> DEFINE dom == rest - DaysBeforeMonth(year, month)
           h == t.second \div 3600
           mi == (t.second % 3600) \div 60
           s == t.second % 60
<1>10. FromTime(t) = DT(year, month, dom, h, mi, s)
  BY <1>1
<1>11. /\ dom \in 1 .. DaysInMonth(year, month) /\ dom \in Int
       /\ h \in 0 .. 23 /\ mi \in 0 .. 59 /\ s \in 0 .. 59
  BY <1>7, <1>8, <1>9
<1> HIDE DEF dom, h, mi, s
<1>12. h \in Int /\ mi \in Int /\ s \in Int /\ month \in Int
  BY <1>6, <1>11
<1>13. QED
  BY <1>4, <1>6, <1>10, <1>11, <1>12 DEF DT, DateTimes

LEMMA TimeSpec ==
  ASSUME NEW dt \in DateTimes
  PROVE  IsInstant(Time(dt))
<1> DEFINE year == dt.year + ((dt.month - 1) \div 12)
           month == ((dt.month - 1) % 12) + 1
           seconds == 3600 * dt.hour + 60 * dt.minute + dt.second
<1>1. /\ dt.year \in Int /\ dt.month \in Int /\ dt.day \in Int
      /\ dt.hour \in Int /\ dt.minute \in Int /\ dt.second \in Int
  BY DEF DateTimes
<1>2. year \in Int /\ month \in 1 .. 12 /\ seconds \in Int
  BY <1>1
<1>3. Time(dt) = [day |-> DaysBeforeYear(year) + DaysBeforeMonth(year, month) + dt.day
                            + (seconds \div 86400),
                  second |-> seconds % 86400]
  BY DEF Time
<1> HIDE DEF year, month, seconds
<1>4. DaysBeforeYear(year) \in Int /\ DaysBeforeMonth(year, month) \in Int
  <2>1. DaysBeforeYear(year) \in Int
    BY <1>2, Years
  <2>2. DaysBeforeMonth(year, month) \in Nat
    BY <1>2, MonthTypes
  <2>3. QED
    BY <2>1, <2>2
<1>5. seconds \div 86400 \in Int /\ seconds % 86400 \in Nat /\ seconds % 86400 < 86400
  BY <1>2
<1>6. QED
  BY <1>1, <1>3, <1>4, <1>5 DEF IsInstant

(***************************************************************************)
(* The calendar has the valid date-times, and each of them once.           *)
(***************************************************************************)
LEMMA ClockInverse ==
  ASSUME NEW dt \in DateTimes, Valid(dt)
  PROVE  FromTime(Time(dt)) = dt
<1> DEFINE y == dt.year
           m == dt.month
           seconds == 3600 * dt.hour + 60 * dt.minute + dt.second
           t == Time(dt)
           back == FromTime(t)
<1>1. /\ y \in Int /\ m \in 1 .. 12 /\ dt.day \in 1 .. DaysInMonth(y, m) /\ dt.day \in Int
      /\ dt.hour \in 0 .. 23 /\ dt.minute \in 0 .. 59 /\ dt.second \in 0 .. 59
  BY DEF DateTimes, Valid
<1>2. /\ seconds \in Nat /\ seconds < 86400 /\ seconds \div 3600 = dt.hour
      /\ (seconds % 3600) \div 60 = dt.minute /\ seconds % 60 = dt.second
  <2>1. seconds = 3600 * dt.hour + 60 * dt.minute + dt.second
    OBVIOUS
  <2> HIDE DEF seconds
  <2> DEFINE h == dt.hour
             n == dt.minute
             s == dt.second
  <2>2. h \in 0 .. 23 /\ n \in 0 .. 59 /\ s \in 0 .. 59 /\ seconds = 3600 * h + 60 * n + s
    BY <1>1, <2>1
  <2> HIDE DEF h, n, s
  <2>3. /\ seconds \in Nat /\ seconds < 86400 /\ seconds \div 3600 = h
        /\ (seconds % 3600) \div 60 = n /\ seconds % 60 = s
    <3>1. seconds \in Nat /\ seconds < 86400
      BY <2>2
    <3>2. seconds \div 3600 = h
      BY <2>2
    <3>3. seconds % 3600 = 60 * n + s
      BY <2>2
    <3>4. (60 * n + s) \div 60 = n
      BY <2>2
    <3>5. seconds % 60 = s
      BY <2>2
    <3>6. QED
      BY <3>1, <3>2, <3>3, <3>4, <3>5
  <2>4. QED
    BY <2>3 DEF h, n, s
<1>3. y + ((m - 1) \div 12) = y /\ ((m - 1) % 12) + 1 = m
  BY <1>1
<1>4. t = [day |-> DaysBeforeYear(y) + DaysBeforeMonth(y, m) + dt.day + (seconds \div 86400),
           second |-> seconds % 86400]
  BY <1>3 DEF Time
<1> HIDE DEF seconds
<1>5. seconds \div 86400 = 0 /\ seconds % 86400 = seconds
  BY <1>2
<1>6. DaysBeforeYear(y) \in Int /\ DaysBeforeMonth(y, m) \in Nat
  <2>1. DaysBeforeYear(y) \in Int
    BY <1>1, Years
  <2>2. DaysBeforeMonth(y, m) \in Nat
    BY <1>1, Months
  <2>3. QED
    BY <2>1, <2>2
<1>7. t.day = DaysBeforeYear(y) + DaysBeforeMonth(y, m) + dt.day /\ t.second = seconds
  BY <1>1, <1>4, <1>5, <1>6
<1>8. IsInstant(t)
  BY TimeSpec
<1> HIDE DEF t, y, m
<1> DEFINE days  == t.day - 1
           last  == 400 * (days \div DaysIn400Years) + ((days % DaysIn400Years) \div 365) + 1
           year  == CHOOSE x \in {last - 1, last} :
                      DaysBeforeYear(x) < t.day /\ t.day <= DaysBeforeYear(x + 1)
           rest  == t.day - DaysBeforeYear(year)
           month == CHOOSE x \in 1 .. 12 : InMonth(year, x, rest)
<1>9. back = DT(year, month, rest - DaysBeforeMonth(year, month),
                t.second \div 3600, (t.second % 3600) \div 60, t.second % 60)
  BY Zenon DEF FromTime, InMonth
<1> HIDE DEF last
<1>10. /\ back.year \in Int
       /\ DaysBeforeYear(back.year) < t.day /\ t.day <= DaysBeforeYear(back.year + 1)
  BY <1>8, FromTimeSpec DEF DateTimes
<1>11. back.year = year
  BY <1>9 DEF DT
<1> HIDE DEF back, year
<1>12. DaysBeforeYear(y) < t.day /\ t.day <= DaysBeforeYear(y + 1)
  <2>1. DaysBeforeMonth(y, m) + dt.day \in 1 .. YearLength(y)
    <3>1. CASE m = 12
      <4>1. YearLength(y) = DaysBeforeMonth(y, m) + DaysInMonth(y, m) /\ DaysInMonth(y, m) \in Nat
        BY <1>1, <3>1, MonthTypes
      <4>2. QED
        BY <1>1, <1>6, <4>1
    <3>2. CASE m # 12
      <4>1. m \in 1 .. 11 /\ m + 1 \in 1 .. 12
        BY <1>1, <3>2
      <4>2. /\ DaysBeforeMonth(y, m + 1) = DaysBeforeMonth(y, m) + DaysInMonth(y, m)
            /\ DaysInMonth(y, m) \in Nat
        <5>1. m < 12
          BY <1>1, <3>2
        <5>2. QED
          BY <1>1, <5>1, MonthTypes
      <4>3. DaysBeforeMonth(y, m + 1) <= YearLength(y)
        BY <1>1, <4>1, BeforeLast
      <4>4. YearLength(y) \in Int
        BY <1>1, Years
      <4>5. QED
        BY <1>1, <1>6, <4>2, <4>3, <4>4
    <3>3. QED
      BY <3>1, <3>2
  <2>2. DaysBeforeYear(y + 1) \in Int /\ DaysBeforeYear(y + 1) = DaysBeforeYear(y) + YearLength(y)
    <3>1. y + 1 \in Int
      BY <1>1
    <3>2. DaysBeforeYear(y + 1) \in Int
      BY <3>1, Years
    <3>3. QED
      BY <1>6, <3>2 DEF YearLength
  <2>3. YearLength(y) \in Int
    BY <1>1, Years
  <2>4. QED
    BY <1>1, <1>6, <1>7, <2>1, <2>2, <2>3
<1>13. year = y
  <2>1. year \in Int /\ DaysBeforeYear(year) < t.day /\ t.day <= DaysBeforeYear(year + 1)
    BY <1>10, <1>11
  <2>2. /\ DaysBeforeYear(year) \in Int /\ DaysBeforeYear(year + 1) \in Int
        /\ DaysBeforeYear(y + 1) \in Int /\ t.day \in Int
    BY <1>1, <1>8, <2>1, Years DEF IsInstant
  <2>3. ~(year < y)
    <3>1. year < y => DaysBeforeYear(year + 1) <= DaysBeforeYear(y)
      BY <1>1, <2>1, Years
    <3>2. QED
      BY <1>6, <1>12, <2>1, <2>2, <3>1
  <2>4. ~(y < year)
    <3>1. y < year => DaysBeforeYear(y + 1) <= DaysBeforeYear(year)
      BY <1>1, <2>1, Years
    <3>2. QED
      BY <1>6, <1>12, <2>1, <2>2, <3>1
  <2>5. QED
    BY <1>1, <2>1, <2>3, <2>4
<1>14. rest = DaysBeforeMonth(y, m) + dt.day
  BY <1>1, <1>6, <1>7, <1>13
<1>15. month = m
  <2>1. rest \in 1 .. YearLength(y)
    <3>1. DaysBeforeYear(y + 1) \in Int
      <4>1. y + 1 \in Int
        BY <1>1
      <4>2. QED
        BY <4>1, Years
    <3>2. t.day \in Int
      BY <1>8 DEF IsInstant
    <3>3. QED
      BY <1>6, <1>12, <1>13, <3>1, <3>2 DEF YearLength
  <2> HIDE DEF rest
  <2>2. \A n \in 1 .. 12 : InMonth(y, n, rest) <=> n = m
    BY <1>1, <1>14, <2>1, MonthFound
  <2>3. QED
    BY <1>1, <1>13, <2>2
<1>16. rest - DaysBeforeMonth(y, m) = dt.day
  BY <1>1, <1>6, <1>14
<1> HIDE DEF rest, month
<1>17. back = DT(y, m, dt.day, dt.hour, dt.minute, dt.second)
  BY <1>2, <1>7, <1>9, <1>13, <1>15, <1>16
<1>18. dt = DT(dt.year, dt.month, dt.day, dt.hour, dt.minute, dt.second)
  BY DEF DateTimes, DT
<1>19. QED
  BY <1>17, <1>18 DEF y, m, back, t
-----------------------------------------------------------------------------
(***************************************************************************)
(* The values that stand for no member, null and text of the wrong kind    *)
(* are unlike every record the model builds.                               *)
(***************************************************************************)
NoRecords ==
  \A x \in {Absent, Null, NotObject, NotText} :
    DOMAIN x \cap {"type", "kind", "minus", "fields"} = {}

Typed(t) ==
  \/ t = None
  \/ /\ t.kind = "OffsetTrigger" /\ t = OffsetTrigger(t.offset, t.relativeTo)
     /\ t.offset \in [negative : BOOLEAN, span : Durations]
     /\ t.relativeTo \notin {Absent, Null, NotText}
  \/ /\ t.kind = "AbsoluteTrigger" /\ t = AbsoluteTrigger(t.when)
     /\ t.when \in DateTimes
  \/ /\ t.kind = "raw" /\ t = Raw(t.bytes)
     /\ IsObject(t.bytes) /\ KindOf(t.bytes) = "raw" /\ t.bytes.type # NotText

(***************************************************************************)
(* The offset of a member, where it is one, has its sign or none, is in    *)
(* parts that have decimal digits only, and has a time behind a "T" only.  *)
(***************************************************************************)
WellSpelled(m) ==
  (IsObject(m) /\ KindOf(m) = "OffsetTrigger" /\ m.offset \notin {Absent, Null, NotText}) =>
    m.offset.minus \in BOOLEAN /\ IsText(m.offset)

(***************************************************************************)
(* The inductive invariant: the trigger has one of the four shapes, is the *)
(* decoded source if it has one, and the member is a peer's or the encoded *)
(* trigger that was sent.                                                  *)
(***************************************************************************)
Coherent ==
  /\ Typed(trigger)
  /\ source # Null => Decodes(source) /\ trigger = Decoded(source) /\ WellSpelled(source)
  /\ DecodedFits
  /\ sent = Null => member \in Members
  /\ sent # Null => Typed(sent) /\ Encodes(sent) /\ member = Encoded(sent)

(***************************************************************************)
(* The assumptions on the constants, as the proofs below use them.         *)
(***************************************************************************)
LEMMA Constants ==
  /\ Absent \in Members
  /\ \A o \in Offsets : o \in [negative : BOOLEAN, span : Durations]
  /\ \A w \in Whens : w \in DateTimes
  /\ \A t \in Instants : IsInstant(t)
  /\ \A a \in Anchors \cup {""} : a \notin {Absent, Null, NotText}
  /\ NotText # Absent /\ NotText # "OffsetTrigger" /\ NotText # "AbsoluteTrigger"
<1>1. /\ {Absent, Null, NotObject} \subseteq Members
      /\ Offsets \subseteq [negative : BOOLEAN, span : Durations]
      /\ Whens \subseteq DateTimes
      /\ {Absent, Null} \cap (Anchors \cup {""}) = {}
      /\ NotText \notin Anchors \cup {Absent, "", "OffsetTrigger", "AbsoluteTrigger"}
  BY TriggerAssumption, Zenon
<1>2. \A t \in Instants : IsInstant(t)
  BY TriggerAssumption, Zenon
<1>3. \A a \in Anchors \cup {""} : a \notin {Absent, Null, NotText}
  <2> DEFINE blank == ""
  <2>1. \A a \in Anchors \cup {blank} : a # NotText
    BY <1>1, Zenon
  <2>2. {Absent, Null} \cap (Anchors \cup {blank}) = {}
    BY <1>1, Zenon
  <2> HIDE DEF blank
  <2>3. \A a \in Anchors \cup {blank} : a \notin {Absent, Null, NotText}
    BY <2>1, <2>2
  <2>4. QED
    BY <2>3 DEF blank
<1>4. NotText # Absent /\ NotText # "OffsetTrigger" /\ NotText # "AbsoluteTrigger"
  BY <1>1, Zenon
<1>5. QED
  BY <1>1, <1>2, <1>3, <1>4

LEMMA Apart ==
  ASSUME NoRecords
  PROVE  /\ \A t : Typed(t) => t # Null
         /\ \A a, b, c, d, e : IsObject(Object(a, b, c, d, e))
         /\ \A a, b, c, d, e : Text(a, b, c, d, e) \notin {Absent, Null, NotText}
         /\ \A a, b, c : DTText(a, b, c) \notin {Absent, Null, NotText}
<1>1. \A t : Typed(t) => "kind" \in DOMAIN t
  <2> SUFFICES ASSUME NEW t, Typed(t) PROVE "kind" \in DOMAIN t
    OBVIOUS
  <2>1. \/ t = None
        \/ t = OffsetTrigger(t.offset, t.relativeTo)
        \/ t = AbsoluteTrigger(t.when)
        \/ t = Raw(t.bytes)
    BY DEF Typed
  <2>2. \A a, b : "kind" \in DOMAIN OffsetTrigger(a, b)
    BY DEF OffsetTrigger
  <2>3. \A a : "kind" \in DOMAIN AbsoluteTrigger(a) /\ "kind" \in DOMAIN Raw(a)
    BY DEF AbsoluteTrigger, Raw
  <2>4. "kind" \in DOMAIN None
    BY DEF None
  <2>5. QED
    BY <2>1, <2>2, <2>3, <2>4
<1>2. \A a, b, c, d, e : "type" \in DOMAIN Object(a, b, c, d, e)
  BY DEF Object
<1>3. \A a, b, c, d, e : "minus" \in DOMAIN Text(a, b, c, d, e)
  BY DEF Text
<1>4. \A a, b, c : "fields" \in DOMAIN DTText(a, b, c)
  BY DEF DTText
<1>5. \A x \in {Absent, Null, NotObject, NotText} :
        /\ "type" \notin DOMAIN x /\ "kind" \notin DOMAIN x
        /\ "minus" \notin DOMAIN x /\ "fields" \notin DOMAIN x
  BY DEF NoRecords
<1>6. \A t : Typed(t) => t # Null
  BY <1>1, <1>5
<1>7. \A a, b, c, d, e : IsObject(Object(a, b, c, d, e))
  BY <1>2, <1>5 DEF IsObject
<1>8. \A a, b, c, d, e : Text(a, b, c, d, e) \notin {Absent, Null, NotText}
  BY <1>3, <1>5
<1>9. \A a, b, c : DTText(a, b, c) \notin {Absent, Null, NotText}
  BY <1>4, <1>5
<1>10. QED
  BY <1>6, <1>7, <1>8, <1>9

-----------------------------------------------------------------------------
(***************************************************************************)
(* Offsets: what is produced for any duration has decimal digits, and a    *)
(* duration that is legal and fits is read back normalized.                *)
(***************************************************************************)
LEMMA ProducedText ==
  ASSUME NEW d \in Durations
  PROVE  IsText(Format(d))
<1> DEFINE n == Normalized(d)
           x == Component(n.hours, NoPoint, "H")
           y == Component(n.minutes, NoPoint, "M")
           z == Component(n.seconds, Fraction(n.nanos), "S")
           time == NonZero(x) \o NonZero(y) \o NonZero(z)
           u == Component(d.years, NoPoint, "Y")
           v == Component(d.months, NoPoint, "M")
           w == Component(d.days, NoPoint, "D")
           date == NonZero(u) \o NonZero(v) \o NonZero(w)
           zero == <<Component(0, NoPoint, "S")>>
           weeks == <<Component(d.weeks, NoPoint, "W")>>
<1>1. /\ Format(d).time \in {zero, <<>>, time} /\ Format(d).date \in {<<>>, weeks, date}
      /\ ~Format(d).t => Format(d).time = <<>>
  BY DEF Format, Text
<1>2. n.nanos = d.nanos
  BY DEF Normalized, Durations
<1>3. Fraction(n.nanos) \in Seq(0 .. 9) \cup {NoPoint}
  <2>1. d.nanos \in 0 .. 10 ^ (NanoDigits + 1) - 1
    BY DEF Durations
  <2>2. Fraction(d.nanos) \in Seq(0 .. 9) \cup {NoPoint}
    BY <2>1, FractionTyped
  <2> HIDE DEF n
  <2>3. QED
    BY <1>2, <2>2
<1> HIDE DEF n
<1>4. /\ \A c \in {x, y, z} : c.frac \in Seq(0 .. 9) \cup {NoPoint}
      /\ x # y /\ y # z /\ x # z /\ u # v /\ v # w /\ u # w
  <2>1. u.unit = "Y" /\ v.unit = "M" /\ w.unit = "D" /\ x.unit = "H" /\ y.unit = "M" /\ z.unit = "S"
    BY DEF Component
  <2>2. x.frac = NoPoint /\ y.frac = NoPoint /\ z.frac = Fraction(n.nanos)
    BY DEF Component
  <2> HIDE DEF x, y, z, u, v, w
  <2>3. QED
    BY <1>3, <2>1, <2>2
<1> HIDE DEF x, y, z, u, v, w
<1>5. time \in Seq({x, y, z}) /\ date \in Seq({u, v, w})
  BY <1>4, Concatenated DEF Laid
<1>6. Spelled(time)
  <2> HIDE DEF time
  <2>1. QED
    BY <1>4, <1>5 DEF Spelled
<1>7. Spelled(<<>>) /\ Spelled(zero)
  <2>1. Component(0, NoPoint, "S").frac = NoPoint
    BY DEF Component
  <2>2. QED
    BY <2>1 DEF Spelled
<1>8. /\ \A S : \A s \in Seq(S) : Len(s) \in Nat /\ s = [i \in 1 .. Len(s) |-> s[i]]
      /\ \A c : <<c>> \in Seq({c})
      /\ <<>> \in Seq({})
  OBVIOUS
<1> HIDE DEF time, date
<1>9. \A part \in {zero, <<>>, time, weeks, date} :
        Len(part) \in Nat /\ part = [i \in 1 .. Len(part) |-> part[i]]
  <2>1. \A part \in {zero, weeks} : Len(part) \in Nat /\ part = [i \in 1 .. Len(part) |-> part[i]]
    BY <1>8
  <2>2. \A part \in {time, date} : Len(part) \in Nat /\ part = [i \in 1 .. Len(part) |-> part[i]]
    BY <1>5, <1>8
  <2>3. Len(<<>>) \in Nat /\ <<>> = [i \in 1 .. Len(<<>>) |-> <<>>[i]]
    BY <1>8
  <2> HIDE DEF zero, weeks
  <2>4. QED
    BY <2>1, <2>2, <2>3
<1> HIDE DEF zero, weeks
<1>10. QED
  BY <1>1, <1>6, <1>7, <1>9 DEF IsText

LEMMA Signed ==
  ASSUME NEW o
  PROVE  LET f == FormatSigned(o)
         IN  /\ f.minus = (o.negative /\ ~IsZero(o.span))
             /\ f.p = Format(o.span).p /\ f.date = Format(o.span).date
             /\ f.t = Format(o.span).t /\ f.time = Format(o.span).time
             /\ \E a, b, c, d, e : f = Text(a, b, c, d, e)
<1>1. \E a, b, c, d, e : Format(o.span) = Text(a, b, c, d, e)
  BY Zenon DEF Format
<1>2. PICK a, b, c, d, e : Format(o.span) = Text(a, b, c, d, e)
  BY <1>1
<1> DEFINE minus == o.negative /\ ~IsZero(o.span)
<1>3. FormatSigned(o) = [Format(o.span) EXCEPT !.minus = minus]
  BY DEF FormatSigned
<1> HIDE DEF minus
<1>4. FormatSigned(o) = Text(minus, b, c, d, e)
  BY <1>2, <1>3 DEF Text
<1>5. /\ FormatSigned(o).minus = minus
      /\ FormatSigned(o).p = Format(o.span).p /\ FormatSigned(o).date = Format(o.span).date
      /\ FormatSigned(o).t = Format(o.span).t /\ FormatSigned(o).time = Format(o.span).time
  BY <1>2, <1>4 DEF Text
<1>6. \E v, w, x, y, z : FormatSigned(o) = Text(v, w, x, y, z)
  BY <1>4
<1>7. FormatSigned(o).minus = (o.negative /\ ~IsZero(o.span))
  BY <1>5, Zenon DEF minus
<1>8. QED
  BY <1>5, <1>6, <1>7, Zenon

Measured(o) ==
  /\ o \in [negative : BOOLEAN, span : Durations]
  /\ Legal(o.span) /\ Span(o.span).seconds \in Uint

LEMMA OffsetRead ==
  ASSUME NEW o, Measured(o), NEW f, f = FormatSigned(o)
  PROVE  /\ Parses(f) /\ Span(ParseSigned(f).span) = Span(o.span)
         /\ FormatSigned(ParseSigned(f)) = f
<1> DEFINE d == o.span
           n == Normalized(d)
           g == Format(d)
           q == ParseSigned(f)
<1>1. d \in Durations /\ TotalFits(d) /\ WeeksAlone(d) /\ d.nanos < 10 ^ NanoDigits
  <2>1. d \in Durations /\ Legal(d)
    BY DEF Measured
  <2>2. Span(d).seconds = TotalSeconds(d)
    BY DEF Span, TotalSeconds
  <2>3. Span(d).seconds \in Uint
    BY DEF Measured
  <2>4. TotalSeconds(d) <= MaxUint
    BY <2>2, <2>3, DurationAssumption DEF Uint
  <2>5. QED
    BY <2>1, <2>4 DEF Legal, TotalFits, WeeksAlone
<1>2. Parses(g) /\ Parse(g) = n /\ Format(n) = g
  BY <1>1, FormatRead DEF ReadBack
<1>3. /\ f.minus = (o.negative /\ ~IsZero(d))
      /\ f.p = g.p /\ f.date = g.date /\ f.t = g.t /\ f.time = g.time
  BY Signed
<1>4. Parses(f) = Parses(g) /\ Parse(f) = Parse(g)
  <2> HIDE DEF g, d
  <2>1. QED
    BY <1>3, Zenon DEF Parses, Parse
<1>5. q = [negative |-> f.minus, span |-> n]
  BY <1>2, <1>4 DEF ParseSigned
<1>6. q.negative = f.minus /\ q.span = n
  <2> HIDE DEF n, q
  <2>1. QED
    BY <1>5
<1>7. /\ n \in Durations /\ TotalSeconds(n) = TotalSeconds(d)
      /\ n.years = d.years /\ n.months = d.months /\ n.weeks = d.weeks /\ n.days = d.days
      /\ n.nanos = d.nanos
      /\ IsZero(n) <=> IsZero(d)
  BY <1>1, NormalizedSpec
<1>8. Span(q.span) = Span(d)
  <2> HIDE DEF n, d, q
  <2>1. Span(n) = Span(d)
    BY <1>7 DEF Span, TotalSeconds
  <2>2. QED
    BY <1>6, <2>1
<1>9. FormatSigned(q) = f
  <2> DEFINE sign == o.negative /\ ~IsZero(d)
  <2>1. FormatSigned(q) = [Format(q.span) EXCEPT !.minus = q.negative /\ ~IsZero(q.span)]
    BY DEF FormatSigned
  <2>2. f = [g EXCEPT !.minus = sign]
    BY DEF FormatSigned
  <2>3. (q.negative /\ ~IsZero(q.span)) = sign
    <3>1. q.negative = sign
      BY <1>3, <1>6, Zenon
    <3>2. IsZero(q.span) = IsZero(d)
      <4>1. IsZero(n) \in BOOLEAN /\ IsZero(d) \in BOOLEAN
        BY Zenon DEF IsZero
      <4>2. IsZero(q.span) = IsZero(n)
        BY <1>6, Zenon
      <4> HIDE DEF n, d, q
      <4>3. QED
        BY <1>7, <4>1, <4>2, Zenon
    <3> HIDE DEF d, n, g, q
    <3>3. QED
      BY <3>1, <3>2, Zenon
  <2>4. Format(q.span) = g
    BY <1>2, <1>6, Zenon
  <2> HIDE DEF d, n, g, q, sign
  <2>5. QED
    BY <2>1, <2>2, <2>3, <2>4, Zenon
<1>10. QED
  BY <1>2, <1>4, <1>8, <1>9

-----------------------------------------------------------------------------
(***************************************************************************)
(* Date-times: the fields of a valid one have the digits they are given.   *)
(***************************************************************************)
LEMMA ValidFields ==
  ASSUME NEW dt, Valid(dt)
  PROVE  /\ dt.year \in 1 .. 9999 /\ dt.month \in 1 .. 12 /\ dt.day \in 1 .. 31
         /\ dt.hour \in 0 .. 23 /\ dt.minute \in 0 .. 59 /\ dt.second \in 0 .. 59
<1>1. DaysInMonth(dt.year, dt.month) \in {0, 28, 29, 30, 31}
  BY DEF DaysInMonth
<1> DEFINE k == DaysInMonth(dt.year, dt.month)
<1>2. k \in {0, 28, 29, 30, 31} /\ dt.day \in 1 .. k
  BY <1>1 DEF Valid
<1> HIDE DEF k
<1>3. dt.day \in 1 .. 31
  BY <1>2
<1>4. QED
  BY <1>3 DEF Valid

(***************************************************************************)
(* The valid date-times are those of the years 1 to 9999 that the calendar *)
(* has.                                                                    *)
(***************************************************************************)
LEMMA ValidIsShown ==
  \A dt \in DateTimes : Valid(dt) <=> Shown(dt)
<1> SUFFICES ASSUME NEW dt \in DateTimes PROVE Valid(dt) <=> Shown(dt)
  OBVIOUS
<1>1. ASSUME Valid(dt) PROVE Shown(dt)
  BY <1>1, ClockInverse DEF Valid, Shown
<1>2. ASSUME Shown(dt) PROVE Valid(dt)
  <2>1. IsInstant(Time(dt))
    BY TimeSpec
  <2> DEFINE t == Time(dt)
  <2>2. IsInstant(t) /\ FromTime(t) = dt /\ dt.year \in 1 .. 9999
    BY <1>2, <2>1 DEF Shown
  <2> HIDE DEF t
  <2>3. /\ dt.month \in 1 .. 12
        /\ dt.day \in 1 .. DaysInMonth(dt.year, dt.month)
        /\ dt.hour \in 0 .. 23 /\ dt.minute \in 0 .. 59 /\ dt.second \in 0 .. 59
    BY <2>2, FromTimeSpec
  <2>4. QED
    BY <2>2, <2>3 DEF Valid
<1>3. QED
  BY <1>1, <1>2

LEMMA WhenRead ==
  ASSUME NEW dt \in DateTimes, Valid(dt)
  PROVE  /\ ScansDT(AppendText(dt, TRUE), TRUE)
         /\ Scanned(AppendText(dt, TRUE).fields) = dt
<1> DEFINE text == AppendText(dt, TRUE)
<1>0. /\ dt.year \in 1 .. 9999 /\ dt.month \in 1 .. 12 /\ dt.day \in 1 .. 31
      /\ dt.hour \in 0 .. 23 /\ dt.minute \in 0 .. 59 /\ dt.second \in 0 .. 59
  BY ValidFields
<1>1. text.fields = <<dt.year, dt.month, dt.day, dt.hour, dt.minute, dt.second>>
  <2>1. /\ dt.year % 10000 = dt.year /\ dt.month % 100 = dt.month /\ dt.day % 100 = dt.day
        /\ dt.hour % 100 = dt.hour /\ dt.minute % 100 = dt.minute /\ dt.second % 100 = dt.second
    <3> DEFINE y == dt.year
               m == dt.month
               d == dt.day
               h == dt.hour
               n == dt.minute
               s == dt.second
    <3>1. /\ y \in 1 .. 9999 /\ m \in 1 .. 12 /\ d \in 1 .. 31
          /\ h \in 0 .. 23 /\ n \in 0 .. 59 /\ s \in 0 .. 59
      BY <1>0
    <3> HIDE DEF y, m, d, h, n, s
    <3>2. y % 10000 = y /\ m % 100 = m /\ d % 100 = d /\ h % 100 = h /\ n % 100 = n /\ s % 100 = s
      BY <3>1
    <3>3. QED
      BY <3>2 DEF y, m, d, h, n, s
  <2>2. text.fields = <<dt.year % 10000, dt.month % 100, dt.day % 100,
                        dt.hour % 100, dt.minute % 100, dt.second % 100>>
    BY DEF AppendText, DTText
  <2> HIDE DEF text
  <2>3. QED
    BY <2>1, <2>2
<1>2. text.shaped = TRUE /\ text.z = TRUE
  BY DEF AppendText, DTText
<1> HIDE DEF text
<1>3. Scanned(text.fields) = dt
  <2>1. Scanned(text.fields) = DT(dt.year, dt.month, dt.day, dt.hour, dt.minute, dt.second)
    BY <1>1 DEF Scanned
  <2>2. QED
    BY <2>1 DEF DT, DateTimes
<1>4. \A i \in 1 .. 6 : text.fields[i] # NotDigits
  <2>1. /\ text.fields[1] = dt.year /\ text.fields[2] = dt.month /\ text.fields[3] = dt.day
        /\ text.fields[4] = dt.hour /\ text.fields[5] = dt.minute /\ text.fields[6] = dt.second
    BY <1>1
  <2>2. \A i \in 1 .. 6 : i = 1 \/ i = 2 \/ i = 3 \/ i = 4 \/ i = 5 \/ i = 6
    OBVIOUS
  <2>3. \A i \in 1 .. 6 : text.fields[i] \in Int
    <3>1. /\ text.fields[1] \in Int /\ text.fields[2] \in Int /\ text.fields[3] \in Int
          /\ text.fields[4] \in Int /\ text.fields[5] \in Int /\ text.fields[6] \in Int
      <4>1. /\ dt.year \in Int /\ dt.month \in Int /\ dt.day \in Int
            /\ dt.hour \in Int /\ dt.minute \in Int /\ dt.second \in Int
        BY DEF DateTimes
      <4>2. QED
        BY <2>1, <4>1, Zenon
    <3> DEFINE g == text.fields
    <3>2. g[1] \in Int /\ g[2] \in Int /\ g[3] \in Int /\ g[4] \in Int /\ g[5] \in Int /\ g[6] \in Int
      BY <3>1
    <3> HIDE DEF g
    <3>3. \A i \in 1 .. 6 : g[i] \in Int
      BY <2>2, <3>2
    <3>4. QED
      BY <3>3 DEF g
  <2>4. QED
    BY <2>3, DateTimeAssumption
<1>5. QED
  BY <1>2, <1>3, <1>4 DEF ScansDT, text

-----------------------------------------------------------------------------
(***************************************************************************)
(* What each kind of trigger encodes to.                                   *)
(***************************************************************************)
LEMMA KindsEncoded ==
  /\ \A t : t.kind = "none" => Encoded(t) = Absent
  /\ \A t : t.kind = "raw" => Encoded(t) = t.bytes
  /\ \A t : t.kind = "OffsetTrigger" =>
       Encoded(t) = Object("OffsetTrigger", FormatSigned(t.offset),
                           IF t.relativeTo = "" THEN Absent ELSE t.relativeTo, Absent, {})
  /\ \A t : t.kind = "AbsoluteTrigger" =>
       Encoded(t) = Object("AbsoluteTrigger", Absent, Absent, AppendText(t.when, TRUE), {})
  BY DEF Encoded

LEMMA KindsDecoded ==
  /\ \A m : ~IsObject(m) => Decoded(m) = None
  /\ \A m : IsObject(m) /\ KindOf(m) = "raw" => Decoded(m) = Raw(m)
  /\ \A m : IsObject(m) /\ KindOf(m) = "OffsetTrigger" =>
       Decoded(m) =
         OffsetTrigger(
           IF m.offset \in {Absent, Null} THEN ZeroOffset ELSE ParseSigned(m.offset),
           IF m.relativeTo \in {Absent, Null} THEN "" ELSE m.relativeTo)
  /\ \A m : IsObject(m) /\ KindOf(m) = "AbsoluteTrigger" =>
       Decoded(m) =
         AbsoluteTrigger(IF m.when = Absent THEN ZeroWhen ELSE Scanned(m.when.fields))
  /\ \A m : KindOf(m) \in {"OffsetTrigger", "AbsoluteTrigger", "raw"}
  /\ \A m : KindOf(m) # "raw" => m.type = KindOf(m)
  /\ \A m : m.type \in {"OffsetTrigger", "AbsoluteTrigger"} => KindOf(m) = m.type
<1>1. \A m : ~IsObject(m) => Decoded(m) = None
  BY DEF Decoded
<1>2. \A m : IsObject(m) /\ KindOf(m) = "raw" => Decoded(m) = Raw(m)
  BY DEF Decoded
<1>3. \A m : IsObject(m) /\ KindOf(m) = "OffsetTrigger" =>
       Decoded(m) =
         OffsetTrigger(
           IF m.offset \in {Absent, Null} THEN ZeroOffset ELSE ParseSigned(m.offset),
           IF m.relativeTo \in {Absent, Null} THEN "" ELSE m.relativeTo)
  BY DEF Decoded
<1>4. \A m : IsObject(m) /\ KindOf(m) = "AbsoluteTrigger" =>
       Decoded(m) =
         AbsoluteTrigger(IF m.when = Absent THEN ZeroWhen ELSE Scanned(m.when.fields))
  BY DEF Decoded
<1>5. /\ \A m : KindOf(m) \in {"OffsetTrigger", "AbsoluteTrigger", "raw"}
      /\ \A m : KindOf(m) # "raw" => m.type = KindOf(m)
      /\ \A m : m.type \in {"OffsetTrigger", "AbsoluteTrigger"} => KindOf(m) = m.type
  BY DEF KindOf
<1>6. QED
  BY <1>1, <1>2, <1>3, <1>4, <1>5

LEMMA Fields ==
  /\ None.kind = "none"
  /\ \A a, b : /\ OffsetTrigger(a, b).kind = "OffsetTrigger"
               /\ OffsetTrigger(a, b).offset = a /\ OffsetTrigger(a, b).relativeTo = b
  /\ \A a : AbsoluteTrigger(a).kind = "AbsoluteTrigger" /\ AbsoluteTrigger(a).when = a
  /\ \A a : Raw(a).kind = "raw" /\ Raw(a).bytes = a
  BY DEF None, OffsetTrigger, AbsoluteTrigger, Raw

LEMMA ObjectFields ==
  \A a, b, c, d, e :
    /\ Object(a, b, c, d, e).type = a /\ Object(a, b, c, d, e).offset = b
    /\ Object(a, b, c, d, e).relativeTo = c /\ Object(a, b, c, d, e).when = d
  BY DEF Object

LEMMA KindsKept ==
  \A m : IsObject(m) => Decoded(m).kind = KindOf(m)
<1> SUFFICES ASSUME NEW m, IsObject(m) PROVE Decoded(m).kind = KindOf(m)
  OBVIOUS
<1>1. CASE KindOf(m) = "raw"
  <2>1. Decoded(m) = Raw(m)
    BY <1>1, KindsDecoded
  <2>2. QED
    BY <1>1, <2>1, Fields
<1>2. CASE KindOf(m) = "OffsetTrigger"
  <2> DEFINE a == IF m.offset \in {Absent, Null} THEN ZeroOffset ELSE ParseSigned(m.offset)
             b == IF m.relativeTo \in {Absent, Null} THEN "" ELSE m.relativeTo
  <2>1. Decoded(m) = OffsetTrigger(a, b)
    BY <1>2, KindsDecoded
  <2> HIDE DEF a, b
  <2>2. QED
    BY <1>2, <2>1, Fields
<1>3. CASE KindOf(m) = "AbsoluteTrigger"
  <2> DEFINE a == IF m.when = Absent THEN ZeroWhen ELSE Scanned(m.when.fields)
  <2>1. Decoded(m) = AbsoluteTrigger(a)
    BY <1>3, KindsDecoded
  <2> HIDE DEF a
  <2>2. QED
    BY <1>3, <2>1, Fields
<1>4. KindOf(m) \in {"OffsetTrigger", "AbsoluteTrigger", "raw"}
  BY DEF KindOf
<1>5. QED
  BY <1>1, <1>2, <1>3, <1>4

-----------------------------------------------------------------------------
LEMMA MembersSpelled ==
  \A m \in Members : WellSpelled(m)
BY MembersAssumption DEF WellSpelled, IsText, Spelled

LEMMA EncodedSpelled ==
  ASSUME NEW t, Typed(t)
  PROVE  WellSpelled(Encoded(t))
<1> DEFINE m == Encoded(t)
<1>1. CASE t = None
  <2>1. m = Absent
    BY <1>1, Fields, KindsEncoded
  <2>2. QED
    BY <2>1 DEF WellSpelled, IsObject
<1>2. CASE t.kind = "OffsetTrigger" /\ t.offset \in [negative : BOOLEAN, span : Durations]
  <2>1. m.offset = FormatSigned(t.offset)
    <3> DEFINE anchor == IF t.relativeTo = "" THEN Absent ELSE t.relativeTo
               none == {}
    <3>1. m = Object("OffsetTrigger", FormatSigned(t.offset), anchor, Absent, none)
      BY <1>2, KindsEncoded
    <3> HIDE DEF m, anchor, none
    <3>2. QED
      BY <3>1, ObjectFields
  <2>2. /\ FormatSigned(t.offset).time = Format(t.offset.span).time
        /\ FormatSigned(t.offset).date = Format(t.offset.span).date
        /\ FormatSigned(t.offset).t = Format(t.offset.span).t
        /\ FormatSigned(t.offset).minus \in BOOLEAN
    <3>1. /\ FormatSigned(t.offset).time = Format(t.offset.span).time
          /\ FormatSigned(t.offset).date = Format(t.offset.span).date
          /\ FormatSigned(t.offset).t = Format(t.offset.span).t
          /\ FormatSigned(t.offset).minus = (t.offset.negative /\ ~IsZero(t.offset.span))
      BY Signed
    <3>2. (t.offset.negative /\ ~IsZero(t.offset.span)) \in BOOLEAN
      BY Zenon
    <3>3. QED
      BY <3>1, <3>2
  <2>3. t.offset.span \in Durations
    BY <1>2
  <2>4. IsText(Format(t.offset.span))
    BY <2>3, ProducedText
  <2>5. IsText(FormatSigned(t.offset))
    BY <2>2, <2>4 DEF IsText
  <2>6. QED
    BY <2>1, <2>2, <2>5 DEF WellSpelled
<1>3. CASE t.kind = "AbsoluteTrigger"
  <2>1. m.type = "AbsoluteTrigger"
    <3> DEFINE text == AppendText(t.when, TRUE)
               none == {}
    <3>1. m = Object("AbsoluteTrigger", Absent, Absent, text, none)
      BY <1>3, KindsEncoded
    <3> HIDE DEF m, text, none
    <3>2. QED
      BY <3>1, ObjectFields
  <2> HIDE DEF m
  <2>2. KindOf(m) = "AbsoluteTrigger"
    BY <2>1 DEF KindOf
  <2>3. QED
    BY <2>2 DEF WellSpelled, m
<1>4. CASE t.kind = "raw" /\ KindOf(t.bytes) = "raw"
  <2>1. m = t.bytes
    BY <1>4, KindsEncoded
  <2>2. QED
    BY <1>4, <2>1 DEF WellSpelled
<1>5. QED
  BY <1>1, <1>2, <1>3, <1>4 DEF Typed

LEMMA DecodedTyped ==
  ASSUME NoRecords, NEW m, Decodes(m), WellSpelled(m), NEW t, t = Decoded(m)
  PROVE  Typed(t) /\ (t.kind = "OffsetTrigger" => Measured(t.offset))
<1>1. CASE ~IsObject(m)
  BY <1>1, KindsDecoded, Fields DEF Typed
<1>2. CASE IsObject(m) /\ KindOf(m) = "raw"
  <2>1. m.type # NotText
    BY <1>2 DEF Decodes, IsObject
  <2>2. t = Raw(m)
    BY <1>2, KindsDecoded
  <2>3. t.kind = "raw" /\ t.bytes = m
    BY <2>2, Fields
  <2>4. QED
    BY <1>2, <2>1, <2>2, <2>3 DEF Typed
<1>3. CASE IsObject(m) /\ KindOf(m) = "AbsoluteTrigger"
  <2> DEFINE when == IF m.when = Absent THEN ZeroWhen ELSE Scanned(m.when.fields)
  <2>1. m.when # Absent => ScansDT(m.when, TRUE)
    BY <1>3 DEF Decodes, IsObject
  <2>2. when \in DateTimes
    <3>1. ZeroWhen \in DateTimes
      BY DEF ZeroWhen, DT, DateTimes
    <3>2. ASSUME m.when # Absent PROVE Scanned(m.when.fields) \in DateTimes
      <4> DEFINE f == m.when.fields
                 dt == Scanned(f)
      <4>1. Valid(dt)
        BY <2>1, <3>2 DEF ScansDT
      <4>2. dt = DT(dt.year, dt.month, dt.day, dt.hour, dt.minute, dt.second)
        BY DEF Scanned, DT
      <4> HIDE DEF dt
      <4>3. /\ dt.year \in Int /\ dt.month \in Int /\ dt.day \in Int
            /\ dt.hour \in Int /\ dt.minute \in Int /\ dt.second \in Int
        <5>1. /\ dt.year \in 1 .. 9999 /\ dt.month \in 1 .. 12 /\ dt.day \in 1 .. 31
              /\ dt.hour \in 0 .. 23 /\ dt.minute \in 0 .. 59 /\ dt.second \in 0 .. 59
          BY <4>1, ValidFields
        <5> DEFINE a == dt.year
                   b == dt.month
                   c == dt.day
                   d == dt.hour
                   e == dt.minute
                   g == dt.second
        <5>2. /\ a \in 1 .. 9999 /\ b \in 1 .. 12 /\ c \in 1 .. 31
              /\ d \in 0 .. 23 /\ e \in 0 .. 59 /\ g \in 0 .. 59
          BY <5>1
        <5> HIDE DEF a, b, c, d, e, g
        <5>3. a \in Int /\ b \in Int /\ c \in Int /\ d \in Int /\ e \in Int /\ g \in Int
          BY <5>2
        <5>4. QED
          BY <5>3 DEF a, b, c, d, e, g
      <4>4. dt \in DateTimes
        BY <4>2, <4>3 DEF DT, DateTimes
      <4>5. QED
        BY <4>4 DEF dt
    <3>3. QED
      BY <3>1, <3>2
  <2>3. t = AbsoluteTrigger(when)
    BY <1>3, KindsDecoded
  <2> HIDE DEF when
  <2>4. t.kind = "AbsoluteTrigger" /\ t.when = when
    BY <2>3, Fields
  <2>5. QED
    BY <2>2, <2>3, <2>4 DEF Typed
<1>4. CASE IsObject(m) /\ KindOf(m) = "OffsetTrigger"
  <2> DEFINE offset == IF m.offset \in {Absent, Null} THEN ZeroOffset ELSE ParseSigned(m.offset)
             anchor == IF m.relativeTo \in {Absent, Null} THEN "" ELSE m.relativeTo
  <2>1. /\ m.relativeTo # NotText /\ m.offset # NotText
        /\ m.offset \notin {Absent, Null} => Parses(m.offset)
    BY <1>4 DEF Decodes, IsObject
  <2>2. anchor \notin {Absent, Null, NotText}
    <3>1. "" \notin {Absent, Null, NotText}
      BY Constants
    <3>2. QED
      BY <2>1, <3>1
  <2>3. Measured(offset)
    <3>1. CASE m.offset \in {Absent, Null}
      <4>1. offset = ZeroOffset
        BY <3>1
      <4>2. Measured(ZeroOffset)
        <5>1. ZeroDuration \in Durations /\ ZeroDuration.nanos < 10 ^ NanoDigits
          <6> DEFINE p == 10 ^ NanoDigits
                     q == 10 ^ (NanoDigits + 1)
          <6>1. p \in Nat \ {0} /\ q \in Nat \ {0}
            <7>1. NanoDigits \in 0 .. NanoDigits + 1 /\ NanoDigits + 1 \in 0 .. NanoDigits + 1
              BY DurationAssumption
            <7>2. QED
              BY <7>1, Powers
          <6> HIDE DEF p, q
          <6>2. 0 < p /\ 0 \in 0 .. q - 1 /\ 0 \in Uint
            BY <6>1, DurationAssumption DEF Uint
          <6>3. QED
            BY <6>2 DEF ZeroDuration, Durations, p, q
        <5>2. Legal(ZeroDuration)
          BY <5>1 DEF Legal, ZeroDuration
        <5>3. Span(ZeroDuration).seconds \in Uint
          BY DurationAssumption DEF Span, ZeroDuration, Uint
        <5>4. QED
          BY <5>1, <5>2, <5>3 DEF Measured, ZeroOffset
      <4>3. QED
        BY <4>1, <4>2
    <3>2. CASE m.offset \notin {Absent, Null}
      <4> DEFINE d == Parse(m.offset)
      <4>1. Parses(m.offset) /\ Spelled(m.offset.time) /\ m.offset.minus \in BOOLEAN
        BY <1>4, <2>1, <3>2 DEF WellSpelled, IsText
      <4>2. d \in Durations /\ TotalFits(d) /\ WeeksAlone(d) /\ d.nanos < 10 ^ NanoDigits
        BY <4>1, ParsedFits
      <4> HIDE DEF d
      <4>3. Legal(d)
        BY <4>2 DEF Legal, WeeksAlone
      <4>4. Span(d).seconds \in Uint
        <5>1. /\ d.hours \in Nat /\ d.minutes \in Nat /\ d.seconds \in Nat
              /\ TotalSeconds(d) <= MaxUint
          BY <4>2, DurationAssumption DEF Durations, Uint, TotalFits
        <5>2. Span(d).seconds = TotalSeconds(d)
          BY DEF Span, TotalSeconds
        <5>3. TotalSeconds(d) \in Nat
          BY <5>1 DEF TotalSeconds
        <5>4. QED
          BY <5>1, <5>2, <5>3, DurationAssumption DEF Uint
      <4>5. offset = [negative |-> m.offset.minus, span |-> d]
        BY <3>2 DEF ParseSigned, d
      <4> HIDE DEF offset
      <4>6. offset.span = d /\ offset \in [negative : BOOLEAN, span : Durations]
        BY <4>1, <4>2, <4>5
      <4>7. QED
        BY <4>3, <4>4, <4>6 DEF Measured
    <3>3. QED
      BY <3>1, <3>2
  <2>4. t = OffsetTrigger(offset, anchor)
    BY <1>4, KindsDecoded
  <2> HIDE DEF offset, anchor
  <2>5. t.kind = "OffsetTrigger" /\ t.offset = offset /\ t.relativeTo = anchor
    BY <2>4, Fields
  <2>6. QED
    BY <2>2, <2>3, <2>4, <2>5 DEF Typed, Measured
<1>5. QED
  BY <1>1, <1>2, <1>3, <1>4, KindsDecoded

(***************************************************************************)
(* A trigger that was encoded is read back.                                *)
(***************************************************************************)
Reread(t, m) ==
  /\ Decodes(m)
  /\ Encodes(Decoded(m)) /\ Encoded(Decoded(m)) = m
  /\ IF t.kind = "OffsetTrigger"
     THEN /\ Decoded(m).relativeTo = t.relativeTo
          /\ Span(Decoded(m).offset.span) = Span(t.offset.span)
     ELSE Decoded(m) = t

LEMMA AbsentReread ==
  ASSUME NEW t, t = None, NEW m, m = Encoded(t)
  PROVE  Reread(t, m)
<1>1. t.kind = "none" /\ m = Absent
  BY Fields, KindsEncoded
<1>2. Decoded(m) = t
  BY <1>1, KindsDecoded DEF IsObject
<1>3. Decodes(m)
  BY <1>1 DEF Decodes
<1>4. QED
  BY <1>1, <1>2, <1>3 DEF Reread, Encodes

LEMMA RawReread ==
  ASSUME NEW t, t.kind = "raw", t = Raw(t.bytes), NEW m, m = Encoded(t),
         IsObject(t.bytes), KindOf(t.bytes) = "raw", t.bytes.type # NotText
  PROVE  Reread(t, m)
<1>1. m = t.bytes
  BY KindsEncoded
<1>2. Decoded(m) = t
  BY <1>1, KindsDecoded
<1>3. Decodes(m)
  BY <1>1 DEF Decodes
<1>4. QED
  BY <1>2, <1>3 DEF Reread, Encodes

LEMMA AbsoluteReread ==
  ASSUME NoRecords, NEW t, t.kind = "AbsoluteTrigger", t = AbsoluteTrigger(t.when),
         t.when \in DateTimes, Valid(t.when), NEW m, m = Encoded(t)
  PROVE  Reread(t, m)
<1> DEFINE text == AppendText(t.when, TRUE)
           none == {}
<1>1. m = Object("AbsoluteTrigger", Absent, Absent, text, none)
  BY KindsEncoded
<1>2. text \notin {Absent, Null, NotText}
  <2>1. \E a, b, c : text = DTText(a, b, c)
    <3> DEFINE fields == <<t.when.year % 10000, t.when.month % 100, t.when.day % 100,
                           t.when.hour % 100, t.when.minute % 100, t.when.second % 100>>
    <3>1. text = DTText(fields, TRUE, TRUE)
      BY DEF AppendText
    <3> HIDE DEF fields, text
    <3>2. QED
      BY <3>1
  <2> HIDE DEF text
  <2>2. QED
    BY <2>1, Apart, Zenon
<1>3. ScansDT(text, TRUE) /\ Scanned(text.fields) = t.when
  BY WhenRead
<1> HIDE DEF text, none
<1>4. IsObject(m) /\ m.type = "AbsoluteTrigger" /\ m.when = text
  <2>1. IsObject(m)
    BY <1>1, Apart, Zenon
  <2>2. QED
    BY <1>1, <2>1, ObjectFields
<1>5. KindOf(m) = "AbsoluteTrigger"
  BY <1>4 DEF KindOf
<1>6. Decodes(m)
  <2>1. m.type # NotText
    BY <1>4, Constants
  <2>2. QED
    BY <1>2, <1>3, <1>4, <1>5, <2>1 DEF Decodes
<1>7. Decoded(m) = t
  <2>1. Decoded(m) = AbsoluteTrigger(IF m.when = Absent THEN ZeroWhen ELSE Scanned(m.when.fields))
    BY <1>4, <1>5, KindsDecoded
  <2>2. (IF m.when = Absent THEN ZeroWhen ELSE Scanned(m.when.fields)) = t.when
    BY <1>2, <1>3, <1>4
  <2>3. QED
    BY <2>1, <2>2, Zenon
<1>8. QED
  BY <1>6, <1>7 DEF Reread, Encodes

LEMMA OffsetReread ==
  ASSUME NoRecords, NEW t, t.kind = "OffsetTrigger", Measured(t.offset),
         t.relativeTo \notin {Absent, Null, NotText}, NEW m, m = Encoded(t)
  PROVE  Reread(t, m)
<1> DEFINE text == FormatSigned(t.offset)
           anchor == IF t.relativeTo = "" THEN Absent ELSE t.relativeTo
           none == {}
<1>1. m = Object("OffsetTrigger", text, anchor, Absent, none)
  BY KindsEncoded
<1>2. text \notin {Absent, Null, NotText}
  <2>1. \E a, b, c, d, e : text = Text(a, b, c, d, e)
    BY Signed
  <2> HIDE DEF text
  <2>2. QED
    BY <2>1, Apart, Zenon
<1>3. /\ Parses(text) /\ Span(ParseSigned(text).span) = Span(t.offset.span)
      /\ FormatSigned(ParseSigned(text)) = text
  BY OffsetRead
<1>4. anchor # NotText /\ (IF anchor \in {Absent, Null} THEN "" ELSE anchor) = t.relativeTo
  <2>1. Absent # NotText
    BY Constants
  <2>2. QED
    BY <2>1
<1>5. (IF t.relativeTo = "" THEN Absent ELSE t.relativeTo) = anchor
  OBVIOUS
<1> HIDE DEF text, anchor, none
<1>6. /\ IsObject(m) /\ m.type = "OffsetTrigger" /\ m.offset = text
      /\ m.relativeTo = anchor
  <2>1. IsObject(m)
    BY <1>1, Apart, Zenon
  <2>2. QED
    BY <1>1, <2>1, ObjectFields
<1>7. KindOf(m) = "OffsetTrigger"
  BY <1>6 DEF KindOf
<1>8. Decodes(m)
  <2>1. m.type # NotText
    BY <1>6, Constants
  <2>2. QED
    BY <1>2, <1>3, <1>4, <1>6, <1>7, <2>1 DEF Decodes
<1> DEFINE u == Decoded(m)
<1>9. u = OffsetTrigger(ParseSigned(text), t.relativeTo)
  <2>1. u = OffsetTrigger(
              IF m.offset \in {Absent, Null} THEN ZeroOffset ELSE ParseSigned(m.offset),
              IF m.relativeTo \in {Absent, Null} THEN "" ELSE m.relativeTo)
    BY <1>6, <1>7, KindsDecoded
  <2>2. (IF m.offset \in {Absent, Null} THEN ZeroOffset ELSE ParseSigned(m.offset))
          = ParseSigned(text)
    BY <1>2, <1>6
  <2>3. (IF m.relativeTo \in {Absent, Null} THEN "" ELSE m.relativeTo) = t.relativeTo
    BY <1>4, <1>6
  <2>4. QED
    BY <2>1, <2>2, <2>3, Zenon
<1> HIDE DEF u
<1>10. /\ u.kind = "OffsetTrigger" /\ u.offset = ParseSigned(text)
       /\ u.relativeTo = t.relativeTo
  BY <1>9, Fields
<1>11. Encoded(u) = m
  <2>1. Encoded(u) = Object("OffsetTrigger", FormatSigned(u.offset),
                            IF u.relativeTo = "" THEN Absent ELSE u.relativeTo, Absent, {})
    BY <1>10, KindsEncoded
  <2>2. FormatSigned(u.offset) = text
    BY <1>3, <1>10
  <2>3. (IF u.relativeTo = "" THEN Absent ELSE u.relativeTo) = anchor
    BY <1>5, <1>10
  <2>4. Encoded(u) = Object("OffsetTrigger", text, anchor, Absent, none)
    BY <2>1, <2>2, <2>3, Zenon DEF none
  <2>5. QED
    BY <1>1, <2>4
<1>12. Encodes(u)
  BY <1>10 DEF Encodes
<1>13. Span(u.offset.span) = Span(t.offset.span)
  BY <1>3, <1>10
<1>14. QED
  BY <1>8, <1>10, <1>11, <1>12, <1>13 DEF Reread, u

-----------------------------------------------------------------------------
LEMMA InitCoherent ==
  ASSUME NoRecords, Init
  PROVE  Coherent
<1>1. Typed(trigger)
  BY DEF Init, Typed
<1>2. DecodedFits
  BY DEF Init, DecodedFits
<1>3. sent = Null /\ member \in Members /\ source = Null
  BY Constants DEF Init
<1>4. QED
  BY <1>1, <1>2, <1>3 DEF Coherent

LEMMA NextCoherent ==
  ASSUME NoRecords, Coherent, [Next]_vars
  PROVE  Coherent'
<1>1. CASE Receive
  <2>1. member' \in Members /\ sent' = Null /\ trigger' = trigger /\ source' = source
    BY <1>1 DEF Receive
  <2>2. DecodedFits'
    BY <2>1 DEF Coherent, DecodedFits
  <2>3. QED
    BY <2>1, <2>2 DEF Coherent
<1>2. CASE Unmarshal
  <2>1. member' = member /\ sent' = sent
    BY <1>2 DEF Unmarshal
  <2>2. CASE ~Decodes(member)
    <3>1. trigger' = trigger /\ source' = source
      BY <1>2, <2>2 DEF Unmarshal
    <3>2. DecodedFits'
      BY <3>1 DEF Coherent, DecodedFits
    <3>3. QED
      BY <2>1, <3>1, <3>2 DEF Coherent
  <2>3. CASE Decodes(member)
    <3>1. trigger' = Decoded(member) /\ source' = member
      BY <1>2, <2>3 DEF Unmarshal
    <3>2. WellSpelled(member)
      BY MembersSpelled, EncodedSpelled DEF Coherent
    <3>3. Typed(trigger') /\ (trigger'.kind = "OffsetTrigger" => Measured(trigger'.offset))
      BY <2>3, <3>1, <3>2, DecodedTyped
    <3>4. DecodedFits'
      BY <3>3 DEF DecodedFits, Measured
    <3>5. QED
      BY <2>1, <2>3, <3>1, <3>2, <3>3, <3>4 DEF Coherent
  <2>4. QED
    BY <2>2, <2>3
<1>3. CASE Set
  <2>1. member' = member /\ sent' = sent /\ source' = Null
    BY <1>3 DEF Set
  <2>2. Typed(trigger')
    <3>1. CASE trigger' = None
      BY <3>1 DEF Typed
    <3>2. CASE \E offset \in Offsets, anchor \in Anchors : trigger' = OffsetTrigger(offset, anchor)
      <4>1. PICK offset \in Offsets, anchor \in Anchors : trigger' = OffsetTrigger(offset, anchor)
        BY <3>2
      <4>2. /\ offset \in [negative : BOOLEAN, span : Durations]
            /\ anchor \notin {Absent, Null, NotText}
        BY Constants
      <4>3. /\ trigger'.kind = "OffsetTrigger" /\ trigger'.offset = offset
            /\ trigger'.relativeTo = anchor
        BY <4>1, Fields
      <4>4. QED
        BY <4>1, <4>2, <4>3 DEF Typed
    <3>3. CASE \E when \in DateTimes : trigger' = AbsoluteTrigger(when)
      <4>1. PICK when \in DateTimes : trigger' = AbsoluteTrigger(when)
        BY <3>3
      <4>2. trigger'.kind = "AbsoluteTrigger" /\ trigger'.when = when
        BY <4>1, Fields
      <4>3. QED
        BY <4>1, <4>2 DEF Typed
    <3>4. \A t \in Instants : FromTime(t) \in DateTimes
      <4> SUFFICES ASSUME NEW t \in Instants PROVE FromTime(t) \in DateTimes
        OBVIOUS
      <4>1. IsInstant(t)
        BY Constants
      <4>2. QED
        BY <4>1, FromTimeSpec
    <3>5. Whens \subseteq DateTimes
      BY Constants
    <3>6. QED
      BY <1>3, <3>1, <3>2, <3>3, <3>4, <3>5 DEF Set
  <2>3. DecodedFits'
    BY <2>1 DEF DecodedFits
  <2>4. QED
    BY <2>1, <2>2, <2>3 DEF Coherent
<1>4. CASE Marshal
  <2>1. trigger' = trigger /\ source' = source
    BY <1>4 DEF Marshal
  <2>2. DecodedFits'
    BY <2>1 DEF Coherent, DecodedFits
  <2>3. CASE ~Encodes(trigger)
    <3>1. member' = member /\ sent' = sent
      BY <1>4, <2>3 DEF Marshal
    <3>2. QED
      BY <2>1, <2>2, <3>1 DEF Coherent
  <2>4. CASE Encodes(trigger)
    <3>1. member' = Encoded(trigger) /\ sent' = trigger
      BY <1>4, <2>4 DEF Marshal
    <3>2. Typed(trigger) /\ trigger # Null
      BY Apart DEF Coherent
    <3>3. QED
      BY <2>1, <2>2, <2>4, <3>1, <3>2 DEF Coherent
  <2>5. QED
    BY <2>3, <2>4
<1>5. CASE UNCHANGED vars
  BY <1>5 DEF vars, Coherent, DecodedFits
<1>6. QED
  BY <1>1, <1>2, <1>3, <1>4, <1>5 DEF Next

(***************************************************************************)
(* Coherent is an invariant of the decoding and encoding of triggers.      *)
(***************************************************************************)
THEOREM CoherentAlways ==
  ASSUME NoRecords
  PROVE  Spec => []Coherent
<1>1. Init => Coherent
  BY InitCoherent
<1>2. Coherent /\ [Next]_vars => Coherent'
  BY NextCoherent
<1>3. QED
  BY <1>1, <1>2, PTL DEF Spec

-----------------------------------------------------------------------------
(***************************************************************************)
(* Whatever the members of a peer, a decoded offset holds no number that   *)
(* overflows, no time part that cannot be normalized, and nothing beside   *)
(* its weeks.                                                              *)
(***************************************************************************)
THEOREM OffsetsFit ==
  ASSUME NoRecords
  PROVE  Spec => []DecodedFits
<1>1. Coherent => DecodedFits
  BY DEF Coherent
<1>2. QED
  BY <1>1, CoherentAlways, PTL

(***************************************************************************)
(* A trigger that MarshalJSON encoded is decoded to one that stands for    *)
(* the same and is encoded to the same bytes.                              *)
(***************************************************************************)
THEOREM TriggersRoundTrip ==
  ASSUME NoRecords
  PROVE  Spec => []RoundTrips
<1>1. Coherent => RoundTrips
  <2> SUFFICES ASSUME Coherent, sent # Null,
                      sent.kind = "OffsetTrigger" =>
                        Legal(sent.offset.span) /\ Span(sent.offset.span).seconds \in Uint
               PROVE  Reread(sent, member)
    BY DEF RoundTrips, Reread
  <2>1. Typed(sent) /\ Encodes(sent) /\ member = Encoded(sent)
    BY DEF Coherent
  <2>2. CASE sent = None
    BY <2>1, <2>2, AbsentReread
  <2>3. CASE /\ sent.kind = "OffsetTrigger"
             /\ sent.offset \in [negative : BOOLEAN, span : Durations]
             /\ sent.relativeTo \notin {Absent, Null, NotText}
    <3>1. Measured(sent.offset)
      BY <2>3 DEF Measured
    <3>2. QED
      BY <2>1, <2>3, <3>1, OffsetReread
  <2>4. CASE /\ sent.kind = "AbsoluteTrigger" /\ sent = AbsoluteTrigger(sent.when)
             /\ sent.when \in DateTimes
    BY <2>1, <2>4, AbsoluteReread DEF Encodes
  <2>5. CASE /\ sent.kind = "raw" /\ sent = Raw(sent.bytes)
             /\ IsObject(sent.bytes) /\ KindOf(sent.bytes) = "raw" /\ sent.bytes.type # NotText
    BY <2>1, <2>5, RawReread
  <2>6. QED
    BY <2>1, <2>2, <2>3, <2>4, <2>5 DEF Typed
<1>2. QED
  BY <1>1, CoherentAlways, PTL

(***************************************************************************)
(* MarshalJSON emits exactly the date-times that an instant shows: those   *)
(* of the years 1 to 9999 that Time and back again leaves as they are.     *)
(***************************************************************************)
THEOREM InstantsReal ==
  ASSUME NoRecords
  PROVE  Spec => []RealInstant
<1>1. Coherent => RealInstant
  <2> SUFFICES ASSUME Coherent, trigger.kind = "AbsoluteTrigger"
               PROVE  Encodes(trigger) <=> Shown(trigger.when)
    BY DEF RealInstant
  <2>1. trigger.when \in DateTimes
    BY Fields DEF Coherent, Typed
  <2>2. Encodes(trigger) <=> Valid(trigger.when)
    BY DEF Encodes
  <2>3. QED
    BY <2>1, <2>2, ValidIsShown
<1>2. QED
  BY <1>1, CoherentAlways, PTL

(***************************************************************************)
(* Decode and encode keep the kind of a trigger, and every byte of one     *)
(* whose kind the library does not know.                                   *)
(***************************************************************************)
THEOREM KindKept ==
  ASSUME NoRecords
  PROVE  Spec => []KeepsKind
<1>1. Coherent => KeepsKind
  <2> SUFFICES ASSUME Coherent, source # Null, sent = trigger
               PROVE  \/ source \in {Absent, Null} /\ member = Absent
                      \/ /\ IsObject(source) /\ IsObject(member)
                         /\ member.type = source.type
                         /\ source.type \notin {"OffsetTrigger", "AbsoluteTrigger"} =>
                              member = source
    BY DEF KeepsKind
  <2>1. sent # Null
    BY Apart DEF Coherent
  <2>2. Decodes(source) /\ trigger = Decoded(source) /\ member = Encoded(trigger)
    BY <2>1 DEF Coherent
  <2>3. CASE ~IsObject(source)
    <3>1. source \in {Absent, Null}
      BY <2>2, <2>3, Zenon DEF Decodes
    <3>2. member = Absent
      <4>1. trigger = None
        BY <2>2, <2>3, KindsDecoded
      <4>2. trigger.kind = "none"
        BY <4>1, Fields
      <4>3. QED
        BY <2>2, <4>2, KindsEncoded
    <3>3. QED
      BY <3>1, <3>2
  <2>4. CASE IsObject(source) /\ KindOf(source) = "raw"
    <3>1. member = source
      <4>1. trigger = Raw(source)
        BY <2>2, <2>4, KindsDecoded
      <4>2. trigger.kind = "raw" /\ trigger.bytes = source
        BY <4>1, Fields
      <4>3. QED
        BY <2>2, <4>2, KindsEncoded
    <3>2. QED
      BY <2>4, <3>1
  <2>5. CASE IsObject(source) /\ KindOf(source) = "OffsetTrigger"
    <3>1. trigger.kind = "OffsetTrigger"
      BY <2>2, <2>5, KindsKept
    <3> DEFINE text == FormatSigned(trigger.offset)
               anchor == IF trigger.relativeTo = "" THEN Absent ELSE trigger.relativeTo
               none == {}
    <3>2. member = Object("OffsetTrigger", text, anchor, Absent, none)
      BY <2>2, <3>1, KindsEncoded
    <3> HIDE DEF text, anchor, none
    <3>3. IsObject(member) /\ member.type = "OffsetTrigger"
      <4>1. IsObject(member)
        BY <3>2, Apart, Zenon
      <4>2. QED
        BY <3>2, <4>1, ObjectFields
    <3>4. source.type = "OffsetTrigger"
      BY <2>5 DEF KindOf
    <3>5. QED
      BY <2>5, <3>3, <3>4
  <2>6. CASE IsObject(source) /\ KindOf(source) = "AbsoluteTrigger"
    <3>1. trigger.kind = "AbsoluteTrigger"
      BY <2>2, <2>6, KindsKept
    <3> DEFINE text == AppendText(trigger.when, TRUE)
               none == {}
    <3>2. member = Object("AbsoluteTrigger", Absent, Absent, text, none)
      BY <2>2, <3>1, KindsEncoded
    <3> HIDE DEF text, none
    <3>3. IsObject(member) /\ member.type = "AbsoluteTrigger"
      <4>1. IsObject(member)
        BY <3>2, Apart, Zenon
      <4>2. QED
        BY <3>2, <4>1, ObjectFields
    <3>4. source.type = "AbsoluteTrigger"
      BY <2>6 DEF KindOf
    <3>5. QED
      BY <2>6, <3>3, <3>4
  <2>7. QED
    BY <2>3, <2>4, <2>5, <2>6, KindsDecoded
<1>2. QED
  BY <1>1, CoherentAlways, PTL

(***************************************************************************)
(* A decoded offset stands for the span of the text it was decoded from,   *)
(* and an encoded one for the span of the text that was produced, whatever *)
(* the numbers: neither the formatter nor the parser misreports magnitude. *)
(***************************************************************************)
THEOREM SpansKept ==
  ASSUME NoRecords
  PROVE  Spec => []SameSpan
<1>1. ASSUME Coherent, source # Null, IsObject(source), trigger.kind = "OffsetTrigger",
             source.offset \notin {Absent, Null}
      PROVE  SameSpanAs(source.offset, trigger.offset)
  <2> DEFINE text == source.offset
  <2>1. Decodes(source) /\ trigger = Decoded(source) /\ WellSpelled(source)
    BY <1>1 DEF Coherent
  <2>2. KindOf(source) = "OffsetTrigger"
    BY <1>1, <2>1, KindsKept
  <2>3. text # NotText /\ Parses(text)
    BY <1>1, <2>1, <2>2 DEF Decodes, IsObject
  <2>4. text.minus \in BOOLEAN /\ IsText(text)
    BY <1>1, <2>1, <2>2, <2>3 DEF WellSpelled
  <2>5. trigger.offset = ParseSigned(text)
    <3> DEFINE offset == IF source.offset \in {Absent, Null} THEN ZeroOffset ELSE ParseSigned(text)
               anchor == IF source.relativeTo \in {Absent, Null} THEN "" ELSE source.relativeTo
    <3>1. trigger = OffsetTrigger(offset, anchor)
      BY <1>1, <2>1, <2>2, KindsDecoded
    <3>2. offset = ParseSigned(text)
      BY <1>1
    <3> HIDE DEF offset, anchor
    <3>3. QED
      BY <3>1, <3>2, Fields
  <2> HIDE DEF text
  <2>6. trigger.offset.negative = text.minus /\ trigger.offset.span = Parse(text)
    BY <2>5 DEF ParseSigned
  <2>7. TextSpan(text) = Span(Parse(text))
    BY <2>3, <2>4, ParsedSpan
  <2>8. QED
    BY <2>6, <2>7, Zenon DEF SameSpanAs, text
<1>2. ASSUME Coherent, sent # Null, sent.kind = "OffsetTrigger", Legal(sent.offset.span)
      PROVE  SameSpanAs(member.offset, sent.offset)
  <2> DEFINE o == sent.offset
             d == o.span
             text == FormatSigned(o)
  <2>1. Typed(sent) /\ member = Encoded(sent)
    BY <1>2 DEF Coherent
  <2>2. d \in Durations
    <3>1. o \in [negative : BOOLEAN, span : Durations]
      BY <1>2, <2>1, Fields DEF Typed
    <3>2. QED
      BY <3>1
  <2>3. member.offset = text
    <3> DEFINE anchor == IF sent.relativeTo = "" THEN Absent ELSE sent.relativeTo
               none == {}
    <3>1. member = Object("OffsetTrigger", text, anchor, Absent, none)
      BY <1>2, <2>1, KindsEncoded
    <3> HIDE DEF text, anchor, none
    <3>2. QED
      BY <3>1, ObjectFields
  <2>4. /\ text.minus = (o.negative /\ ~IsZero(d))
        /\ text.date = Format(d).date /\ text.time = Format(d).time
    BY Signed
  <2> HIDE DEF text
  <2>5. TextSpan(text) = TextSpan(Format(d))
    <3> DEFINE f == Format(d)
               nanos == Total([i \in 1 .. Len(text.time) |-> TextNanos(text.time[i])])
    <3>1. text.date = f.date /\ text.time = f.time
      BY <2>4
    <3> HIDE DEF f
    <3>2. nanos = Total([i \in 1 .. Len(f.time) |-> TextNanos(f.time[i])])
      <4>1. [i \in 1 .. Len(text.time) |-> TextNanos(text.time[i])]
              = [i \in 1 .. Len(f.time) |-> TextNanos(f.time[i])]
        BY <3>1
      <4>2. QED
        BY <4>1, Zenon
    <3>3. \A unit : /\ Amount(text.date, unit) = Amount(f.date, unit)
                    /\ Amount(text.time, unit) = Amount(f.time, unit)
      BY <3>1, Zenon
    <3>4. /\ TextSpan(text).nanos = nanos /\ TextSpan(f).nanos = nanos
          /\ TextSpan(text).months = TextSpan(f).months /\ TextSpan(text).days = TextSpan(f).days
          /\ TextSpan(text).seconds = TextSpan(f).seconds
      <4> HIDE DEF nanos
      <4>1. /\ TextSpan(text).nanos = nanos /\ TextSpan(f).nanos = nanos
        BY <3>2 DEF TextSpan, nanos
      <4>2. QED
        BY <3>3, <4>1 DEF TextSpan
    <3>5. \A t : TextSpan(t) = [months |-> TextSpan(t).months, days |-> TextSpan(t).days,
                                seconds |-> TextSpan(t).seconds, nanos |-> TextSpan(t).nanos]
      BY DEF TextSpan
    <3> HIDE DEF nanos
    <3>6. TextSpan(text) = TextSpan(f)
      BY <3>4, <3>5
    <3>7. QED
      BY <3>6 DEF f
  <2>6. TextSpan(Format(d)) = Span(d)
    BY <1>2, <2>2, FormattedSpan
  <2>7. IsZero(d) => IsEmpty(Span(d))
    BY DEF IsZero, ZeroDuration, IsEmpty, Span
  <2>8. o.negative \in BOOLEAN
    BY <1>2, <2>1, Fields DEF Typed
  <2> HIDE DEF o, d
  <2>9. ~IsEmpty(Span(d)) => text.minus = o.negative
    <3>1. IsZero(d) \in BOOLEAN
      BY Zenon DEF IsZero
    <3>2. ~IsZero(d) => (o.negative /\ ~IsZero(d)) = o.negative
      BY <2>8, <3>1
    <3>3. QED
      BY <2>4, <2>7, <3>2, Zenon
  <2>10. TextSpan(text) = Span(o.span) /\ d = o.span
    BY <2>5, <2>6, Zenon DEF d
  <2>11. SameSpanAs(text, o)
    BY <2>9, <2>10, Zenon DEF SameSpanAs
  <2>12. QED
    BY <2>3, <2>11, Zenon DEF o
<1>3. Coherent => SameSpan
  BY <1>1, <1>2 DEF SameSpan
<1>4. QED
  BY <1>3, CoherentAlways, PTL

=============================================================================
