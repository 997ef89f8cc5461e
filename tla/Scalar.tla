------------------------------- MODULE Scalar -------------------------------
(***************************************************************************)
(* The scalar arithmetic of src/sc.c, modulo the order of the base point.  *)
(* A scalar is cut into 24 limbs; the order is Radix^12 minus what the six *)
(* signed digits of Fold stand for, so limb i >= 12 is replaced by itself  *)
(* times these digits, twelve places lower.  The width of a limb and the   *)
(* digits are constants (21 bits and 666643, 470296, 654183, -997805,      *)
(* 136657, -683901 in the code).  A scalar of Half bits is an integer, one *)
(* of twice as many bits a pair <<low half, high half>>.                   *)
(***************************************************************************)
EXTENDS Integers, Sequences, SequencesExt

CONSTANTS
  LimbBits, \* bits of a limb
  Fold,     \* the digits, lowest first
  Half      \* bits of 32 bytes (256)

ASSUME ScalarAssumption ==
  /\ LimbBits \in Nat \ {0} /\ Half \in Nat /\ Half >= 12 * LimbBits
  /\ Len(Fold) = 6

Place == 0 .. 23

SRadix == 2^LimbBits

\* The digits' value, by Horner's rule; the order of the base point.
Order ==
  LET digits[j \in 1 .. 7] == IF j = 7 THEN 0 ELSE digits[j + 1] * SRadix + Fold[j]
  IN SRadix^12 - digits[1]

\* What the limbs stand for modulo the order, by Horner's rule.
Residue(s) ==
  LET r[i \in 0 .. 24] == IF i = 24 THEN 0 ELSE (r[i + 1] * SRadix + s[i]) % Order
  IN r[0]

-----------------------------------------------------------------------------
(* Limbs from bytes: the last limb takes all the bits that are left. *)

LoadHalf(a) ==
  [i \in Place |->
     IF i < 11 THEN (a \div 2^(i * LimbBits)) % SRadix
     ELSE IF i = 11 THEN a \div 2^(i * LimbBits) ELSE 0]

\* Bit n of a pair.
PairBit(s, n) == IF n < Half THEN (s[1] \div 2^n) % 2 ELSE (s[2] \div 2^(n - Half)) % 2

\* Limb i of a pair: the bits from the first to the last.
PairBits(s, first, last) ==
  LET v[n \in first .. last + 1] == IF n = last + 1 THEN 0 ELSE PairBit(s, n) + 2 * v[n + 1]
  IN v[first]

LoadPair(s) ==
  [i \in Place |->
     PairBits(s, i * LimbBits, IF i = 23 THEN 2 * Half - 1 ELSE (i + 1) * LimbBits - 1)]

-----------------------------------------------------------------------------
(* The steps of a reduction. *)

\* Limb i goes down by the digits, twelve places lower.
FoldLimb(s, i) ==
  LET low == i - 12
  IN [s EXCEPT ![i] = 0,
               ![low] = @ + s[i] * Fold[1], ![low + 1] = @ + s[i] * Fold[2],
               ![low + 2] = @ + s[i] * Fold[3], ![low + 3] = @ + s[i] * Fold[4],
               ![low + 4] = @ + s[i] * Fold[5], ![low + 5] = @ + s[i] * Fold[6]]

CarryBy(s, i, c) == [s EXCEPT ![i] = @ - c * SRadix, ![i + 1] = @ + c]

\* A carry that leaves a signed limb, and one that leaves a digit.
RoundLimb(s, i) == CarryBy(s, i, (s[i] + SRadix \div 2) \div SRadix)

FloorLimb(s, i) == CarryBy(s, i, s[i] \div SRadix)

\* Step at every place of order, one after the other: FoldLeft, but TLC has
\* each result before it takes the next step.
Each(Step(_, _), s, order) ==
  LET rest[n \in 0 .. Len(order), t \in [Place -> Int]] ==
        IF n = Len(order) THEN t ELSE rest[n + 1, Step(t, order[n + 1])]
  IN rest[0, s]

FoldHigh(s) == Each(FoldLimb, s, <<23, 22, 21, 20, 19, 18>>)

RoundMiddle(s) == Each(RoundLimb, s, <<6, 8, 10, 12, 14, 16, 7, 9, 11, 13, 15>>)

FoldMiddle(s) == Each(FoldLimb, s, <<17, 16, 15, 14, 13, 12>>)

RoundLow(s) == Each(RoundLimb, s, <<0, 2, 4, 6, 8, 10, 1, 3, 5, 7, 9, 11>>)

FloorAll(s) == Each(FloorLimb, s, <<0, 1, 2, 3, 4, 5, 6, 7, 8, 9, 10, 11>>)

FloorLow(s) == Each(FloorLimb, s, <<0, 1, 2, 3, 4, 5, 6, 7, 8, 9, 10>>)

\* Mutant of Reduced: what leaves limb 11 is folded only once.
Reduced_once(s) ==
  FloorLow(FoldLimb(RoundLow(FoldMiddle(RoundMiddle(FoldHigh(s)))), 12))

\* What sc_reduce does after loading and sc_muladd after its first carries.
Reduced(s) ==
  LET folded == FoldLimb(RoundLow(FoldMiddle(RoundMiddle(FoldHigh(s)))), 12)
  IN FloorLow(FoldLimb(FloorAll(folded), 12))

\* The bytes of limbs 0 to 11: the limbs side by side.
Packed(s) ==
  LET v[i \in 0 .. 12] == IF i = 12 THEN 0 ELSE v[i + 1] * SRadix + s[i]
  IN v[0]

sc_reduce(s) == Packed(Reduced(LoadPair(s)))

-----------------------------------------------------------------------------
(* a b + c *)

ProductSum(a, b, c) ==
  LET term(k) == LET t[i \in 0 .. k + 1] == IF i = k + 1 THEN c[k] ELSE a[i] * b[k - i] + t[i + 1]
                 IN t[0]
  IN [k \in Place |-> term(k)]

RoundProduct(s) ==
  Each(RoundLimb, s, <<0, 2, 4, 6, 8, 10, 12, 14, 16, 18, 20, 22,
                           1, 3, 5, 7, 9, 11, 13, 15, 17, 19, 21>>)

sc_muladd(a, b, c) ==
  Packed(Reduced(RoundProduct(ProductSum(LoadHalf(a), LoadHalf(b), LoadHalf(c)))))

=============================================================================
