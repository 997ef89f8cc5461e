------------------------------- MODULE Field -------------------------------
(***************************************************************************)
(* The limb arithmetic of src/fe.c.  An element is ten signed limbs, of    *)
(* alternating size: limb i counts multiples of Weight(i), and Weight(10)  *)
(* is Modulus + 19, so what leaves limb 9 comes back into limb 0 nineteen- *)
(* fold.  The number of limbs, the factors 2 and 19, the signed carries    *)
(* and their order are the code's; the two sizes are constants (2^26 and   *)
(* 2^25 in the code), because TLC computes with 32-bit integers.           *)
(* A packed element is the integer that its bytes spell, lowest first.     *)
(***************************************************************************)
EXTENDS Integers

CONSTANTS
  EvenRadix,  \* size of limbs 0, 2, 4, 6, 8 (2^26 in the code): even, not 0
  OddRadix,   \* size of limbs 1, 3, 5, 7, 9 (2^25 in the code): even, not 0
  ChunkAt,    \* where fe_frombytes cuts the bytes, as powers of 2, and the end
  SmallFactor \* the factor of fe_mul121666

Limb == 0 .. 9

Radix(i) == IF i % 2 = 0 THEN EvenRadix ELSE OddRadix

Weight(i) == (EvenRadix * OddRadix)^(i \div 2) * (IF i % 2 = 0 THEN 1 ELSE EvenRadix)

Modulus == Weight(10) - 19

\* The integer that ten limbs stand for.
Value(h) == h[0] + h[1] * Weight(1) + h[2] * Weight(2) + h[3] * Weight(3)
          + h[4] * Weight(4) + h[5] * Weight(5) + h[6] * Weight(6)
          + h[7] * Weight(7) + h[8] * Weight(8) + h[9] * Weight(9)

-----------------------------------------------------------------------------
(* Without carries. *)

Single(n) == [i \in Limb |-> IF i = 0 THEN n ELSE 0]

fe_0 == Single(0)

fe_1 == Single(1)

fe_add(f, g) == [i \in Limb |-> f[i] + g[i]]

fe_sub(f, g) == [i \in Limb |-> f[i] - g[i]]

fe_neg(f) == [i \in Limb |-> -f[i]]

\* The code masks with -b; b is 0 or 1.
fe_cmov(f, g, b) == IF b = 1 THEN g ELSE f

fe_cswap(f, g, b) == <<fe_cmov(f, g, b), fe_cmov(g, f, b)>>

-----------------------------------------------------------------------------
(* Signed carries: a limb is left within half its radix on both sides. *)

Rounded(h, i) == (h[i] + Radix(i) \div 2) \div Radix(i)

\* The carry out of limb i; out of limb 9 it goes into limb 0, nineteen-fold.
Carry(h, i) ==
  LET c == Rounded(h, i)
  IN [h EXCEPT ![i] = @ - c * Radix(i),
               ![(i + 1) % 10] = @ + c * (IF i = 9 THEN 19 ELSE 1)]

Carry2(h, i, j) == Carry(Carry(h, i), j)

\* The twelve carries after a product.
CarryProduct(h) ==
  LET front == Carry2(Carry2(Carry2(h, 0, 4), 1, 5), 2, 6)
  IN Carry2(Carry2(Carry2(front, 3, 7), 4, 8), 9, 0)

\* The ten carries after limbs that are not much too large.
CarryOnce(h) ==
  LET odd == Carry(Carry2(Carry2(h, 9, 1), 3, 5), 7)
  IN Carry(Carry2(Carry2(odd, 0, 2), 4, 6), 8)

-----------------------------------------------------------------------------
(* Products. *)

\* Mutant of Scale: two odd limbs count once.
Scale_once(i, j) == IF i + j >= 10 THEN 19 ELSE 1

\* Limb i times limb j lands in limb (i + j) % 10, twice if both are odd
\* (their weights are rounded up) and nineteen-fold if it wraps.
Scale(i, j) == (IF i % 2 = 1 /\ j % 2 = 1 THEN 2 ELSE 1) * (IF i + j >= 10 THEN 19 ELSE 1)

Total(t(_)) == t(0) + t(1) + t(2) + t(3) + t(4) + t(5) + t(6) + t(7) + t(8) + t(9)

Product(f, g) ==
  [k \in Limb |->
     LET Term(i) == LET j == (k + 10 - i) % 10 IN Scale(i, j) * f[i] * g[j]
     IN Total(Term)]

fe_mul(f, g) == CarryProduct(Product(f, g))

\* Every product of two different limbs is computed once and doubled.
Square(f) ==
  [k \in Limb |->
     LET Term(i) == LET j == (k + 10 - i) % 10
                    IN IF i > j THEN 0
                       ELSE (IF i = j THEN 1 ELSE 2) * Scale(i, j) * f[i] * f[j]
     IN Total(Term)]

fe_sq(f) == CarryProduct(Square(f))

fe_sq2(f) == LET h == Square(f) IN CarryProduct(fe_add(h, h))

fe_mul121666(f) == CarryOnce([i \in Limb |-> f[i] * SmallFactor])

-----------------------------------------------------------------------------
(* Bytes. *)

\* The bytes are cut at whole bytes; a chunk is shifted to its limb's place.
\* The last chunk ends one bit early: the top bit is ignored.
Chunk(s, i) == ((s \div ChunkAt[i]) % (ChunkAt[i + 1] \div ChunkAt[i]))
                 * (ChunkAt[i] \div Weight(i))

fe_frombytes(s) == CarryOnce([i \in Limb |-> Chunk(s, i)])

\* The floor carries from limb to limb, c entering limb 0.
Through(h, c) ==
  LET t[i \in -1 .. 9] == IF i = -1 THEN c ELSE (h[i] + t[i - 1]) \div Radix(i)
  IN t

\* How often Modulus goes into h, as fe_tobytes estimates it.
Quotient(h) == Through(h, (19 * h[9] + OddRadix \div 2) \div OddRadix)[9]

fe_tobytes(h) ==
  LET g == [h EXCEPT ![0] = @ + 19 * Quotient(h)]
      t == Through(g, 0)
  IN Value([i \in Limb |-> (g[i] + t[i - 1]) % Radix(i)])

fe_isnegative(f) == fe_tobytes(f) % 2

fe_isnonzero(f) == fe_tobytes(f) # 0

=============================================================================
