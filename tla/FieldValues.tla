---------------------------- MODULE FieldValues ----------------------------
(***************************************************************************)
(* What the callers of src/fe.c rely on: an element is its value modulo    *)
(* Prime and a bound on its limbs, in hundredths of 2^25 for limbs 0, 2,   *)
(* .. and of 2^24 for limbs 1, 3, ..  Additions let limbs grow, products   *)
(* shrink them, and a product of limbs that are too large overflows 32     *)
(* bits: there the operations of this module give a bound that is TooLarge *)
(* for every other operation, and encodings that are Torn.                 *)
(* The bounds are the ones at which fe.c's products still fit; Field.tla   *)
(* is the arithmetic on the limbs themselves.                              *)
(***************************************************************************)
EXTENDS Integers, Sequences

CONSTANTS
  Prime,       \* 2^255 - 19 in the code
  OnesChain,   \* the n of z^(2^n - 1), one after the other: <<5, 10, 20, 40, 50, 100, 200, 250>>
  Small        \* 121666 in the code

ASSUME PrimeAssumption == Prime \in Nat /\ Prime > 20 /\ Prime % 8 = 5

ASSUME SmallAssumption == Small \in Nat

\* Member k of the chain is the one before it and an earlier one together.
Gap(k) == OnesChain[k] - OnesChain[k - 1]

Earlier(k) == CHOOSE j \in 1 .. k - 1 : OnesChain[j] = Gap(k)

ASSUME ChainAssumption ==
  /\ OnesChain \in Seq(Nat) /\ OnesChain # <<>> /\ OnesChain[1] = 5
  /\ \A k \in 2 .. Len(OnesChain) :
       Gap(k) > 0 /\ \E j \in 1 .. k - 1 : OnesChain[j] = Gap(k)
  /\ 2^(OnesChain[Len(OnesChain)] + 5) = Prime + 19

Tight == 101     \* what a product leaves
PackLimit == 220 \* what fe_tobytes takes
MulLimit == 330  \* what a factor may have
TooLarge == 100000

\* What fe_tobytes gives for limbs that are too large: no encoding, of a field of
\* any size, for it stays negative with a sign bit added.
Torn == -2 * (Prime + 19)

Element == [val : 0 .. Prime - 1, bound : Nat]

Elem(v, b) == [val |-> v % Prime, bound |-> b]

-----------------------------------------------------------------------------
(* The operations on limbs. *)

Given(v) == Elem(v, 100)

fe_0 == Elem(0, 0)

fe_1 == Elem(1, 1)

fe_add(f, g) == Elem(f.val + g.val, f.bound + g.bound)

fe_sub(f, g) == Elem(f.val - g.val, f.bound + g.bound)

fe_neg(f) == Elem(-f.val, f.bound)

ProductBound(f, g) ==
  IF f.bound <= MulLimit /\ g.bound <= MulLimit THEN Tight ELSE TooLarge

fe_mul(f, g) == Elem(f.val * g.val, ProductBound(f, g))

fe_sq(f) == fe_mul(f, f)

fe_sq2(f) == Elem(2 * fe_sq(f).val, fe_sq(f).bound)

fe_mul121666(f) == Elem(Small * f.val, IF f.bound <= PackLimit THEN 110 ELSE TooLarge)

fe_frombytes(s) == Elem(s % (Prime + 19), Tight)

fe_tobytes(f) == IF f.bound <= PackLimit THEN f.val ELSE Torn

fe_isnegative(f) == IF f.bound <= PackLimit THEN f.val % 2 ELSE Torn

fe_isnonzero(f) == fe_tobytes(f) # 0

-----------------------------------------------------------------------------
(* The two power chains of fe.c, which call nothing but products. *)

\* f squared n times.
Squared(f, n) ==
  LET s[i \in 0 .. n] == [g \in Element |-> IF i = 0 THEN g ELSE s[i - 1][fe_sq(g)]]
  IN s[n][f]

z_9(z) == fe_mul(z, Squared(z, 3))

z_11(z) == fe_mul(fe_sq(z), z_9(z))

\* z^(2^n - 1) for every n of the chain; the last one.
Ones(z) ==
  LET ones[k \in 1 .. Len(OnesChain)] ==
        IF k = 1 THEN fe_mul(z_9(z), fe_sq(z_11(z)))
        ELSE fe_mul(Squared(ones[k - 1], Gap(k)), ones[Earlier(k)])
  IN ones[Len(OnesChain)]

fe_invert(z) == fe_mul(Squared(Ones(z), 5), z_11(z))

fe_pow22523(z) == fe_mul(Squared(Ones(z), 2), z)

=============================================================================
