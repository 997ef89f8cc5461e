------------------------------- MODULE Group -------------------------------
(***************************************************************************)
(* The group arithmetic of src/ge.c and the table of src/precomp_data.h,   *)
(* which the program computes at start-up instead of reading a file.       *)
(* Points are records of field elements, one kind per type of src/ge.h;    *)
(* scalars and encodings are the integers their bytes spell.  The number   *)
(* of bytes is a constant (32 in the code).                                *)
(***************************************************************************)
EXTENDS FieldValues, FiniteSets, FiniteSetsExt

CONSTANTS
  Bytes,   \* bytes of a scalar
  d,       \* the curve's constant, an element
  sqrtm1,  \* a root of -1, an element
  d2,      \* twice d, an element
  Bi       \* the first odd multiples of the base point: [0 .. 7 -> ge_precomp]

\* One bit less than Bytes bytes: 2^(8 * Bytes - 1), in hexadecimal digits.
ASSUME BytesAssumption ==
  /\ Bytes \in Nat \ {0} /\ Prime + 19 = 8 * 16^(2 * Bytes - 1)
  /\ \A i \in 0 .. 2 * Bytes - 1 : 16^i \in Nat \ {0}

\* The limbs of the numbers in the source are at most 2^25 and 2^24.
Numbers == [val : 0 .. Prime - 1, bound : 0 .. 100]

ASSUME NumbersAssumption ==
  /\ {d, sqrtm1, d2} \subseteq Numbers
  /\ Bi \in [0 .. 7 -> [yplusx : Numbers, yminusx : Numbers, xy2d : Numbers]]

TopBit == Prime + 19

\* Points of the types in ge.h.
ge_p2 == [X : Element, Y : Element, Z : Element]

ge_p3 == [X : Element, Y : Element, Z : Element, T : Element]

ge_precomp == [yplusx : Element, yminusx : Element, xy2d : Element]

ge_p2_0 == [X |-> fe_0, Y |-> fe_1, Z |-> fe_1]

ge_p3_0 == [X |-> fe_0, Y |-> fe_1, Z |-> fe_1, T |-> fe_0]

ge_p3_to_p2(p) == [X |-> p.X, Y |-> p.Y, Z |-> p.Z]

ge_p3_to_cached(p) ==
  [YplusX |-> fe_add(p.Y, p.X), YminusX |-> fe_sub(p.Y, p.X),
   Z |-> p.Z, T2d |-> fe_mul(p.T, d2)]

ge_p1p1_to_p2(p) ==
  [X |-> fe_mul(p.X, p.T), Y |-> fe_mul(p.Y, p.Z), Z |-> fe_mul(p.Z, p.T)]

ge_p1p1_to_p3(p) ==
  [X |-> fe_mul(p.X, p.T), Y |-> fe_mul(p.Y, p.Z), Z |-> fe_mul(p.Z, p.T),
   T |-> fe_mul(p.X, p.Y)]

\* What the four additions and subtractions share: from the two products of
\* the sums and differences, twice the product of the Zs and the product of
\* the Ts.
Completed(plus, minus, zz, tt) ==
  [X |-> fe_sub(plus, minus), Y |-> fe_add(plus, minus),
   Z |-> fe_add(zz, tt), T |-> fe_sub(zz, tt)]

Twice(f) == fe_add(f, f)

ge_add(p, q) ==
  Completed(fe_mul(fe_add(p.Y, p.X), q.YplusX), fe_mul(fe_sub(p.Y, p.X), q.YminusX),
            Twice(fe_mul(p.Z, q.Z)), fe_mul(q.T2d, p.T))

ge_madd(p, q) ==
  Completed(fe_mul(fe_add(p.Y, p.X), q.yplusx), fe_mul(fe_sub(p.Y, p.X), q.yminusx),
            Twice(p.Z), fe_mul(q.xy2d, p.T))

\* A subtraction swaps sum and difference of q, and Z and T of the result.
Swapped(r) == [r EXCEPT !.Z = r.T, !.T = r.Z]

ge_sub(p, q) ==
  Swapped(Completed(fe_mul(fe_add(p.Y, p.X), q.YminusX),
                    fe_mul(fe_sub(p.Y, p.X), q.YplusX),
                    Twice(fe_mul(p.Z, q.Z)), fe_mul(q.T2d, p.T)))

ge_msub(p, q) ==
  Swapped(Completed(fe_mul(fe_add(p.Y, p.X), q.yminusx),
                    fe_mul(fe_sub(p.Y, p.X), q.yplusx),
                    Twice(p.Z), fe_mul(q.xy2d, p.T)))

ge_p2_dbl(p) ==
  LET xx == fe_sq(p.X)
      yy == fe_sq(p.Y)
      Y == fe_add(yy, xx)
      Z == fe_sub(yy, xx)
  IN [X |-> fe_sub(fe_sq(fe_add(p.X, p.Y)), Y), Y |-> Y, Z |-> Z,
      T |-> fe_sub(fe_sq2(p.Z), Z)]

ge_p3_dbl(p) == ge_p2_dbl(ge_p3_to_p2(p))

\* Doubled n times; the last result stays completed.
Doubled(p, n) ==
  LET r[i \in 0 .. n - 1] ==
        [q \in ge_p2 |-> IF i = 0 THEN ge_p2_dbl(q) ELSE r[i - 1][ge_p1p1_to_p2(ge_p2_dbl(q))]]
  IN r[n - 1][p]

-----------------------------------------------------------------------------
(* Encodings: y, and the sign of x in the top bit. *)

\* ^= on a bit that fe_tobytes leaves 0.
ge_tobytes(h) ==
  LET recip == fe_invert(h.Z)
      affine == [h EXCEPT !.X = fe_mul(@, recip), !.Y = fe_mul(@, recip)]
  IN fe_tobytes(affine.Y) + TopBit * fe_isnegative(affine.X)

ge_p3_tobytes(h) == ge_tobytes(h)

NoPoint == [invalid |-> TRUE]

\* The opposite of the point that s encodes; NoPoint where the code gives -1.
ge_frombytes_negate_vartime(s) ==
  LET Y == fe_frombytes(s)
      yy == fe_sq(Y)
      u == fe_sub(yy, fe_1)
      v == fe_add(fe_mul(yy, d), fe_1)
      v3 == fe_mul(fe_sq(v), v)
      uv7 == fe_mul(fe_mul(fe_sq(v3), v), u)
      root == fe_mul(fe_mul(fe_pow22523(uv7), v3), u)
      vxx == fe_mul(fe_sq(root), v)
      x == IF fe_isnonzero(fe_sub(vxx, u)) THEN fe_mul(root, sqrtm1) ELSE root
      X == IF fe_isnegative(x) = s \div TopBit THEN fe_neg(x) ELSE x
  IN IF fe_isnonzero(fe_sub(vxx, u)) /\ fe_isnonzero(fe_add(vxx, u))
     THEN NoPoint
     ELSE [X |-> X, Y |-> Y, Z |-> fe_1, T |-> fe_mul(X, Y)]

=============================================================================
