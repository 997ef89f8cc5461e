------------------------------- MODULE Curve -------------------------------
(***************************************************************************)
(* The curve -x^2 + y^2 = 1 + D x^2 y^2 over GF(Prime) as src/ge.h states  *)
(* it, with affine points and the textbook addition law.  The reference    *)
(* for the projective formulas and the digit recodings of src/ge.c.        *)
(***************************************************************************)
EXTENDS Integers

CONSTANTS
  Prime,  \* the field
  D       \* the curve's constant, not a square

\* v to the power n: one square and at most one product for each bit of n.
Power(v, n) ==
  LET pow[k \in Nat, square \in 0 .. Prime - 1, result \in 0 .. Prime - 1] ==
        IF k = 0 THEN result
        ELSE pow[k \div 2, (square * square) % Prime,
                 IF k % 2 = 1 THEN (result * square) % Prime ELSE result]
  IN pow[n, v, 1]

Quotient(u, v) == ((u % Prime) * Power(v % Prime, Prime - 2)) % Prime

OnCurve(P) ==
  LET xx == (P[1] * P[1]) % Prime
      yy == (P[2] * P[2]) % Prime
  IN (yy - xx - 1 - ((D * xx) % Prime) * yy) % Prime = 0

Neutral == <<0, 1>>

Opposite(P) == <<(-P[1]) % Prime, P[2]>>

Sum(P, Q) ==
  LET xx == (P[1] * Q[1]) % Prime
      yy == (P[2] * Q[2]) % Prime
      t == (D * ((xx * yy) % Prime)) % Prime
      cross == ((P[1] * Q[2]) % Prime) + ((P[2] * Q[1]) % Prime)
  IN <<Quotient(cross, 1 + t), Quotient(xx + yy, 1 - t)>>

\* n times P, in the same way.
Times(n, P) ==
  LET Points == (0 .. Prime - 1) \X (0 .. Prime - 1)
      mult[k \in Nat, twice \in Points, result \in Points] ==
        IF k = 0 THEN result
        ELSE mult[k \div 2, Sum(twice, twice),
                  IF k % 2 = 1 THEN Sum(result, twice) ELSE result]
  IN mult[n, P, Neutral]

\* The encoding of a point: y, and the parity of x in the top bit.
Encoded(P, TopBit) == P[2] + TopBit * (P[1] % 2)

=============================================================================
