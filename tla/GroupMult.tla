----------------------------- MODULE GroupMult -----------------------------
(***************************************************************************)
(* Multiples of points: the table of src/precomp_data.h and the two scalar *)
(* multiplications of src/ge.c that read tables.                           *)
(***************************************************************************)
EXTENDS Group

Column == 0 .. 7

NoEntry == [yplusx |-> fe_0, yminusx |-> fe_0, xy2d |-> fe_0]

\* Mutant of cached_to_precomp: the sums are stored as they are.
cached_to_precomp_raw(cached) ==
  [yplusx |-> cached.YplusX, yminusx |-> cached.YminusX, xy2d |-> cached.T2d]

cached_to_precomp(cached) ==
  LET inverse == fe_invert(cached.Z)
  IN [yplusx |-> fe_mul(cached.YplusX, inverse), yminusx |-> fe_mul(cached.YminusX, inverse),
      xy2d |-> fe_mul(cached.T2d, inverse)]

\* The row of b: b, 2b, .. 8b, each the one before plus b.
compute_row(b) ==
  LET p3[n \in 0 .. 8] == IF n = 0 THEN ge_p3_0 ELSE ge_p1p1_to_p3(ge_add(p3[n - 1], b))
  IN [j \in Column |-> cached_to_precomp(ge_p3_to_cached(p3[j + 1]))]

\* Mutant of select: a negated entry keeps its third element.
select_kept(row, b) ==
  LET t == IF b = 0 THEN [yplusx |-> fe_1, yminusx |-> fe_1, xy2d |-> fe_0]
           ELSE row[(IF b < 0 THEN -b ELSE b) - 1]
  IN IF b < 0 THEN [t EXCEPT !.yplusx = t.yminusx, !.yminusx = t.yplusx] ELSE t

\* Entry |b| - 1 of the row, the neutral element for 0, negated if b < 0.
select(row, b) ==
  LET t == IF b = 0 THEN [yplusx |-> fe_1, yminusx |-> fe_1, xy2d |-> fe_0]
           ELSE row[(IF b < 0 THEN -b ELSE b) - 1]
  IN IF b < 0 THEN [yplusx |-> t.yminusx, yminusx |-> t.yplusx, xy2d |-> fe_neg(t.xy2d)]
     ELSE t

Nibble(a, i) == (a \div 16^i) % 16

\* The digits of a in base 16, each from -8 to 8; carry[i] goes into digit i.
Digits(a) ==
  LET carry[i \in 0 .. 2 * Bytes - 1] ==
        IF i = 0 THEN 0 ELSE (Nibble(a, i - 1) + carry[i - 1] + 8) \div 16
  IN [i \in 0 .. 2 * Bytes - 1 |->
        Nibble(a, i) + carry[i] - (IF i < 2 * Bytes - 1 THEN 16 * carry[i + 1] ELSE 0)]

\* h plus, for each row, the entry that every second digit of e selects.
AddSelected(h, table, e, first) ==
  LET entry(i) == select(table[i], e[2 * i + first])
      sum[left \in 0 .. Bytes] ==
        [p \in ge_p3 |-> IF left = 0 THEN p
                         ELSE sum[left - 1][ge_p1p1_to_p3(ge_madd(p, entry(Bytes - left)))]]
  IN sum[Bytes][h]

\* a times the base point: 16 times the odd digits' part, then the even ones'.
ge_scalarmult_base(table, a) ==
  LET e == Digits(a)
      odd == AddSelected(ge_p3_0, table, e, 1)
  IN AddSelected(ge_p1p1_to_p3(Doubled(ge_p3_to_p2(odd), 4)), table, e, 0)

-----------------------------------------------------------------------------
(* The other recoding: odd digits up to 15 with zeros between them. *)

Bits == 8 * Bytes

\* The lowest digit of an odd n of so many bits, and n without it: the digit
\* looks 6 bits ahead and takes a bit that is 1 by adding it, or by subtracting
\* it and carrying upwards; it stops at the first one it can do neither with.
\* A carry out of the top bit is lost.
Window(n, bits) ==
  LET w[b \in 0 .. 6] ==
        IF b = 0 THEN [digit |-> 1, rest |-> n - 1, stop |-> FALSE]
        ELSE LET last == w[b - 1]
             IN IF last.stop \/ b >= bits \/ (last.rest \div 2^b) % 2 = 0 THEN last
                ELSE IF last.digit + 2^b <= 15
                THEN [last EXCEPT !.digit = @ + 2^b, !.rest = @ - 2^b]
                ELSE IF last.digit - 2^b >= -15
                THEN [last EXCEPT !.digit = @ - 2^b, !.rest = (@ + 2^b) % 2^bits]
                ELSE [last EXCEPT !.stop = TRUE]
  IN w[6]

slide(a) ==
  LET r[i \in -1 .. Bits - 1] ==
        IF i = -1 THEN [digit |-> 0, rest |-> 2 * a]
        ELSE LET n == r[i - 1].rest \div 2
             IN IF n % 2 = 0 THEN [digit |-> 0, rest |-> n] ELSE Window(n, Bits - i)
  IN [i \in 0 .. Bits - 1 |-> r[i].digit]

\* A, 3A, .. 15A.
OddMultiples(A) ==
  LET A2 == ge_p1p1_to_p3(ge_p3_dbl(A))
      Ai[k \in Column] == IF k = 0 THEN ge_p3_to_cached(A)
                          ELSE ge_p3_to_cached(ge_p1p1_to_p3(ge_add(A2, Ai[k - 1])))
  IN Ai

\* One digit of each scalar: t is twice the sum so far.
AddDigits(t, Ai, da, db) ==
  LET u == IF da > 0 THEN ge_add(ge_p1p1_to_p3(t), Ai[da \div 2])
           ELSE IF da < 0 THEN ge_sub(ge_p1p1_to_p3(t), Ai[(-da) \div 2]) ELSE t
  IN IF db > 0 THEN ge_madd(ge_p1p1_to_p3(u), Bi[db \div 2])
     ELSE IF db < 0 THEN ge_msub(ge_p1p1_to_p3(u), Bi[(-db) \div 2]) ELSE u

\* a A + b B: from the highest digit that is not 0 down, r is the sum so far.
ge_double_scalarmult_vartime(a, A, b) ==
  LET aslide == slide(a)
      bslide == slide(b)
      Ai == OddMultiples(A)
      used == {i \in 0 .. Bits - 1 : aslide[i] # 0 \/ bslide[i] # 0}
      top == Max(used \cup {-1})
      loop[i \in -1 .. top, r \in ge_p2] ==
        IF i = -1 THEN r
        ELSE loop[i - 1, ge_p1p1_to_p2(AddDigits(ge_p2_dbl(r), Ai, aslide[i], bslide[i]))]
  IN loop[top, ge_p2_0]

=============================================================================
