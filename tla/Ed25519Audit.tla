---------------------------- MODULE Ed25519Audit ----------------------------
(***************************************************************************)
(* What the functions of Ed25519.tla promise, against the textbook: affine *)
(* points (Curve), integers modulo the order, and the limb arithmetic that *)
(* FieldValues stands for (Field).                                         *)
(***************************************************************************)
EXTENDS Ed25519

CONSTANTS EvenRadix, OddRadix, ChunkAt \* see Field.tla

Affine == INSTANCE Curve WITH D <- d.val

Limbs == INSTANCE Field WITH SmallFactor <- Small

\* The base point, from the table in the source.
B == <<Affine!Quotient(Bi[0].yplusx.val - Bi[0].yminusx.val, 2),
       Affine!Quotient(Bi[0].yplusx.val + Bi[0].yminusx.val, 2)>>

EncodedMultiple(n) == Affine!Encoded(Affine!Times(n, B), TopBit)

Bounded(fields) == \A f \in DOMAIN fields : fields[f].bound <= Tight

Encodings == {k.pub : k \in keys} \cup {s.sig.R : s \in sigs}

\* The variables have the shapes of the code's types.
TypeOK ==
  /\ base \in [Row -> [Column -> ge_precomp]]
  /\ active_row \in 0 .. Bytes
  /\ p3 \in ge_p3
  /\ \A k \in keys : k.a \in 0 .. TopBit - 1 /\ k.pub \in Nat
  /\ \A s \in sigs : s.msg \in Messages /\ s.sig.R \in Nat /\ s.sig.S \in Nat

\* No chain of field operations lets a limb outgrow what the next product or
\* fe_tobytes can take (ge.c adds up to three elements between products), so
\* the table's entries are as tight as a product leaves them and no encoding
\* is Torn.
NoOverflow ==
  /\ Bounded(p3)
  /\ \A i \in Row, j \in Column : i < active_row => Bounded(base[i][j])
  /\ Encodings \subseteq 0 .. 2 * TopBit - 1

\* The table computed at start-up is the one it replaces: row i, column j
\* holds (j + 1) 256^i times the base point, with Z divided out.
TableRight ==
  \A i \in Row, j \in Column :
    i < active_row =>
      LET P == Affine!Times((j + 1) * 256^i, B)
      IN /\ base[i][j].yplusx.val = (P[2] + P[1]) % Prime
         /\ base[i][j].yminusx.val = (P[2] - P[1]) % Prime
         /\ base[i][j].xy2d.val = (((P[1] * P[2]) % Prime) * d2.val) % Prime

\* A public key is the multiple of the base point that its secret scalar
\* says, whatever was added to the pair, and unpacking it gives its opposite.
KeysMatch ==
  \A k \in keys :
    LET A == ge_frombytes_negate_vartime(k.pub)
    IN /\ k.pub = EncodedMultiple(k.a)
       /\ A # NoPoint
       /\ <<A.X.val, A.Y.val>> = Affine!Opposite(Affine!Times(k.a, B))

\* A pair that scalars were added to has the sum as its secret, and adding a
\* scalar to the public key alone gives the public key of that pair.
DerivationsAgree ==
  \A k \in keys :
    /\ k.a % Order = FoldSeq(LAMBDA n, sum : (Masked(n) + sum) % Order, k.from, k.tweaks) % Order
    /\ \A n \in Tweaks : AddToPublic(k.pub, n) = AddToPair(k, n).pub

\* What sign returns, verify accepts.
SignaturesVerify ==
  \A s \in sigs : ed25519_verify(s.sig, s.msg, s.by)

\* A digest modulo the order, without limbs.
DigestResidue(h) == ((h[2] % Order) * ((2^Half) % Order) + h[1]) % Order

\* Verify decides the textbook equation R = S B - h A, for signatures that
\* are right, of another message, by another pair, and altered: its sliding
\* windows over two scalars agree with plain multiples.
VerifyDecides ==
  \A s \in sigs, k \in keys, m \in Messages :
    \A S \in {s.sig.S, s.sig.S + 1, s.sig.S + Order, s.sig.S + 2 * Order} :
      LET h == DigestResidue(Hash(<<s.sig.R, k.pub, m>>))
          P == Affine!Sum(Affine!Times(S, B), Affine!Times(h, Affine!Opposite(Affine!Times(k.a, B))))
      IN ed25519_verify([R |-> s.sig.R, S |-> S], m, k.pub)
           <=> (S < TopBit \div 4 /\ s.sig.R = Affine!Encoded(P, TopBit))

\* Two pairs compute one secret from their own scalar and the other's public
\* key: the coordinate (1 + y) / (1 - y) of the product, as long as nothing
\* was added to them (key_exchange clamps the scalar again).
SecretsAgree ==
  \A k \in keys, l \in keys :
    k.tweaks = <<>> /\ l.tweaks = <<>> =>
      LET y == Affine!Times(k.a, Affine!Times(l.a, B))[2]
      IN ed25519_key_exchange(l.pub, k.a) = Affine!Quotient(1 + y, 1 - y)

\* Numbers of so many bits, all of them ones.
AllOnes(bits) == {2^i - 1 : i \in 0 .. bits}

\* Scalars that were reduced have their top bit clear, over samples.
SamplesFit ==
  /\ \A h \in AllOnes(Half) \X AllOnes(Half) : sc_reduce(h) \in 0 .. TopBit - 1
  /\ \A a, b, c \in AllOnes(Half - 1) : sc_muladd(a, b, c) \in 0 .. TopBit - 1

\* The limbs of every scalar that is packed lie side by side (packing ORs
\* them), and stand for what was reduced; so the top bit stays clear.
ScalarsExact ==
  /\ SamplesFit
  /\ \A k \in keys, m \in Messages :
       LET h == Hash(<<k.prefix, m>>)
           s == Reduced(LoadPair(h))
           t == ProductSum(LoadHalf(h[1]), LoadHalf(k.a), LoadHalf(h[2]))
           u == Reduced(RoundProduct(t))
       IN /\ Residue(s) = DigestResidue(h)
          /\ Residue(u) = ((h[1] % Order) * (k.a % Order) + h[2]) % Order
          /\ \A v \in {s, u} : /\ \A i \in 0 .. 10 : v[i] \in 0 .. SRadix - 1
                               /\ v[11] \in 0 .. SRadix /\ \A i \in 12 .. 23 : v[i] = 0

Same(f, v) == (Limbs!Value(f) - v) % Prime = 0

\* The limbs compute what FieldValues says, on all encodings that exist.
LimbsAgree ==
  \A s \in Encodings, t \in Encodings :
    LET f == Limbs!fe_frombytes(s)
        g == Limbs!fe_frombytes(t)
        x == fe_frombytes(s)
        y == fe_frombytes(t)
        sum == Limbs!fe_add(f, g)
        difference == Limbs!fe_sub(f, g)
    IN /\ Limbs!fe_tobytes(sum) = fe_tobytes(fe_add(x, y))
       /\ Limbs!fe_tobytes(difference) = fe_tobytes(fe_sub(x, y))
       /\ Limbs!fe_tobytes(Limbs!fe_neg(f)) = fe_tobytes(fe_neg(x))
       /\ Limbs!fe_isnonzero(difference) = fe_isnonzero(fe_sub(x, y))
       /\ Same(Limbs!fe_mul(sum, difference), fe_mul(fe_add(x, y), fe_sub(x, y)).val)
       /\ Same(Limbs!fe_sq(difference), fe_sq(fe_sub(x, y)).val)
       /\ Same(Limbs!fe_sq2(sum), fe_sq2(fe_add(x, y)).val)
       /\ Same(Limbs!fe_mul121666(sum), fe_mul121666(fe_add(x, y)).val)
       /\ Limbs!fe_cswap(f, g, 1) = <<g, f>> /\ Limbs!fe_cswap(f, g, 0) = <<f, g>>

=============================================================================
