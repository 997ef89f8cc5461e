--------------------------- MODULE Ed25519Proofs ---------------------------
(***************************************************************************)
(* No limb outgrows what the next product can take, for a field of any     *)
(* size: bounds are followed through the operations of fe.c, the points    *)
(* of ge.c, the table computed at start-up and the functions on keys.      *)
(***************************************************************************)
EXTENDS Ed25519Audit, Recursion

-----------------------------------------------------------------------------
(* Field elements *)

\* Elements with limbs up to b.
Tame(b) == [val : 0 .. Prime - 1, bound : 0 .. b]

Product == Tame(Tight)
Factor == Tame(MulLimit)

LEMMA Limits == Tight = 101 /\ PackLimit = 220 /\ MulLimit = 330
BY DEF Tight, PackLimit, MulLimit

LEMMA ElemTame ==
    ASSUME NEW v \in Int, NEW b \in Nat, NEW n \in Nat, n <= b
    PROVE  Elem(v, n) \in Tame(b)
<1>1. v % Prime \in 0 .. Prime - 1
  BY PrimeAssumption
<1> QED BY <1>1 DEF Elem, Tame

LEMMA TameGrows ==
    ASSUME NEW a \in Nat, NEW b \in Nat, a <= b
    PROVE  Tame(a) \subseteq Tame(b) /\ Tame(a) \subseteq Element
BY DEF Tame, Element

LEMMA TameFields ==
    ASSUME NEW b \in Nat, NEW f \in Tame(b)
    PROVE  f.val \in 0 .. Prime - 1 /\ f.val \in Int /\ f.bound \in 0 .. b
BY PrimeAssumption DEF Tame

LEMMA Nested ==
    Product \subseteq Factor /\ Product \subseteq Element /\ Factor \subseteq Element
BY Limits, TameGrows DEF Product, Factor

\* A sum or a difference may have the limbs of both.
LEMMA SumTame ==
    ASSUME NEW a \in Nat, NEW b \in Nat, NEW c \in Nat, a + b <= c,
           NEW f \in Tame(a), NEW g \in Tame(b)
    PROVE  fe_add(f, g) \in Tame(c) /\ fe_sub(f, g) \in Tame(c)
<1>1. f.bound + g.bound \in Nat /\ f.bound + g.bound <= c
  BY TameFields
<1>2. f.val + g.val \in Int /\ f.val - g.val \in Int
  BY TameFields
<1> QED BY <1>1, <1>2, ElemTame DEF fe_add, fe_sub

LEMMA OppositeTame ==
    ASSUME NEW b \in Nat, NEW f \in Tame(b)
    PROVE  fe_neg(f) \in Tame(b)
<1>1. -f.val \in Int /\ f.bound \in Nat /\ f.bound <= b
  BY TameFields
<1> QED BY <1>1, ElemTame DEF fe_neg

LEMMA ProductTight ==
    ASSUME NEW f \in Factor, NEW g \in Factor
    PROVE  fe_mul(f, g) \in Product /\ fe_sq(f) \in Product /\ fe_sq2(f) \in Product
<1>1. /\ f.val \in Int /\ f.bound <= MulLimit
      /\ g.val \in Int /\ g.bound <= MulLimit
  BY Limits, TameFields DEF Factor
<1>2. f.val * g.val \in Int /\ f.val * f.val \in Int
  BY <1>1
<1>3. Tight \in Nat /\ Tight <= Tight
  BY Limits
<1>4. fe_mul(f, g) \in Product /\ fe_sq(f) \in Product
  <2>1. fe_mul(f, g) = Elem(f.val * g.val, Tight) /\ fe_sq(f) = Elem(f.val * f.val, Tight)
    <3>1. ProductBound(f, g) = Tight /\ ProductBound(f, f) = Tight
      BY <1>1 DEF ProductBound
    <3>2. /\ fe_mul(f, g) = Elem(f.val * g.val, ProductBound(f, g))
          /\ fe_mul(f, f) = Elem(f.val * f.val, ProductBound(f, f))
      BY DEF fe_mul
    <3>3. fe_sq(f) = fe_mul(f, f)
      BY DEF fe_sq
    <3> QED BY <3>1, <3>2, <3>3, Zenon
  <2>2. \A v \in Int : Elem(v, Tight) \in Product
    BY <1>3, ElemTame DEF Product
  <2> QED BY <1>2, <2>1, <2>2, Zenon
<1>5. fe_sq2(f) \in Product
  <2>1. fe_sq(f).val \in Int /\ fe_sq(f).bound \in Nat /\ fe_sq(f).bound <= Tight
    BY <1>3, <1>4, TameFields DEF Product
  <2>2. 2 * fe_sq(f).val \in Int
    BY <2>1
  <2> QED BY <1>3, <2>1, <2>2, ElemTame DEF fe_sq2, Product
<1> QED BY <1>4, <1>5

\* The operations give elements for all elements, whether the limbs fit or not.
LEMMA Closed ==
    ASSUME NEW f \in Element, NEW g \in Element
    PROVE  /\ fe_add(f, g) \in Element /\ fe_sub(f, g) \in Element
           /\ fe_mul(f, g) \in Element /\ fe_sq(f) \in Element /\ fe_sq2(f) \in Element
<1>1. f.val \in Int /\ f.bound \in Nat /\ g.val \in Int /\ g.bound \in Nat
  BY PrimeAssumption DEF Element
<1>2. \A v \in Int, b \in Nat : Elem(v, b) \in Element
  BY PrimeAssumption DEF Elem, Element
<1>3. fe_add(f, g) \in Element /\ fe_sub(f, g) \in Element
  BY <1>1, <1>2 DEF fe_add, fe_sub
<1>4. f.val * g.val \in Int /\ f.val * f.val \in Int
  BY <1>1
<1>5. ProductBound(f, g) \in Nat /\ ProductBound(f, f) \in Nat
  BY DEF ProductBound, Tight, TooLarge
<1>6. /\ fe_mul(f, g) = Elem(f.val * g.val, ProductBound(f, g))
      /\ fe_mul(f, f) = Elem(f.val * f.val, ProductBound(f, f))
  BY DEF fe_mul
<1>7. fe_sq(f) = fe_mul(f, f)
  BY DEF fe_sq
<1>8. fe_mul(f, g) \in Element /\ fe_sq(f) \in Element
  BY <1>2, <1>4, <1>5, <1>6, <1>7, Zenon
<1>9. fe_sq2(f) \in Element
  <2>1. fe_sq(f).val \in Int /\ fe_sq(f).bound \in Nat
    BY <1>8, PrimeAssumption DEF Element
  <2>2. 2 * fe_sq(f).val \in Int
    BY <2>1
  <2> QED BY <1>2, <2>1, <2>2 DEF fe_sq2
<1> QED BY <1>3, <1>8, <1>9

\* The constants in the source are factors, and so are 0 and 1.
LEMMA ConstantsTight ==
    /\ fe_0 \in Product /\ fe_1 \in Product
    /\ Numbers \subseteq Product /\ d2 \in Product
<1>1. 0 \in Int /\ 1 \in Int /\ Tight \in Nat /\ 0 <= Tight /\ 1 <= Tight
  BY Limits
<1>2. fe_0 \in Product /\ fe_1 \in Product
  BY <1>1, ElemTame DEF fe_0, fe_1, Product
<1>3. Numbers \subseteq Product
  BY Limits DEF Numbers, Product, Tame
<1> QED BY <1>2, <1>3, NumbersAssumption

-----------------------------------------------------------------------------
(* The power chains *)

\* Squaring any number of times leaves a factor a factor.
LEMMA SquaredTame ==
    ASSUME NEW n \in Nat, NEW z \in Factor
    PROVE  Squared(z, n) \in Factor
<1> DEFINE id == [g \in Element |-> g]
           f == [i \in 1 .. n |-> [g \in Element |-> fe_sq(g)]]
           Loop(s) == s = [i \in 0 .. n |->
                             [g \in Element |-> IF i = 0 THEN g ELSE s[i - 1][fe_sq(g)]]]
           chosen == CHOOSE s : Loop(s)
<1>1. /\ \A i \in 1 .. n : \A g \in Element : f[i][g] = fe_sq(g)
      /\ \A g \in Element : id[g] = g
      /\ id \in [Element -> Element]
  OBVIOUS
<1>2. IsSteps(f, n, Element)
  BY Closed DEF IsSteps
<1>3. \E s : Loop(s)
  <2> HIDE DEF f, id
  <2>1. PICK r \in [0 .. n -> [Element -> Element]] : IsTail(r, id, f, n, Element)
    BY <1>1, <1>2, TailExists
  <2>2. \A g \in Element : r[0][g] = g
    BY <1>1, <2>1 DEF IsTail
  <2>3. \A i \in 1 .. n : \A g \in Element : r[i][g] = r[i - 1][fe_sq(g)]
    BY <1>1, <2>1 DEF IsTail
  <2>4. \A i \in 0 .. n : \A g \in Element :
          r[i][g] = IF i = 0 THEN g ELSE r[i - 1][fe_sq(g)]
    BY <2>2, <2>3
  <2>5. \A i \in 0 .. n : r[i] = [g \in Element |-> r[i][g]]
    BY <2>1
  <2>6. \A i \in 0 .. n :
          r[i] = [g \in Element |-> IF i = 0 THEN g ELSE r[i - 1][fe_sq(g)]]
    BY <2>4, <2>5
  <2>7. r = [i \in 0 .. n |-> r[i]]
    BY <2>1
  <2> QED BY <2>6, <2>7
<1>4. Loop(chosen)
  <2> HIDE DEF Loop
  <2> QED BY <1>3
<1>5. Squared(z, n) = chosen[n][z]
  BY DEF Squared
<1> HIDE DEF f, id, chosen
<1>6. IsTail(chosen, id, f, n, Element)
  <2>1. \A g \in Element : chosen[0][g] = g
    BY <1>4
  <2>2. ASSUME NEW i \in 1 .. n, NEW g \in Element
        PROVE  chosen[i][g] = chosen[i - 1][fe_sq(g)]
    <3>1. i \in 0 .. n /\ i # 0
      OBVIOUS
    <3>2. chosen[i] = [h \in Element |-> IF i = 0 THEN h ELSE chosen[i - 1][fe_sq(h)]]
      BY <1>4, <3>1
    <3> QED BY <3>1, <3>2
  <2> QED BY <1>1, <2>1, <2>2 DEF IsTail
<1>7. Keep(f, n, Factor, Element)
  BY <1>1, Nested, ProductTight DEF Keep
<1>8. Turn(id, Factor, Factor)
  BY <1>1, Nested DEF Turn
<1>9. Turn(chosen[n], Factor, Factor)
  <2> HIDE DEF Loop
  <2> QED BY <1>6, <1>7, <1>8, TailKeeps
<1> QED BY <1>5, <1>9 DEF Turn

LEMMA PowersTight ==
    ASSUME NEW z \in Factor
    PROVE  z_9(z) \in Product /\ z_11(z) \in Product
<1>1. z_9(z) \in Product
  BY SquaredTame, ProductTight DEF z_9
<1>2. fe_sq(z) \in Factor /\ z_9(z) \in Factor
  BY <1>1, Nested, ProductTight
<1> QED BY <1>1, <1>2, ProductTight DEF z_11

\* The links of the chain that the code follows.
LEMMA Links ==
    /\ Len(OnesChain) \in Nat /\ Len(OnesChain) > 0
    /\ \A k \in 2 .. Len(OnesChain) : Gap(k) \in Nat /\ Earlier(k) \in 1 .. k - 1
<1>1. Len(OnesChain) \in Nat /\ Len(OnesChain) > 0
  BY ChainAssumption
<1>2. ASSUME NEW k \in 2 .. Len(OnesChain)
      PROVE  Gap(k) \in Nat /\ Earlier(k) \in 1 .. k - 1
  <2>1. Gap(k) > 0 /\ \E j \in 1 .. k - 1 : OnesChain[j] = Gap(k)
    BY ChainAssumption
  <2>2. OnesChain[k] \in Nat /\ OnesChain[k - 1] \in Nat
    BY ChainAssumption
  <2>3. Gap(k) \in Nat
    BY <2>1, <2>2 DEF Gap
  <2>4. Earlier(k) \in 1 .. k - 1
    BY <2>1 DEF Earlier
  <2> QED BY <2>3, <2>4
<1> QED BY <1>1, <1>2

\* One link joins two numbers of the chain.
LEMMA LinkTight ==
    ASSUME NEW k \in 2 .. Len(OnesChain), NEW u \in Product, NEW v \in Product
    PROVE  fe_mul(Squared(u, Gap(k)), v) \in Product
<1>1. Gap(k) \in Nat
  BY Links
<1>2. Squared(u, Gap(k)) \in Factor
  BY <1>1, Nested, SquaredTame
<1> QED BY <1>2, Nested, ProductTight

LEMMA OnesTight ==
    ASSUME NEW z \in Factor
    PROVE  Ones(z) \in Product
<1> DEFINE N == Len(OnesChain)
           x == fe_mul(z_9(z), fe_sq(z_11(z)))
           link(k, u, v) == fe_mul(Squared(u, Gap(k)), v)
           f == [k \in 2 .. N |-> [u \in Product |-> [v \in Product |-> link(k, u, v)]]]
           j == [k \in 2 .. N |-> Earlier(k)]
           Chain(s) == s = [k \in 1 .. N |->
                              IF k = 1 THEN x ELSE link(k, s[k - 1], s[Earlier(k)])]
           chosen == CHOOSE s : Chain(s)
<1>1. x \in Product
  <2>1. z_9(z) \in Factor /\ z_11(z) \in Factor
    BY PowersTight, Nested
  <2>2. fe_sq(z_11(z)) \in Factor
    BY <2>1, ProductTight, Nested
  <2> QED BY <2>1, <2>2, ProductTight
<1>2. N \in Nat /\ N > 0
  BY Links
<1>3. \A k \in 2 .. N : \A u, v \in Product : link(k, u, v) \in Product
  BY LinkTight
<1>4. \A k \in 2 .. N : Earlier(k) \in 1 .. k - 1
  BY Links
<1> HIDE DEF x, link, N
<1>5. \E s : Chain(s)
  <2>1. IsLinks(f, j, N, Product)
    <3>1. ASSUME NEW k \in 2 .. N PROVE f[k] \in [Product -> [Product -> Product]]
      BY <1>3
    <3>2. \A k \in 2 .. N : j[k] \in 1 .. k - 1
      BY <1>4
    <3> QED BY <3>1, <3>2 DEF IsLinks
  <2>2. \A k \in 2 .. N : \A u, v \in Product : f[k][u][v] = link(k, u, v)
    OBVIOUS
  <2>3. \A k \in 2 .. N : j[k] = Earlier(k)
    OBVIOUS
  <2> HIDE DEF f, j
  <2>4. PICK s : IsCourse(s, x, f, j, N, Product)
    BY <1>1, <1>2, <2>1, CourseExists
  <2>5. s \in [1 .. N -> Product] /\ s[1] = x
    BY <2>4 DEF IsCourse
  <2>6. ASSUME NEW k \in 2 .. N PROVE s[k] = link(k, s[k - 1], s[Earlier(k)])
    <3>1. k - 1 \in 1 .. N /\ Earlier(k) \in 1 .. N
      BY <1>2, <1>4
    <3>2. s[k - 1] \in Product /\ s[Earlier(k)] \in Product
      BY <2>5, <3>1
    <3>3. s[k] = f[k][s[k - 1]][s[j[k]]]
      BY <2>4 DEF IsCourse
    <3> QED BY <2>2, <2>3, <3>2, <3>3
  <2>7. \A k \in 1 .. N : s[k] = IF k = 1 THEN x ELSE link(k, s[k - 1], s[Earlier(k)])
    BY <2>5, <2>6
  <2>8. s = [k \in 1 .. N |-> s[k]]
    BY <2>5
  <2>9. [k \in 1 .. N |-> s[k]]
          = [k \in 1 .. N |-> IF k = 1 THEN x ELSE link(k, s[k - 1], s[Earlier(k)])]
    BY <2>7
  <2> QED BY <2>8, <2>9
<1>6. Chain(chosen)
  <2> HIDE DEF Chain
  <2> QED BY <1>5
<1>7. Ones(z) = chosen[N]
  BY DEF Ones, N, x, link
<1> HIDE DEF chosen
<1>8. chosen[1] = x
  BY <1>2, <1>6
<1>9. ASSUME NEW k \in 2 .. N
      PROVE  chosen[k] = link(k, chosen[k - 1], chosen[Earlier(k)])
  BY <1>2, <1>6
<1> DEFINE A == {n \in Nat : \A k \in 1 .. N : k <= n => chosen[k] \in Product}
<1>10. 0 \in A
  OBVIOUS
<1>11. ASSUME NEW n \in Nat, n \in A PROVE n + 1 \in A
  <2> SUFFICES ASSUME n + 1 \in 1 .. N PROVE chosen[n + 1] \in Product
    BY <1>11
  <2>1. CASE n = 0
    BY <1>1, <1>8, <2>1
  <2>2. CASE n # 0
    <3>1. n + 1 \in 2 .. N /\ (n + 1) - 1 = n /\ n \in 1 .. N
      BY <1>2, <2>2
    <3>2. Earlier(n + 1) \in 1 .. N /\ Earlier(n + 1) <= n
      BY <1>2, <1>4, <3>1
    <3>3. chosen[n] \in Product /\ chosen[Earlier(n + 1)] \in Product
      BY <1>11, <3>1, <3>2
    <3>4. chosen[n + 1] = link(n + 1, chosen[n], chosen[Earlier(n + 1)])
      BY <1>9, <3>1
    <3> QED BY <1>3, <3>1, <3>3, <3>4
  <2> QED BY <2>1, <2>2
<1>12. N \in A
  <2> HIDE DEF A
  <2> QED BY <1>2, <1>10, <1>11, SetInduction
<1> QED BY <1>2, <1>7, <1>12

\* The inverse is a product, whatever factor it is taken of.
LEMMA InverseTight ==
    ASSUME NEW z \in Factor
    PROVE  fe_invert(z) \in Product
<1>1. Ones(z) \in Factor /\ z_11(z) \in Factor
  BY OnesTight, PowersTight, Nested
<1>2. Squared(Ones(z), 5) \in Factor
  BY <1>1, SquaredTame
<1> QED BY <1>1, <1>2, ProductTight DEF fe_invert

-----------------------------------------------------------------------------
(* Points *)

\* What the conversions leave, and what the additions leave to them.
TightP2 == [X : Product, Y : Product, Z : Product]
TightP3 == [X : Product, Y : Product, Z : Product, T : Product]
Loose == [X : Factor, Y : Factor, Z : Factor, T : Factor]
TightCached == [YplusX : Factor, YminusX : Factor, Z : Product, T2d : Product]
TightEntry == [yplusx : Product, yminusx : Product, xy2d : Product]

LEMMA PointTypes ==
    /\ TightP2 \subseteq ge_p2 /\ TightP3 \subseteq ge_p3 /\ TightEntry \subseteq ge_precomp
    /\ ge_p3_0 \in TightP3 /\ NoEntry \in TightEntry
<1>1. \A f \in Product : f \in Element
  BY Nested
<1> QED BY <1>1, ConstantsTight
        DEF TightP2, TightP3, TightEntry, ge_p2, ge_p3, ge_precomp, ge_p3_0, NoEntry

LEMMA Converted ==
    ASSUME NEW p \in Loose
    PROVE  ge_p1p1_to_p2(p) \in TightP2 /\ ge_p1p1_to_p3(p) \in TightP3
<1>1. p.X \in Factor /\ p.Y \in Factor /\ p.Z \in Factor /\ p.T \in Factor
  BY DEF Loose
<1>2. /\ fe_mul(p.X, p.T) \in Product /\ fe_mul(p.Y, p.Z) \in Product
      /\ fe_mul(p.Z, p.T) \in Product /\ fe_mul(p.X, p.Y) \in Product
  BY <1>1, ProductTight
<1> QED BY <1>2 DEF ge_p1p1_to_p2, ge_p1p1_to_p3, TightP2, TightP3

LEMMA Projected ==
    ASSUME NEW p \in TightP3
    PROVE  ge_p3_to_p2(p) \in TightP2
BY DEF TightP3, TightP2, ge_p3_to_p2

\* Sums and differences of two products are factors.
LEMMA Sums ==
    ASSUME NEW f \in Product, NEW g \in Product
    PROVE  /\ fe_add(f, g) \in Factor /\ fe_sub(f, g) \in Factor
           /\ fe_add(f, g) \in Tame(202) /\ fe_sub(f, g) \in Tame(202)
BY Limits, SumTame DEF Product, Factor

LEMMA CachedTight ==
    ASSUME NEW p \in TightP3
    PROVE  ge_p3_to_cached(p) \in TightCached
<1>1. p.X \in Product /\ p.Y \in Product /\ p.Z \in Product /\ p.T \in Product
  BY DEF TightP3
<1>2. fe_mul(p.T, d2) \in Product
  BY <1>1, ConstantsTight, Nested, ProductTight
<1>3. fe_add(p.Y, p.X) \in Factor /\ fe_sub(p.Y, p.X) \in Factor
  BY <1>1, Sums
<1> QED BY <1>1, <1>2, <1>3 DEF ge_p3_to_cached, TightCached

\* Three products that are added or subtracted are a factor still.
LEMMA CompletedLoose ==
    ASSUME NEW plus \in Product, NEW minus \in Product, NEW zz \in Tame(202), NEW tt \in Product
    PROVE  Completed(plus, minus, zz, tt) \in Loose
<1>1. fe_sub(plus, minus) \in Factor /\ fe_add(plus, minus) \in Factor
  BY Sums
<1>2. fe_add(zz, tt) \in Factor /\ fe_sub(zz, tt) \in Factor
  BY Limits, SumTame DEF Product, Factor
<1> QED BY <1>1, <1>2 DEF Completed, Loose

LEMMA AddLoose ==
    ASSUME NEW p \in TightP3, NEW q \in TightCached
    PROVE  ge_add(p, q) \in Loose
<1>1. /\ p.X \in Product /\ p.Y \in Product /\ p.Z \in Product /\ p.T \in Product
      /\ q.YplusX \in Factor /\ q.YminusX \in Factor /\ q.Z \in Product /\ q.T2d \in Product
  BY DEF TightP3, TightCached
<1>2. fe_add(p.Y, p.X) \in Factor /\ fe_sub(p.Y, p.X) \in Factor
  BY <1>1, Sums
<1>3. /\ fe_mul(fe_add(p.Y, p.X), q.YplusX) \in Product
      /\ fe_mul(fe_sub(p.Y, p.X), q.YminusX) \in Product
      /\ fe_mul(p.Z, q.Z) \in Product /\ fe_mul(q.T2d, p.T) \in Product
  BY <1>1, <1>2, Nested, ProductTight
<1>4. Twice(fe_mul(p.Z, q.Z)) \in Tame(202)
  BY <1>3, Sums DEF Twice
<1> QED BY <1>3, <1>4, CompletedLoose DEF ge_add

LEMMA MaddLoose ==
    ASSUME NEW p \in TightP3, NEW q \in TightEntry
    PROVE  ge_madd(p, q) \in Loose
<1>1. /\ p.X \in Product /\ p.Y \in Product /\ p.Z \in Product /\ p.T \in Product
      /\ q.yplusx \in Product /\ q.yminusx \in Product /\ q.xy2d \in Product
  BY DEF TightP3, TightEntry
<1>2. fe_add(p.Y, p.X) \in Factor /\ fe_sub(p.Y, p.X) \in Factor
  BY <1>1, Sums
<1>3. /\ fe_mul(fe_add(p.Y, p.X), q.yplusx) \in Product
      /\ fe_mul(fe_sub(p.Y, p.X), q.yminusx) \in Product
      /\ fe_mul(q.xy2d, p.T) \in Product
  BY <1>1, <1>2, Nested, ProductTight
<1>4. Twice(p.Z) \in Tame(202)
  BY <1>1, Sums DEF Twice
<1> QED BY <1>3, <1>4, CompletedLoose DEF ge_madd

LEMMA DoubleLoose ==
    ASSUME NEW p \in TightP2
    PROVE  ge_p2_dbl(p) \in Loose
<1> DEFINE xx == fe_sq(p.X)
           yy == fe_sq(p.Y)
           Y == fe_add(yy, xx)
           Z == fe_sub(yy, xx)
           X == fe_sub(fe_sq(fe_add(p.X, p.Y)), Y)
           T == fe_sub(fe_sq2(p.Z), Z)
<1>1. p.X \in Product /\ p.Y \in Product /\ p.Z \in Product
  BY DEF TightP2
<1>2. xx \in Product /\ yy \in Product /\ fe_sq2(p.Z) \in Product
  BY <1>1, Nested, ProductTight
<1>3. Y \in Factor /\ Z \in Factor /\ Y \in Tame(202) /\ Z \in Tame(202)
  BY <1>2, Sums
<1>4. fe_sq(fe_add(p.X, p.Y)) \in Product
  BY <1>1, Sums, ProductTight
<1>5. ge_p2_dbl(p) = [X |-> X, Y |-> Y, Z |-> Z, T |-> T]
  BY DEF ge_p2_dbl
<1> HIDE DEF xx, yy, Y, Z
<1>6. X \in Factor /\ T \in Factor
  BY <1>2, <1>3, <1>4, Limits, SumTame DEF Product, Factor
<1> HIDE DEF X, T
<1> QED BY <1>3, <1>5, <1>6 DEF Loose

-----------------------------------------------------------------------------
(* The loops over points *)

LEMMA DoubleClosed ==
    ASSUME NEW q \in ge_p2
    PROVE  ge_p1p1_to_p2(ge_p2_dbl(q)) \in ge_p2
<1> DEFINE xx == fe_sq(q.X)
           yy == fe_sq(q.Y)
           Y == fe_add(yy, xx)
           Z == fe_sub(yy, xx)
           X == fe_sub(fe_sq(fe_add(q.X, q.Y)), Y)
           T == fe_sub(fe_sq2(q.Z), Z)
<1>1. q.X \in Element /\ q.Y \in Element /\ q.Z \in Element
  BY DEF ge_p2
<1>2. /\ xx \in Element /\ yy \in Element /\ fe_sq2(q.Z) \in Element
      /\ fe_add(q.X, q.Y) \in Element
  BY <1>1, Closed
<1>3. Y \in Element /\ Z \in Element /\ fe_sq(fe_add(q.X, q.Y)) \in Element
  BY <1>2, Closed
<1>4. ge_p2_dbl(q) = [X |-> X, Y |-> Y, Z |-> Z, T |-> T]
  BY DEF ge_p2_dbl
<1> HIDE DEF xx, yy, Y, Z
<1>5. X \in Element /\ T \in Element
  BY <1>2, <1>3, Closed
<1> HIDE DEF X, T
<1>6. fe_mul(X, T) \in Element /\ fe_mul(Y, Z) \in Element /\ fe_mul(Z, T) \in Element
  BY <1>3, <1>5, Closed
<1> QED BY <1>4, <1>6 DEF ge_p1p1_to_p2, ge_p2

\* Doubling any number of times ends with factors.
LEMMA DoubledLoose ==
    ASSUME NEW n \in Nat \ {0}, NEW p \in TightP2
    PROVE  Doubled(p, n) \in Loose
<1> DEFINE N == n - 1
           next(q) == ge_p1p1_to_p2(ge_p2_dbl(q))
           last == [q \in ge_p2 |-> ge_p2_dbl(q)]
           R == {ge_p2_dbl(q) : q \in ge_p2}
           f == [i \in 1 .. N |-> [q \in ge_p2 |-> next(q)]]
           Loop(r) == r = [i \in 0 .. N |->
                             [q \in ge_p2 |-> IF i = 0 THEN ge_p2_dbl(q) ELSE r[i - 1][next(q)]]]
           chosen == CHOOSE r : Loop(r)
<1>1. /\ \A i \in 1 .. N : \A q \in ge_p2 : f[i][q] = next(q)
      /\ \A q \in ge_p2 : last[q] = ge_p2_dbl(q)
      /\ N \in Nat
  OBVIOUS
<1>2. IsSteps(f, N, ge_p2)
  <2>1. \A q \in ge_p2 : next(q) \in ge_p2
    BY DoubleClosed
  <2> HIDE DEF next, N
  <2> QED BY <2>1 DEF IsSteps
<1>3. last \in [ge_p2 -> R]
  OBVIOUS
<1>4. \E r : Loop(r)
  <2> HIDE DEF f, last, next, N, R
  <2>1. PICK r \in [0 .. N -> [ge_p2 -> R]] : IsTail(r, last, f, N, ge_p2)
    BY <1>1, <1>2, <1>3, TailExists
  <2>2. \A q \in ge_p2 : r[0][q] = ge_p2_dbl(q)
    BY <1>1, <2>1 DEF IsTail
  <2>3. \A i \in 1 .. N : \A q \in ge_p2 : r[i][q] = r[i - 1][next(q)]
    BY <1>1, <2>1 DEF IsTail
  <2>4. \A i \in 0 .. N : \A q \in ge_p2 :
          r[i][q] = IF i = 0 THEN ge_p2_dbl(q) ELSE r[i - 1][next(q)]
    BY <1>1, <2>2, <2>3
  <2>5. \A i \in 0 .. N : r[i] = [q \in ge_p2 |-> r[i][q]]
    BY <2>1
  <2>6. \A i \in 0 .. N :
          r[i] = [q \in ge_p2 |-> IF i = 0 THEN ge_p2_dbl(q) ELSE r[i - 1][next(q)]]
    BY <2>4, <2>5
  <2>7. r = [i \in 0 .. N |-> r[i]]
    BY <2>1
  <2>8. [i \in 0 .. N |-> r[i]]
          = [i \in 0 .. N |->
               [q \in ge_p2 |-> IF i = 0 THEN ge_p2_dbl(q) ELSE r[i - 1][next(q)]]]
    BY <2>6
  <2> QED BY <2>7, <2>8
<1>5. Loop(chosen)
  <2> HIDE DEF Loop
  <2> QED BY <1>4
<1>6. Doubled(p, n) = chosen[N][p]
  BY DEF Doubled
<1> HIDE DEF f, last, chosen, next, N
<1>7. IsTail(chosen, last, f, N, ge_p2)
  <2>1. \A q \in ge_p2 : chosen[0][q] = ge_p2_dbl(q)
    <3>1. 0 \in 0 .. N
      BY <1>1
    <3>2. chosen[0] = [q \in ge_p2 |-> IF 0 = 0 THEN ge_p2_dbl(q) ELSE chosen[0 - 1][next(q)]]
      BY <1>5, <3>1
    <3> QED BY <3>2
  <2>2. ASSUME NEW i \in 1 .. N, NEW q \in ge_p2
        PROVE  chosen[i][q] = chosen[i - 1][next(q)]
    <3>1. i \in 0 .. N /\ i # 0
      BY <1>1
    <3>2. chosen[i] = [h \in ge_p2 |-> IF i = 0 THEN ge_p2_dbl(h) ELSE chosen[i - 1][next(h)]]
      BY <1>5, <3>1
    <3> QED BY <3>1, <3>2
  <2> QED BY <1>1, <2>1, <2>2 DEF IsTail
<1>8. Keep(f, N, TightP2, ge_p2)
  <2>1. \A q \in TightP2 : next(q) \in TightP2
    BY DoubleLoose, Converted DEF next
  <2>2. \A q \in TightP2 : q \in ge_p2
    BY PointTypes
  <2> QED BY <1>1, <2>1, <2>2 DEF Keep
<1>9. Turn(last, TightP2, Loose)
  <2>1. \A q \in TightP2 : q \in ge_p2
    BY PointTypes
  <2> QED BY <1>1, <2>1, DoubleLoose DEF Turn
<1>10. Turn(chosen[N], TightP2, Loose)
  <2> HIDE DEF Loop
  <2> QED BY <1>1, <1>7, <1>8, <1>9, TailKeeps
<1> QED BY <1>6, <1>10 DEF Turn

-----------------------------------------------------------------------------
(* The table *)

LEMMA EntryTight ==
    ASSUME NEW p \in TightP3
    PROVE  cached_to_precomp(ge_p3_to_cached(p)) \in TightEntry
<1> DEFINE q == ge_p3_to_cached(p)
<1>1. q.YplusX \in Factor /\ q.YminusX \in Factor /\ q.Z \in Product /\ q.T2d \in Product
  BY CachedTight DEF TightCached
<1> HIDE DEF q
<1>2. fe_invert(q.Z) \in Product
  BY <1>1, InverseTight, Nested
<1>3. /\ fe_mul(q.YplusX, fe_invert(q.Z)) \in Product
      /\ fe_mul(q.YminusX, fe_invert(q.Z)) \in Product
      /\ fe_mul(q.T2d, fe_invert(q.Z)) \in Product
  BY <1>1, <1>2, Nested, ProductTight
<1>4. cached_to_precomp(q) \in TightEntry
  BY <1>3 DEF cached_to_precomp, TightEntry
<1> QED BY <1>4 DEF q

\* A row of multiples is a row of products.
LEMMA RowTight ==
    ASSUME NEW b \in TightCached
    PROVE  compute_row(b) \in [Column -> TightEntry]
<1> DEFINE next(p) == ge_p1p1_to_p3(ge_add(p, b))
           f == [i \in 1 .. 8 |-> [p \in TightP3 |-> next(p)]]
           Loop(r) == r = [n \in 0 .. 8 |-> IF n = 0 THEN ge_p3_0 ELSE next(r[n - 1])]
           chosen == CHOOSE r : Loop(r)
<1>1. \A p \in TightP3 : next(p) \in TightP3
  BY AddLoose, Converted
<1>2. ge_p3_0 \in TightP3
  BY PointTypes
<1>3. compute_row(b)
        = [j \in Column |-> cached_to_precomp(ge_p3_to_cached(chosen[j + 1]))]
  BY DEF compute_row
<1> HIDE DEF next
<1>4. IsSteps(f, 8, TightP3) /\ \A i \in 1 .. 8 : \A p \in TightP3 : f[i][p] = next(p)
  BY <1>1 DEF IsSteps
<1>5. \E r : Loop(r)
  <2> HIDE DEF f
  <2>1. PICK r : IsRun(r, f, 8, ge_p3_0, TightP3)
    BY <1>2, <1>4, StepsExist
  <2>2. r \in [0 .. 8 -> TightP3] /\ r[0] = ge_p3_0
    BY <2>1 DEF IsRun
  <2>3. ASSUME NEW n \in 1 .. 8 PROVE r[n] = next(r[n - 1])
    <3>1. r[n - 1] \in TightP3
      BY <2>2
    <3>2. r[n] = f[n][r[n - 1]]
      BY <2>1 DEF IsRun
    <3> QED BY <1>4, <3>1, <3>2
  <2>4. \A n \in 0 .. 8 : r[n] = IF n = 0 THEN ge_p3_0 ELSE next(r[n - 1])
    BY <2>2, <2>3
  <2>5. r = [n \in 0 .. 8 |-> r[n]]
    BY <2>2
  <2>6. [n \in 0 .. 8 |-> r[n]]
          = [n \in 0 .. 8 |-> IF n = 0 THEN ge_p3_0 ELSE next(r[n - 1])]
    BY <2>4
  <2> QED BY <2>5, <2>6
<1>6. Loop(chosen)
  <2> HIDE DEF Loop
  <2> QED BY <1>5
<1> HIDE DEF chosen
<1>7. chosen[0] = ge_p3_0 /\ \A n \in 1 .. 8 : chosen[n] = next(chosen[n - 1])
  BY <1>6
<1> DEFINE A == {n \in Nat : n <= 8 => chosen[n] \in TightP3}
<1>8. 0 \in A
  BY <1>2, <1>7
<1>9. ASSUME NEW n \in Nat, n \in A PROVE n + 1 \in A
  <2> SUFFICES ASSUME n + 1 <= 8 PROVE chosen[n + 1] \in TightP3
    OBVIOUS
  <2>1. chosen[n] \in TightP3
    BY <1>9
  <2>2. n + 1 \in 1 .. 8 /\ (n + 1) - 1 = n
    OBVIOUS
  <2>3. chosen[n + 1] = next(chosen[n])
    BY <1>7, <2>2
  <2> QED BY <1>1, <2>1, <2>3
<1>10. \A n \in Nat : n \in A
  <2> HIDE DEF A
  <2> QED BY <1>8, <1>9, SetInduction
<1>11. \A j \in Column : chosen[j + 1] \in TightP3
  BY <1>10 DEF Column
<1> QED BY <1>3, <1>11, EntryTight

Table == [Row -> [Column -> TightEntry]]

\* An entry of the row, negated or not, for every digit there can be.
LEMMA SelectTight ==
    ASSUME NEW row \in [Column -> TightEntry], NEW b \in -8 .. 8
    PROVE  select(row, b) \in TightEntry
<1> DEFINE one == [yplusx |-> fe_1, yminusx |-> fe_1, xy2d |-> fe_0]
           place == IF b < 0 THEN -b ELSE b
           t == IF b = 0 THEN one ELSE row[place - 1]
<1>1. one \in TightEntry
  BY ConstantsTight DEF TightEntry
<1>2. t \in TightEntry
  <2>1. CASE b = 0
    BY <1>1, <2>1
  <2>2. CASE b # 0
    <3>1. place - 1 \in Column
      BY <2>2 DEF Column
    <3>2. row[place - 1] \in TightEntry
      BY <3>1
    <3> QED BY <2>2, <3>2
  <2> QED BY <2>1, <2>2
<1>3. select(row, b) = IF b < 0
                       THEN [yplusx |-> t.yminusx, yminusx |-> t.yplusx, xy2d |-> fe_neg(t.xy2d)]
                       ELSE t
  BY DEF select
<1> HIDE DEF t
<1>4. t.yplusx \in Product /\ t.yminusx \in Product /\ t.xy2d \in Product
  BY <1>2 DEF TightEntry
<1>5. fe_neg(t.xy2d) \in Product
  BY <1>4, Limits, OppositeTame DEF Product
<1>6. [yplusx |-> t.yminusx, yminusx |-> t.yplusx, xy2d |-> fe_neg(t.xy2d)] \in TightEntry
  BY <1>4, <1>5 DEF TightEntry
<1> QED BY <1>2, <1>3, <1>6

-----------------------------------------------------------------------------
(* The digits of a scalar *)

Scalar == 0 .. TopBit - 1

LEMMA ScalarTypes == TopBit \in Nat /\ TopBit > 0 /\ Prime \in Nat /\ Prime < TopBit
BY PrimeAssumption DEF TopBit

LEMMA NibbleType ==
    ASSUME NEW a \in Scalar, NEW i \in 0 .. 2 * Bytes - 1
    PROVE  Nibble(a, i) \in 0 .. 15 /\ (i = 2 * Bytes - 1 => Nibble(a, i) <= 7)
<1> DEFINE power == 16^i
<1>1. power \in Nat \ {0} /\ a \in Nat
  BY BytesAssumption, ScalarTypes DEF Scalar
<1>2. i = 2 * Bytes - 1 => a < 8 * power
  BY BytesAssumption, ScalarTypes DEF Scalar, TopBit
<1>3. Nibble(a, i) = (a \div power) % 16
  BY DEF Nibble
<1> HIDE DEF power
<1>4. a \div power \in Nat
  BY <1>1
<1>5. ASSUME a < 8 * power PROVE (a \div power) \in 0 .. 7
  BY <1>1, <1>4, <1>5
<1> QED BY <1>2, <1>3, <1>4, <1>5

\* Every digit is one that select knows, as the comments of ge_scalarmult_base
\* say (ge.c:399-411): the carry out of a digit is 0 or 1, and the highest digit
\* of a scalar is at most 7 before it.
THEOREM DigitsType ==
    ASSUME NEW a \in Scalar
    PROVE  \A i \in 0 .. 2 * Bytes - 1 : Digits(a)[i] \in -8 .. 8
<1> DEFINE N == 2 * Bytes - 1
           next(i, c) == (Nibble(a, i - 1) + c + 8) \div 16
           f == [i \in 1 .. N |-> [c \in {0, 1} |-> next(i, c)]]
           Loop(r) == r = [i \in 0 .. N |-> IF i = 0 THEN 0 ELSE next(i, r[i - 1])]
           chosen == CHOOSE r : Loop(r)
           digit(i) == Nibble(a, i) + chosen[i]
                       - (IF i < N THEN 16 * chosen[i + 1] ELSE 0)
<1>1. N \in Nat
  BY BytesAssumption
<1>2. \A i \in 0 .. N : Nibble(a, i) \in 0 .. 15 /\ (i = N => Nibble(a, i) <= 7)
  BY NibbleType
<1>3. Digits(a) = [i \in 0 .. N |-> digit(i)]
  BY DEF Digits
<1> HIDE DEF N
<1>4. ASSUME NEW i \in 1 .. N, NEW c \in {0, 1} PROVE next(i, c) \in {0, 1}
  <2>1. i - 1 \in 0 .. N
    BY <1>1
  <2>2. Nibble(a, i - 1) \in 0 .. 15
    BY <1>2, <2>1
  <2> QED BY <2>2
<1> HIDE DEF next
<1>5. IsSteps(f, N, {0, 1}) /\ \A i \in 1 .. N : \A c \in {0, 1} : f[i][c] = next(i, c)
  BY <1>4 DEF IsSteps
<1>6. \E r : Loop(r)
  <2> HIDE DEF f
  <2>1. 0 \in {0, 1}
    OBVIOUS
  <2>2. PICK r : IsRun(r, f, N, 0, {0, 1})
    BY <1>1, <1>5, <2>1, StepsExist
  <2>3. r \in [0 .. N -> {0, 1}] /\ r[0] = 0
    BY <2>2 DEF IsRun
  <2>4. ASSUME NEW i \in 1 .. N PROVE r[i] = next(i, r[i - 1])
    <3>1. i - 1 \in 0 .. N
      BY <1>1
    <3>2. r[i - 1] \in {0, 1}
      BY <2>3, <3>1
    <3>3. r[i] = f[i][r[i - 1]]
      BY <2>2 DEF IsRun
    <3> QED BY <1>5, <3>2, <3>3
  <2>5. \A i \in 0 .. N : r[i] = IF i = 0 THEN 0 ELSE next(i, r[i - 1])
    BY <1>1, <2>3, <2>4
  <2>6. r = [i \in 0 .. N |-> r[i]]
    BY <2>3
  <2>7. [i \in 0 .. N |-> r[i]] = [i \in 0 .. N |-> IF i = 0 THEN 0 ELSE next(i, r[i - 1])]
    BY <2>5
  <2> QED BY <2>6, <2>7
<1>7. Loop(chosen)
  <2> HIDE DEF Loop
  <2> QED BY <1>6
<1> HIDE DEF chosen
<1>8. chosen[0] = 0 /\ \A i \in 1 .. N : chosen[i] = next(i, chosen[i - 1])
  BY <1>1, <1>7
<1> DEFINE A == {n \in Nat : n <= N => chosen[n] \in {0, 1}}
<1>9. 0 \in A
  BY <1>8
<1>10. ASSUME NEW n \in Nat, n \in A PROVE n + 1 \in A
  <2> SUFFICES ASSUME n + 1 <= N PROVE chosen[n + 1] \in {0, 1}
    OBVIOUS
  <2>1. chosen[n] \in {0, 1}
    BY <1>1, <1>10
  <2>2. n + 1 \in 1 .. N /\ (n + 1) - 1 = n
    BY <1>1
  <2>3. chosen[n + 1] = next(n + 1, chosen[n])
    BY <1>8, <2>2
  <2> QED BY <1>4, <2>1, <2>2, <2>3
<1>11. \A i \in 0 .. N : chosen[i] \in {0, 1}
  <2>1. \A n \in Nat : n \in A
    <3> HIDE DEF A
    <3> QED BY <1>9, <1>10, SetInduction
  <2> QED BY <1>1, <2>1
<1>12. ASSUME NEW i \in 0 .. N PROVE digit(i) \in -8 .. 8
  <2>1. Nibble(a, i) \in 0 .. 15 /\ chosen[i] \in {0, 1}
    BY <1>2, <1>11
  <2>2. CASE i = N
    <3>1. Nibble(a, i) <= 7
      BY <1>2, <2>2
    <3> QED BY <1>1, <2>1, <2>2, <3>1
  <2>3. CASE i # N
    <3>1. i < N /\ i + 1 \in 1 .. N /\ (i + 1) - 1 = i
      BY <1>1, <2>3
    <3>2. chosen[i + 1] = (Nibble(a, i) + chosen[i] + 8) \div 16
      BY <1>8, <3>1 DEF next
    <3> QED BY <2>1, <3>1, <3>2
  <2> QED BY <2>2, <2>3
<1> HIDE DEF digit
<1> QED BY <1>3, <1>12 DEF N

-----------------------------------------------------------------------------
(* Multiples of the base point *)

LEMMA MaddClosed ==
    ASSUME NEW p \in ge_p3, NEW q \in ge_precomp
    PROVE  ge_p1p1_to_p3(ge_madd(p, q)) \in ge_p3
<1> DEFINE plus == fe_mul(fe_add(p.Y, p.X), q.yplusx)
           minus == fe_mul(fe_sub(p.Y, p.X), q.yminusx)
           zz == Twice(p.Z)
           tt == fe_mul(q.xy2d, p.T)
           X == fe_sub(plus, minus)
           Y == fe_add(plus, minus)
           Z == fe_add(zz, tt)
           T == fe_sub(zz, tt)
<1>1. /\ p.X \in Element /\ p.Y \in Element /\ p.Z \in Element /\ p.T \in Element
      /\ q.yplusx \in Element /\ q.yminusx \in Element /\ q.xy2d \in Element
  BY DEF ge_p3, ge_precomp
<1>2. fe_add(p.Y, p.X) \in Element /\ fe_sub(p.Y, p.X) \in Element
  BY <1>1, Closed
<1>3. plus \in Element /\ minus \in Element /\ zz \in Element /\ tt \in Element
  BY <1>1, <1>2, Closed DEF Twice
<1>4. ge_madd(p, q) = [X |-> X, Y |-> Y, Z |-> Z, T |-> T]
  BY DEF ge_madd, Completed
<1> HIDE DEF plus, minus, zz, tt
<1>5. X \in Element /\ Y \in Element /\ Z \in Element /\ T \in Element
  BY <1>3, Closed
<1> HIDE DEF X, Y, Z, T
<1>6. /\ fe_mul(X, T) \in Element /\ fe_mul(Y, Z) \in Element
      /\ fe_mul(Z, T) \in Element /\ fe_mul(X, Y) \in Element
  BY <1>5, Closed
<1> QED BY <1>4, <1>6 DEF ge_p1p1_to_p3, ge_p3

\* Adding one entry of every row.
LEMMA SumTight ==
    ASSUME NEW h \in TightP3, NEW table \in Table, NEW e, NEW first \in {0, 1},
           \A i \in 0 .. 2 * Bytes - 1 : e[i] \in -8 .. 8
    PROVE  AddSelected(h, table, e, first) \in TightP3
<1> DEFINE N == Bytes
           entry(i) == select(table[i], e[2 * i + first])
           next(i, p) == ge_p1p1_to_p3(ge_madd(p, entry(N - i)))
           id == [p \in ge_p3 |-> p]
           f == [i \in 1 .. N |-> [p \in ge_p3 |-> next(i, p)]]
           Loop(s) == s = [left \in 0 .. N |->
                             [p \in ge_p3 |-> IF left = 0 THEN p ELSE s[left - 1][next(left, p)]]]
           chosen == CHOOSE s : Loop(s)
<1>1. N \in Nat
  BY BytesAssumption
<1>2. AddSelected(h, table, e, first) = chosen[N][h]
  BY DEF AddSelected
<1>3. \A i \in 1 .. N : entry(N - i) \in TightEntry
  <2> SUFFICES ASSUME NEW i \in 1 .. N PROVE entry(N - i) \in TightEntry
    OBVIOUS
  <2>1. N - i \in Row /\ 2 * (N - i) + first \in 0 .. 2 * N - 1
    BY <1>1 DEF Row
  <2>2. table[N - i] \in [Column -> TightEntry] /\ e[2 * (N - i) + first] \in -8 .. 8
    BY <2>1 DEF Table
  <2> QED BY <2>2, SelectTight
<1> HIDE DEF entry, N
<1>4. \A i \in 1 .. N : \A p \in ge_p3 : next(i, p) \in ge_p3
  <2>1. \A i \in 1 .. N : entry(N - i) \in ge_precomp
    BY <1>3, PointTypes
  <2> QED BY <2>1, MaddClosed
<1>5. \A i \in 1 .. N : \A p \in TightP3 : next(i, p) \in TightP3
  BY <1>3, MaddLoose, Converted
<1> HIDE DEF next
<1>6. /\ \A i \in 1 .. N : \A p \in ge_p3 : f[i][p] = next(i, p)
      /\ \A p \in ge_p3 : id[p] = p
      /\ id \in [ge_p3 -> ge_p3]
  OBVIOUS
<1>7. IsSteps(f, N, ge_p3)
  BY <1>4 DEF IsSteps
<1>8. \E s : Loop(s)
  <2> HIDE DEF f, id
  <2>1. PICK s \in [0 .. N -> [ge_p3 -> ge_p3]] : IsTail(s, id, f, N, ge_p3)
    BY <1>1, <1>6, <1>7, TailExists
  <2>2. \A p \in ge_p3 : s[0][p] = p
    BY <1>6, <2>1 DEF IsTail
  <2>3. \A i \in 1 .. N : \A p \in ge_p3 : s[i][p] = s[i - 1][next(i, p)]
    BY <1>6, <2>1 DEF IsTail
  <2>4. \A i \in 0 .. N : \A p \in ge_p3 :
          s[i][p] = IF i = 0 THEN p ELSE s[i - 1][next(i, p)]
    BY <1>1, <2>2, <2>3
  <2>5. \A i \in 0 .. N : s[i] = [p \in ge_p3 |-> s[i][p]]
    BY <2>1
  <2>6. \A i \in 0 .. N :
          s[i] = [p \in ge_p3 |-> IF i = 0 THEN p ELSE s[i - 1][next(i, p)]]
    BY <2>4, <2>5
  <2>7. s = [i \in 0 .. N |-> s[i]]
    BY <2>1
  <2>8. [i \in 0 .. N |-> s[i]]
          = [i \in 0 .. N |-> [p \in ge_p3 |-> IF i = 0 THEN p ELSE s[i - 1][next(i, p)]]]
    BY <2>6
  <2> QED BY <2>7, <2>8
<1>9. Loop(chosen)
  <2> HIDE DEF Loop
  <2> QED BY <1>8
<1> HIDE DEF f, id, chosen
<1>10. IsTail(chosen, id, f, N, ge_p3)
  <2>1. \A p \in ge_p3 : chosen[0][p] = p
    <3>1. 0 \in 0 .. N
      BY <1>1
    <3>2. chosen[0] = [p \in ge_p3 |-> IF 0 = 0 THEN p ELSE chosen[0 - 1][next(0, p)]]
      BY <1>9, <3>1
    <3> QED BY <3>2
  <2>2. ASSUME NEW i \in 1 .. N, NEW p \in ge_p3
        PROVE  chosen[i][p] = chosen[i - 1][next(i, p)]
    <3>1. i \in 0 .. N /\ i # 0
      BY <1>1
    <3>2. chosen[i] = [q \in ge_p3 |-> IF i = 0 THEN q ELSE chosen[i - 1][next(i, q)]]
      BY <1>9, <3>1
    <3> QED BY <3>1, <3>2
  <2> QED BY <1>6, <2>1, <2>2 DEF IsTail
<1>11. Keep(f, N, TightP3, ge_p3)
  BY <1>5, <1>6, PointTypes DEF Keep
<1>12. Turn(id, TightP3, TightP3)
  BY <1>6, PointTypes DEF Turn
<1>13. Turn(chosen[N], TightP3, TightP3)
  <2> HIDE DEF Loop
  <2> QED BY <1>1, <1>10, <1>11, <1>12, TailKeeps
<1> QED BY <1>2, <1>13 DEF Turn

\* The multiple of a scalar is as tight as the table it is added up from.
LEMMA MultipleTight ==
    ASSUME NEW table \in Table, NEW a \in Scalar
    PROVE  ge_scalarmult_base(table, a) \in TightP3
<1> DEFINE e == Digits(a)
           odd == AddSelected(ge_p3_0, table, e, 1)
           shifted == ge_p1p1_to_p3(Doubled(ge_p3_to_p2(odd), 4))
<1>1. \A i \in 0 .. 2 * Bytes - 1 : e[i] \in -8 .. 8
  BY DigitsType
<1>2. ge_scalarmult_base(table, a) = AddSelected(shifted, table, e, 0)
  BY DEF ge_scalarmult_base
<1> HIDE DEF e
<1>3. odd \in TightP3
  BY <1>1, PointTypes, SumTight
<1>4. shifted \in TightP3
  BY <1>3, Projected, DoubledLoose, Converted
<1> HIDE DEF shifted
<1> QED BY <1>1, <1>2, <1>4, SumTight

Encoding == 0 .. 2 * TopBit - 1

LEMMA EncodingType ==
    ASSUME NEW h \in TightP3
    PROVE  ge_p3_tobytes(h) \in Encoding
<1> DEFINE recip == fe_invert(h.Z)
           x == fe_mul(h.X, recip)
           y == fe_mul(h.Y, recip)
<1>1. h.X \in Product /\ h.Y \in Product /\ h.Z \in Product
  BY DEF TightP3
<1>2. recip \in Product
  BY <1>1, InverseTight, Nested
<1>3. x \in Product /\ y \in Product
  BY <1>1, <1>2, Nested, ProductTight
<1>4. ge_p3_tobytes(h) = fe_tobytes(y) + TopBit * fe_isnegative(x)
  <2> DEFINE affine == [h EXCEPT !.X = fe_mul(@, recip), !.Y = fe_mul(@, recip)]
  <2>1. affine.X = x /\ affine.Y = y
    BY DEF TightP3
  <2>2. ge_tobytes(h) = fe_tobytes(affine.Y) + TopBit * fe_isnegative(affine.X)
    BY DEF ge_tobytes
  <2> HIDE DEF affine, x, y
  <2> QED BY <2>1, <2>2 DEF ge_p3_tobytes
<1> HIDE DEF recip, x, y
<1>5. fe_tobytes(x) \in 0 .. Prime - 1 /\ fe_tobytes(y) \in 0 .. Prime - 1
  BY <1>3, Limits, TameFields DEF fe_tobytes, Product
<1>6. fe_isnegative(x) \in {0, 1}
  BY <1>3, Limits, TameFields DEF fe_isnegative, Product
<1>7. TopBit * fe_isnegative(x) \in {0, TopBit}
  BY <1>6, ScalarTypes
<1> QED BY <1>4, <1>5, <1>7, ScalarTypes DEF Encoding

-----------------------------------------------------------------------------
(* The invariant *)

\* What the hash and the arithmetic modulo the order are taken to give: a digest
\* is two halves, and a scalar that was reduced has its top bit clear.
Digest == 0 .. 2^Half - 1

ScalarsFit ==
    /\ \A parts \in Seq(Nat) : Hash(parts) \in Digest \X Digest
    /\ \A h \in Digest \X Digest : sc_reduce(h) \in Scalar
    /\ \A a, b, c \in Scalar : sc_muladd(a, b, c) \in Scalar

LEMMA HashTypes ==
    ASSUME ScalarsFit, NEW parts \in Seq(Nat)
    PROVE  /\ Hash(parts)[1] \in Nat /\ Hash(parts)[2] \in Nat
           /\ sc_reduce(Hash(parts)) \in Scalar
<1>1. Hash(parts) \in Digest \X Digest
  BY DEF ScalarsFit
<1>2. \A n \in Digest : n \in Nat
  BY DEF Digest
<1>3. Hash(parts)[1] \in Digest /\ Hash(parts)[2] \in Digest
  BY <1>1
<1> QED BY <1>1, <1>2, <1>3 DEF ScalarsFit

Pairs ==
    \A k \in keys : k.a \in Scalar /\ k.prefix \in Nat /\ k.pub \in Encoding

Signatures ==
    \A s \in sigs : s.msg \in Messages /\ s.sig.R \in Encoding /\ s.sig.S \in Scalar

IInv ==
    /\ base \in Table
    /\ active_row \in 0 .. Bytes
    /\ p3 \in TightP3
    /\ Pairs
    /\ Signatures

LEMMA InitFits == Init => IInv
<1> SUFFICES ASSUME Init PROVE IInv
  OBVIOUS
<1>1. base \in Table
  BY PointTypes DEF Init, Table
<1>2. Bi0 \in TightCached
  <2>1. Bi[0].yplusx \in Numbers /\ Bi[0].yminusx \in Numbers /\ Bi[0].xy2d \in Numbers
    BY NumbersAssumption
  <2> QED BY <2>1, ConstantsTight, Nested DEF Bi0, TightCached
<1>3. p3 \in TightP3
  BY <1>2, PointTypes, AddLoose, Converted DEF Init
<1>4. active_row \in 0 .. Bytes
  BY BytesAssumption DEF Init
<1> QED BY <1>1, <1>3, <1>4 DEF IInv, Init, Pairs, Signatures

LEMMA ComputeRowFits == IInv /\ ComputeRow => IInv'
<1> SUFFICES ASSUME IInv, ComputeRow PROVE IInv'
  OBVIOUS
<1>1. base \in Table /\ p3 \in TightP3 /\ active_row \in Row
  BY DEF IInv, ComputeRow
<1>2. compute_row(ge_p3_to_cached(p3)) \in [Column -> TightEntry]
  BY <1>1, CachedTight, RowTight
<1>3. base' \in Table
  BY <1>1, <1>2 DEF ComputeRow, Table
<1>4. p3' \in TightP3
  <2>1. Doubled(ge_p3_to_p2(p3), 8) \in Loose
    BY <1>1, Projected, DoubledLoose
  <2> QED BY <2>1, Converted DEF ComputeRow
<1>5. active_row' \in 0 .. Bytes
  BY <1>1, BytesAssumption DEF ComputeRow, Row
<1> QED BY <1>3, <1>4, <1>5 DEF ComputeRow, IInv, Pairs, Signatures

\* A scalar that was clamped is one of Bytes bytes with the top bit clear.
LEMMA ClampType ==
    ASSUME NEW a \in Nat
    PROVE  Clamp(a) \in Scalar
<1> DEFINE half == TopBit \div 2
<1>1. half \in Nat /\ half > 7 /\ 2 * half <= TopBit
  BY PrimeAssumption DEF TopBit
<1>2. Clamp(a) = (a % half) - (a % 8) + half
  BY DEF Clamp
<1> HIDE DEF half
<1>3. a % half \in 0 .. half - 1 /\ a % 8 \in 0 .. 7
  BY <1>1
<1> QED BY <1>1, <1>2, <1>3, ScalarTypes DEF Scalar

LEMMA PublicType ==
    ASSUME base \in Table, NEW a \in Scalar
    PROVE  PublicOf(a) \in Encoding
BY MultipleTight, EncodingType DEF PublicOf

LEMMA GenerateFits ==
    ASSUME ScalarsFit, IInv, NEW seed \in Seeds, Generate(seed)
    PROVE  IInv'
<1> DEFINE h == Hash(<<seed>>)
           k == ed25519_create_keypair(seed)
<1>1. h[1] \in Nat /\ h[2] \in Nat
  <2>1. <<seed>> \in Seq(Nat)
    BY Ed25519Assumption
  <2> QED BY <2>1, HashTypes
<1>2. Clamp(h[1]) \in Scalar
  BY <1>1, ClampType
<1>3. PublicOf(Clamp(h[1])) \in Encoding
  BY <1>2, PublicType DEF IInv
<1>4. k.a = Clamp(h[1]) /\ k.prefix = h[2] /\ k.pub = PublicOf(Clamp(h[1]))
  BY DEF ed25519_create_keypair
<1> HIDE DEF h, k
<1>5. Pairs'
  <2>1. keys' = keys \cup {k}
    BY DEF Generate, k
  <2>2. \A l \in keys : l.a \in Scalar /\ l.prefix \in Nat /\ l.pub \in Encoding
    BY DEF IInv, Pairs
  <2> QED BY <1>1, <1>2, <1>3, <1>4, <2>1, <2>2 DEF Pairs
<1> QED BY <1>5 DEF Generate, IInv, Signatures

LEMMA MaskedType ==
    ASSUME NEW n \in Tweaks
    PROVE  Masked(n) \in Scalar
<1>1. n \in Nat
  BY Ed25519Assumption
<1> QED BY <1>1, ScalarTypes DEF Masked, Scalar

LEMMA AddScalarFits ==
    ASSUME ScalarsFit, IInv, NEW k \in keys, NEW n \in Tweaks, AddScalar(k, n)
    PROVE  IInv'
<1> DEFINE l == AddToPair(k, n)
           a == sc_muladd(1, Masked(n), k.a)
           h == Hash(<<k.prefix, n>>)
<1>1. k.a \in Scalar /\ k.prefix \in Nat
  BY DEF IInv, Pairs
<1>2. a \in Scalar
  <2>1. 1 \in Scalar
    BY PrimeAssumption DEF Scalar, TopBit
  <2> QED BY <1>1, <2>1, MaskedType DEF ScalarsFit
<1>3. h[1] \in Nat
  <2>1. <<k.prefix, n>> \in Seq(Nat)
    BY <1>1, Ed25519Assumption
  <2> QED BY <2>1, HashTypes
<1>4. PublicOf(a) \in Encoding
  BY <1>2, PublicType DEF IInv
<1>5. l.a = a /\ l.prefix = h[1] /\ l.pub = PublicOf(a)
  BY DEF AddToPair
<1>6. keys' = (keys \ {k}) \cup {l}
  BY DEF AddScalar
<1> HIDE DEF l, a, h
<1>7. Pairs'
  <2>1. \A o \in keys : o.a \in Scalar /\ o.prefix \in Nat /\ o.pub \in Encoding
    BY DEF IInv, Pairs
  <2> QED BY <1>2, <1>3, <1>4, <1>5, <1>6, <2>1 DEF Pairs
<1> QED BY <1>7 DEF AddScalar, IInv, Signatures

LEMMA SignFits ==
    ASSUME ScalarsFit, IInv, NEW k \in keys, NEW m \in Messages, Sign(k, m)
    PROVE  IInv'
<1> DEFINE r == sc_reduce(Hash(<<k.prefix, m>>))
           R == ge_p3_tobytes(ge_scalarmult_base(base, r))
           hram == sc_reduce(Hash(<<R, k.pub, m>>))
           S == sc_muladd(hram, k.a, r)
           entry == [by |-> k.pub, msg |-> m, sig |-> ed25519_sign(k, m)]
<1>1. k.a \in Scalar /\ k.prefix \in Nat /\ k.pub \in Encoding /\ m \in Nat
  BY Ed25519Assumption DEF IInv, Pairs
<1>2. Encoding \subseteq Nat
  BY ScalarTypes DEF Encoding
<1>3. r \in Scalar
  <2>1. <<k.prefix, m>> \in Seq(Nat)
    BY <1>1
  <2> QED BY <2>1, HashTypes
<1>4. R \in Encoding
  BY <1>3, MultipleTight, EncodingType DEF IInv
<1>5. hram \in Scalar
  <2> HIDE DEF R
  <2>1. R \in Nat /\ k.pub \in Nat /\ m \in Nat
    BY <1>1, <1>2, <1>4, Zenon
  <2>2. <<R, k.pub, m>> \in Seq(Nat)
    BY <2>1
  <2> QED BY <2>2, HashTypes
<1>6. S \in Scalar
  BY <1>1, <1>3, <1>5 DEF ScalarsFit
<1>7. entry.msg = m /\ entry.sig.R = R /\ entry.sig.S = S
  BY DEF ed25519_sign
<1>8. sigs' = sigs \cup {entry}
  BY DEF Sign
<1> HIDE DEF r, R, hram, S, entry
<1>9. Signatures'
  <2>1. \A s \in sigs : s.msg \in Messages /\ s.sig.R \in Encoding /\ s.sig.S \in Scalar
    BY DEF IInv, Signatures
  <2> QED BY <1>4, <1>6, <1>7, <1>8, <2>1 DEF Signatures
<1> QED BY <1>9 DEF Sign, IInv, Pairs

LEMMA NextFits == ScalarsFit /\ IInv /\ [Next]_vars => IInv'
<1> SUFFICES ASSUME ScalarsFit, IInv, [Next]_vars PROVE IInv'
  OBVIOUS
<1>1. CASE ComputeRow
  BY <1>1, ComputeRowFits
<1>2. ASSUME NEW seed \in Seeds, Generate(seed) PROVE IInv'
  BY <1>2, GenerateFits
<1>3. ASSUME NEW k \in keys, NEW n \in Tweaks, AddScalar(k, n) PROVE IInv'
  BY <1>3, AddScalarFits
<1>4. ASSUME NEW k \in keys, NEW m \in Messages, Sign(k, m) PROVE IInv'
  BY <1>4, SignFits
<1>5. CASE UNCHANGED vars
  BY <1>5 DEF IInv, Pairs, Signatures, vars
<1> QED BY <1>1, <1>2, <1>3, <1>4, <1>5 DEF Next

\* The variables have the shapes of the code's types: scalars that were clamped,
\* reduced or masked keep their top bit clear through every key and signature.
THEOREM Types == ScalarsFit => (Spec => []TypeOK)
<1> SUFFICES ASSUME ScalarsFit PROVE Spec => []TypeOK
  OBVIOUS
<1>1. IInv => TypeOK
  <2> SUFFICES ASSUME IInv PROVE TypeOK
    OBVIOUS
  <2>1. base \in [Row -> [Column -> ge_precomp]]
    BY PointTypes DEF IInv, Table
  <2>2. p3 \in ge_p3
    BY PointTypes DEF IInv
  <2>3. Encoding \subseteq Nat /\ Scalar \subseteq Nat
    BY ScalarTypes DEF Encoding, Scalar
  <2> QED BY <2>1, <2>2, <2>3 DEF IInv, Pairs, Signatures, TypeOK, Scalar
<1>2. IInv /\ [Next]_vars => IInv'
  BY NextFits
<1> QED BY <1>1, <1>2, InitFits, PTL DEF Spec

LEMMA BoundedPoint == \A p \in TightP3 : Bounded(p)
<1> SUFFICES ASSUME NEW p \in TightP3 PROVE Bounded(p)
  OBVIOUS
<1>1. DOMAIN p = {"X", "Y", "Z", "T"}
  BY DEF TightP3
<1>2. \A f \in DOMAIN p : p[f] \in Product
  BY <1>1 DEF TightP3
<1>3. \A f \in Product : f.bound <= Tight
  BY Limits, TameFields DEF Product
<1> QED BY <1>2, <1>3 DEF Bounded

LEMMA BoundedEntry == \A t \in TightEntry : Bounded(t)
<1> SUFFICES ASSUME NEW t \in TightEntry PROVE Bounded(t)
  OBVIOUS
<1>1. DOMAIN t = {"yplusx", "yminusx", "xy2d"}
  BY DEF TightEntry
<1>2. \A f \in DOMAIN t : t[f] \in Product
  BY <1>1 DEF TightEntry
<1>3. \A f \in Product : f.bound <= Tight
  BY Limits, TameFields DEF Product
<1> QED BY <1>2, <1>3 DEF Bounded

\* No chain of field operations lets a limb outgrow what the next product or
\* fe_tobytes can take (whose result would be Torn, which is no encoding at any
\* size of the prime), in the loop that fills the table, in keys that are made
\* or added to and in signatures, for a prime of any size, any chain of powers,
\* any table in the source, and any number of seeds, messages and scalars.
THEOREM LimbsFit == ScalarsFit => (Spec => []NoOverflow)
<1> SUFFICES ASSUME ScalarsFit PROVE Spec => []NoOverflow
  OBVIOUS
<1>1. IInv => NoOverflow
  <2> SUFFICES ASSUME IInv PROVE NoOverflow
    OBVIOUS
  <2>1. Bounded(p3)
    BY BoundedPoint DEF IInv
  <2>2. \A i \in Row, j \in Column : Bounded(base[i][j])
    BY BoundedEntry DEF IInv, Table
  <2>3. Encodings \subseteq 0 .. 2 * TopBit - 1
    BY DEF IInv, Pairs, Signatures, Encodings, Encoding
  <2> QED BY <2>1, <2>2, <2>3 DEF NoOverflow
<1>2. IInv /\ [Next]_vars => IInv'
  BY NextFits
<1> QED BY <1>1, <1>2, InitFits, PTL DEF Spec

=============================================================================
