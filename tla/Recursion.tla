------------------------------ MODULE Recursion ------------------------------
(***************************************************************************)
(* Induction over the natural numbers, and functions defined by recursion, *)
(* stated with sets and functions where the library has operators as       *)
(* parameters, so that the SMT solver can use them.                        *)
(***************************************************************************)
EXTENDS Integers, WellFoundedInduction, TLAPS

\* The order of the natural numbers is a well-founded relation.
LEMMA NatOrder ==
    \E R : IsWellFoundedOn(R, Nat) /\ \A x, y \in Nat : x < y => <<x, y>> \in R
<1> DEFINE less == OpToRel(<, Nat)
<1>1. \A x, y \in Nat : x < y => <<x, y>> \in less
  BY DEF OpToRel
<1>2. IsWellFoundedOn(less, Nat)
  BY NatLessThanWellFounded
<1> QED
  <2> HIDE DEF less
  <2> QED BY <1>1, <1>2, Zenon

\* Every set of natural numbers has a smallest element.
LEMMA Smallest ==
    ASSUME NEW T, T \subseteq Nat, T # {}
    PROVE  \E x \in T : \A y \in T : ~(y < x)
<1>1. PICK R : IsWellFoundedOn(R, Nat) /\ \A x, y \in Nat : x < y => <<x, y>> \in R
  BY NatOrder
<1>2. \A A, B, C : IsWellFoundedOn(A, B) /\ C \subseteq B /\ C # {}
                   => \E x \in C : \A y \in C : <<y, x>> \notin A
  BY WFMin
<1>3. PICK x \in T : \A y \in T : <<y, x>> \notin R
  <2>1. IsWellFoundedOn(R, Nat)
    BY <1>1
  <2>2. IsWellFoundedOn(R, Nat) /\ T \subseteq Nat /\ T # {}
        => \E x \in T : \A y \in T : <<y, x>> \notin R
    BY <1>2
  <2> QED BY <2>1, <2>2
<1>4. ASSUME NEW y \in T PROVE ~(y < x)
  <2>1. x \in Nat /\ y \in Nat
    OBVIOUS
  <2> QED BY <1>1, <1>3, <2>1
<1> QED BY <1>4

\* Induction: a set with 0 and with the successor of every member holds Nat.
LEMMA SetInduction ==
    ASSUME NEW S, 0 \in S, \A n \in Nat : n \in S => n + 1 \in S
    PROVE  \A n \in Nat : n \in S
<1> DEFINE T == {n \in Nat : n \notin S}
<1> SUFFICES ASSUME T # {} PROVE FALSE
  OBVIOUS
<1>1. T \subseteq Nat
  OBVIOUS
<1>2. PICK x \in T : \A y \in T : ~(y < x)
  <2> HIDE DEF T
  <2> QED BY <1>1, Smallest
<1>3. x \in Nat /\ x \notin S
  OBVIOUS
<1>4. x # 0
  BY <1>3
<1>5. x - 1 \in Nat /\ x - 1 < x /\ (x - 1) + 1 = x
  BY <1>3, <1>4
<1>6. x - 1 \in S
  BY <1>2, <1>5
<1> QED BY <1>3, <1>5, <1>6

\* N functions on S, and what they make of x one after the other.  The provers
\* instantiate the lemma below with these two unexpanded.
IsSteps(f, N, S) == f \in [1 .. N -> [S -> S]]

IsRun(h, f, N, x, S) ==
    /\ h \in [0 .. N -> S]
    /\ h[0] = x /\ \A i \in 1 .. N : h[i] = f[i][h[i - 1]]

\* Recursion: N steps from x are a function.
LEMMA StepsExist ==
    ASSUME NEW S, NEW x \in S, NEW N \in Nat, NEW f, IsSteps(f, N, S)
    PROVE  \E h : IsRun(h, f, N, x, S)
<1> USE DEF IsSteps
<1> DEFINE Good(n, h) == h[0] = x /\ \A i \in 1 .. n : h[i] = f[i][h[i - 1]]
           A == {n \in Nat : n <= N => \E h \in [0 .. n -> S] : Good(n, h)}
<1>1. 0 \in A
  <2>1. [i \in 0 .. 0 |-> x] \in [0 .. 0 -> S] /\ Good(0, [i \in 0 .. 0 |-> x])
    OBVIOUS
  <2> QED BY <2>1
<1>2. ASSUME NEW n \in Nat, n \in A PROVE n + 1 \in A
  <2> SUFFICES ASSUME n + 1 <= N PROVE \E h \in [0 .. n + 1 -> S] : Good(n + 1, h)
    OBVIOUS
  <2>1. PICK h \in [0 .. n -> S] : Good(n, h)
    BY <1>2
  <2> DEFINE g == [i \in 0 .. n + 1 |-> IF i = n + 1 THEN f[n + 1][h[n]] ELSE h[i]]
  <2>2. f[n + 1][h[n]] \in S
    <3>1. f[n + 1] \in [S -> S] /\ h[n] \in S
      OBVIOUS
    <3> QED BY <3>1
  <2>3. g \in [0 .. n + 1 -> S]
    BY <2>2
  <2>4. g[0] = x
    BY <2>1
  <2>5. ASSUME NEW i \in 1 .. n + 1 PROVE g[i] = f[i][g[i - 1]]
    <3>1. i \in 0 .. n + 1 /\ i - 1 \in 0 .. n + 1 /\ i - 1 # n + 1
      OBVIOUS
    <3>2. g[i - 1] = h[i - 1]
      BY <3>1
    <3>3. CASE i = n + 1
      BY <3>1, <3>2, <3>3
    <3>4. CASE i # n + 1
      <4>1. i \in 1 .. n
        BY <3>4
      <4>2. h[i] = f[i][h[i - 1]]
        BY <2>1, <4>1
      <4> QED BY <3>1, <3>2, <3>4, <4>2
    <3> QED BY <3>3, <3>4
  <2> HIDE DEF g
  <2> QED BY <2>3, <2>4, <2>5
<1>3. N \in A
  <2> HIDE DEF A
  <2> QED BY <1>1, <1>2, SetInduction
<1>4. PICK h \in [0 .. N -> S] : Good(N, h)
  BY <1>3
<1> QED BY <1>4 DEF IsRun

\* A loop as a tail recursion: r[i] makes N - i .. the i steps that are left of f,
\* the last one first numbered 1, and then what g says.
IsTail(r, g, f, N, P) ==
    /\ \A p \in P : r[0][p] = g[p]
    /\ \A i \in 1 .. N : \A p \in P : r[i][p] = r[i - 1][f[i][p]]

LEMMA TailExists ==
    ASSUME NEW P, NEW R, NEW N \in Nat, NEW f, IsSteps(f, N, P), NEW g \in [P -> R]
    PROVE  \E r \in [0 .. N -> [P -> R]] : IsTail(r, g, f, N, P)
<1> DEFINE S == [P -> R]
           q == [i \in 1 .. N |-> [h \in S |-> [p \in P |-> h[f[i][p]]]]]
<1>1. ASSUME NEW i \in 1 .. N, NEW h \in S
      PROVE  q[i][h] \in S /\ \A p \in P : q[i][h][p] = h[f[i][p]]
  <2>1. \A p \in P : f[i][p] \in P
    <3>1. f[i] \in [P -> P]
      BY DEF IsSteps
    <3> QED BY <3>1
  <2>2. q[i][h] = [p \in P |-> h[f[i][p]]]
    OBVIOUS
  <2> QED BY <2>1, <2>2
<1>2. IsSteps(q, N, S)
  <2>1. \A i \in 1 .. N : q[i] = [h \in S |-> q[i][h]]
    OBVIOUS
  <2>2. q = [i \in 1 .. N |-> q[i]]
    OBVIOUS
  <2> HIDE DEF q, S
  <2>3. \A i \in 1 .. N : q[i] \in [S -> S]
    BY <1>1, <2>1
  <2> QED BY <2>2, <2>3 DEF IsSteps
<1>3. PICK r : IsRun(r, q, N, g, S)
  <2> HIDE DEF q
  <2> QED BY <1>2, StepsExist
<1>4. r \in [0 .. N -> S] /\ r[0] = g /\ \A i \in 1 .. N : r[i] = q[i][r[i - 1]]
  BY <1>3 DEF IsRun
<1>5. ASSUME NEW i \in 1 .. N, NEW p \in P PROVE r[i][p] = r[i - 1][f[i][p]]
  <2>1. r[i - 1] \in S
    BY <1>4
  <2> HIDE DEF q, S
  <2> QED BY <1>1, <1>4, <2>1
<1> HIDE DEF q
<1>6. IsTail(r, g, f, N, P)
  BY <1>4, <1>5 DEF IsTail
<1> QED BY <1>4, <1>6

\* Every step leaves a member of A one, and g makes it a member of C.
Keep(f, N, A, P) == A \subseteq P /\ \A i \in 1 .. N : \A a \in A : f[i][a] \in A

Turn(g, A, C) == \A a \in A : g[a] \in C

LEMMA TailKeeps ==
    ASSUME NEW P, NEW N \in Nat, NEW f, NEW g, NEW r, IsTail(r, g, f, N, P),
           NEW A, Keep(f, N, A, P), NEW C, Turn(g, A, C)
    PROVE  Turn(r[N], A, C)
<1> USE DEF Keep, Turn
<1> DEFINE B == {n \in Nat : n <= N => \A a \in A : r[n][a] \in C}
<1>1. 0 \in B
  BY DEF IsTail
<1>2. ASSUME NEW n \in Nat, n \in B PROVE n + 1 \in B
  <2> SUFFICES ASSUME n + 1 <= N, NEW a \in A PROVE r[n + 1][a] \in C
    OBVIOUS
  <2>1. n + 1 \in 1 .. N /\ (n + 1) - 1 = n
    OBVIOUS
  <2>2. r[n + 1][a] = r[n][f[n + 1][a]]
    BY <2>1 DEF IsTail
  <2>3. f[n + 1][a] \in A
    BY <2>1
  <2> QED BY <1>2, <2>1, <2>2, <2>3
<1>3. N \in B
  <2> HIDE DEF B
  <2> QED BY <1>1, <1>2, SetInduction
<1> QED BY <1>3

\* Recursion on two earlier values, the last one and the one at j[k].
IsLinks(f, j, N, S) ==
    \A k \in 2 .. N : f[k] \in [S -> [S -> S]] /\ j[k] \in 1 .. k - 1

IsCourse(s, x, f, j, N, S) ==
    /\ s \in [1 .. N -> S]
    /\ s[1] = x /\ \A k \in 2 .. N : s[k] = f[k][s[k - 1]][s[j[k]]]

LEMMA CourseExists ==
    ASSUME NEW S, NEW x \in S, NEW N \in Nat, N > 0, NEW f, NEW j, IsLinks(f, j, N, S)
    PROVE  \E s : IsCourse(s, x, f, j, N, S)
<1> USE DEF IsLinks
<1> DEFINE H == [1 .. N -> S]
           step(k, h) == [h EXCEPT ![k] = f[k][h[k - 1]][h[j[k]]]]
           q == [i \in 1 .. N - 1 |-> [h \in H |-> step(i + 1, h)]]
           first == [k \in 1 .. N |-> x]
<1>1. ASSUME NEW k \in 2 .. N, NEW h \in H
      PROVE  /\ step(k, h) \in H /\ step(k, h)[k] = f[k][h[k - 1]][h[j[k]]]
             /\ \A i \in 1 .. N : i # k => step(k, h)[i] = h[i]
  <2>1. k - 1 \in 1 .. N /\ j[k] \in 1 .. N /\ k \in 1 .. N
    OBVIOUS
  <2>2. h[k - 1] \in S /\ h[j[k]] \in S
    BY <2>1
  <2>3. f[k][h[k - 1]][h[j[k]]] \in S
    <3>1. f[k] \in [S -> [S -> S]]
      OBVIOUS
    <3>2. f[k][h[k - 1]] \in [S -> S]
      BY <2>2, <3>1
    <3> QED BY <2>2, <3>2
  <2> DEFINE y == f[k][h[k - 1]][h[j[k]]]
  <2>4. y \in S
    BY <2>3
  <2> HIDE DEF y
  <2>5. [h EXCEPT ![k] = y] \in H
    BY <2>4
  <2>6. [h EXCEPT ![k] = y][k] = y /\ \A i \in 1 .. N : i # k => [h EXCEPT ![k] = y][i] = h[i]
    BY <2>1
  <2> QED BY <2>5, <2>6 DEF y
<1>2. \A i \in 1 .. N - 1 : i + 1 \in 2 .. N
  OBVIOUS
<1>3. \A i \in 1 .. N - 1 : \A h \in H : q[i][h] = step(i + 1, h)
  OBVIOUS
<1>4. IsSteps(q, N - 1, H)
  <2>1. \A i \in 1 .. N - 1 : q[i] = [h \in H |-> q[i][h]]
    OBVIOUS
  <2>2. q = [i \in 1 .. N - 1 |-> q[i]]
    OBVIOUS
  <2> HIDE DEF q, H, step
  <2>3. \A i \in 1 .. N - 1 : q[i] \in [H -> H]
    <3>1. \A i \in 1 .. N - 1 : \A h \in H : q[i][h] \in H
      <4>1. \A k \in 2 .. N : \A h \in H : step(k, h) \in H
        BY <1>1
      <4> QED BY <1>2, <1>3, <4>1
    <3> QED BY <2>1, <3>1
  <2> QED BY <2>2, <2>3 DEF IsSteps
<1>5. first \in H /\ first[1] = x /\ N - 1 \in Nat
  OBVIOUS
<1> HIDE DEF q, first
<1>6. PICK t : IsRun(t, q, N - 1, first, H)
  BY <1>4, <1>5, StepsExist
<1>7. /\ t \in [0 .. N - 1 -> H] /\ t[0] = first
      /\ \A i \in 1 .. N - 1 : t[i] = step(i + 1, t[i - 1])
  <2>1. t \in [0 .. N - 1 -> H] /\ t[0] = first
        /\ \A i \in 1 .. N - 1 : t[i] = q[i][t[i - 1]]
    BY <1>6 DEF IsRun
  <2>2. \A i \in 1 .. N - 1 : t[i - 1] \in H
    BY <2>1
  <2> HIDE DEF step, H
  <2> QED BY <1>3, <2>1, <2>2
<1> HIDE DEF step
\* What step k has written stays.
<1>8. ASSUME NEW k \in 1 .. N, NEW m \in Nat, m <= N - 1, m >= k - 1
      PROVE  t[m][k] = t[k - 1][k]
  <2> DEFINE A == {n \in Nat : n <= N - 1 /\ n >= k - 1 => t[n][k] = t[k - 1][k]}
  <2>1. 0 \in A
    OBVIOUS
  <2>2. ASSUME NEW n \in Nat, n \in A PROVE n + 1 \in A
    <3> SUFFICES ASSUME n + 1 <= N - 1, n + 1 >= k - 1 PROVE t[n + 1][k] = t[k - 1][k]
      OBVIOUS
    <3>1. CASE n + 1 = k - 1
      BY <3>1
    <3>2. CASE n + 1 # k - 1
      <4>1. n + 1 \in 1 .. N - 1 /\ (n + 1) - 1 = n /\ n \in 0 .. N - 1
            /\ (n + 1) + 1 \in 2 .. N /\ (n + 1) + 1 # k /\ n >= k - 1
        BY <3>2
      <4>2. t[n + 1] = step((n + 1) + 1, t[n]) /\ t[n] \in H
        BY <1>7, <4>1
      <4>3. step((n + 1) + 1, t[n])[k] = t[n][k]
        BY <1>1, <4>1, <4>2
      <4>4. t[n][k] = t[k - 1][k]
        BY <2>2, <4>1
      <4> QED BY <4>2, <4>3, <4>4
    <3> QED BY <3>1, <3>2
  <2>3. m \in A
    <3> HIDE DEF A
    <3> QED BY <2>1, <2>2, SetInduction
  <2> QED BY <1>8, <2>3
<1> DEFINE s == [k \in 1 .. N |-> t[k - 1][k]]
<1>9. s \in [1 .. N -> S]
  <2>1. ASSUME NEW k \in 1 .. N PROVE t[k - 1][k] \in S
    <3>1. t[k - 1] \in H
      BY <1>7
    <3> QED BY <3>1
  <2> QED BY <2>1
<1>10. s[1] = x
  BY <1>5, <1>7
<1>11. ASSUME NEW k \in 2 .. N PROVE s[k] = f[k][s[k - 1]][s[j[k]]]
  <2>1. /\ k \in 1 .. N /\ k - 1 \in 1 .. N - 1 /\ (k - 1) + 1 = k /\ k - 1 \in 1 .. N
        /\ j[k] \in 1 .. N /\ k - 2 \in 0 .. N - 1 /\ (k - 1) - 1 = k - 2
        /\ k - 2 >= j[k] - 1
    OBVIOUS
  <2>2. t[k - 1] = step(k, t[k - 2]) /\ t[k - 2] \in H
    BY <1>7, <2>1
  <2>3. t[k - 1][k] = f[k][t[k - 2][k - 1]][t[k - 2][j[k]]]
    BY <1>1, <2>2
  <2>4. t[k - 2][j[k]] = t[j[k] - 1][j[k]]
    BY <1>8, <2>1
  <2>5. s[k] = t[k - 1][k] /\ s[k - 1] = t[k - 2][k - 1] /\ s[j[k]] = t[j[k] - 1][j[k]]
    BY <2>1
  <2> QED BY <2>3, <2>4, <2>5
<1> HIDE DEF s
<1>12. IsCourse(s, x, f, j, N, S)
  BY <1>9, <1>10, <1>11 DEF IsCourse
<1> QED BY <1>12
=============================================================================
