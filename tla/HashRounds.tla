----------------------------- MODULE HashRounds -----------------------------
(***************************************************************************)
(* What FIPS 180-4 says a block does to the state: rounds over eight       *)
(* registers that all move on by one, driven by a schedule of the words of *)
(* the block.                                                              *)
(***************************************************************************)
EXTENDS Integers, Sequences, Bitwise

CONSTANTS WordBytes,
  Rounds,                         \* 80 in the code
  K,                              \* [0 .. Rounds - 1 -> words]
  Sigma0, Sigma1, Gamma0, Gamma1  \* three rotations; Gammas: two and a shift

Word == 256^WordBytes

Plus(x, y) == (x + y) % Word

Rotated(x, n) == (x \div 2^n) + (x % 2^n) * 2^(8 * WordBytes - n)

Mixed(x, s) == (Rotated(x, s[1]) ^^ Rotated(x, s[2])) ^^ Rotated(x, s[3])

Shifted(x, s) == (Rotated(x, s[1]) ^^ Rotated(x, s[2])) ^^ (x \div 2^s[3])

\* Choice and majority, bit by bit.
Choice(x, y, z) == (x & y) + ((Word - 1 - x) & z)

Majority(x, y, z) == ((x & y) ^^ (x & z)) ^^ (y & z)

-----------------------------------------------------------------------------

\* The number that k bytes from position i on spell.
Number(bytes, i, k) ==
  LET n[j \in 0 .. k] == IF j = 0 THEN 0 ELSE n[j - 1] * 256 + bytes[i + j - 1]
  IN n[k]

Schedule(block) ==
  LET more[W \in Seq(0 .. Word - 1)] ==
        IF Len(W) = Rounds THEN W
        ELSE LET t == Len(W) + 1
             IN more[Append(W, Plus(Plus(Shifted(W[t - 2], Gamma1), W[t - 7]),
                                    Plus(Shifted(W[t - 15], Gamma0), W[t - 16])))]
  IN more[[i \in 1 .. 16 |-> Number(block, (i - 1) * WordBytes, WordBytes)]]

\* A round: every register takes the one before it, a and e a sum.
Round(r, kw) ==
  LET t == Plus(Plus(r[7], Mixed(r[4], Sigma1)), Plus(Choice(r[4], r[5], r[6]), kw))
      u == Plus(Mixed(r[0], Sigma0), Majority(r[0], r[1], r[2]))
  IN [k \in 0 .. 7 |-> IF k = 0 THEN Plus(t, u) ELSE IF k = 4 THEN Plus(r[3], t) ELSE r[k - 1]]

Registers == [0 .. 7 -> 0 .. Word - 1]

\* Rounds i and on, then every register is added to what it was.
Through(state, block) ==
  LET from[i \in 0 .. Rounds, r \in Registers, W \in Seq(0 .. Word - 1)] ==
        IF i = Rounds THEN [k \in 0 .. 7 |-> Plus(state[k], r[k])]
        ELSE from[i + 1, Round(r, Plus(K[i], W[i + 1])), W]
  IN from[0, state, Schedule(block)]

=============================================================================
