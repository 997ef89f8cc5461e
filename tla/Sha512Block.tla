---------------------------- MODULE Sha512Block ----------------------------
(***************************************************************************)
(* sha512_compress of src/sha512.c: the rounds are unrolled eight at a     *)
(* time, the registers stay in place and change their names, and choice    *)
(* and majority are written with fewer operations than in the standard.    *)
(* The width of a word, the number of rounds, the constants and the        *)
(* distances of the rotations are parameters.                              *)
(***************************************************************************)
EXTENDS Integers, Sequences, Bitwise

CONSTANTS
  WordBytes,
  Rounds,                         \* 80 in the code, a multiple of 8
  K,                              \* [0 .. Rounds - 1 -> words]
  Sigma0, Sigma1, Gamma0, Gamma1  \* three rotations; Gammas: two and a shift

Bits == 8 * WordBytes

U64 == 2^Bits

u64 == 0 .. U64 - 1

ROR64c(x, n) == (x \div 2^n) | ((x * 2^(Bits - n)) % U64)

\* Mutant of Ch: the other way round.
Ch_swapped(x, y, z) == y ^^ (x & (y ^^ z))

Ch(x, y, z) == z ^^ (x & (y ^^ z))

Maj(x, y, z) == ((x | y) & z) | (x & y)

Sigma(x, s) == (ROR64c(x, s[1]) ^^ ROR64c(x, s[2])) ^^ ROR64c(x, s[3])

Gamma(x, s) == (ROR64c(x, s[1]) ^^ ROR64c(x, s[2])) ^^ (x \div 2^s[3])

\* Word i of a block, its first byte the highest.
LOAD64H(buf, i) ==
  LET x[j \in 0 .. WordBytes] == IF j = 0 THEN 0 ELSE x[j - 1] * 256 + buf[i * WordBytes + j - 1]
  IN x[WordBytes]

\* W: the words of the block, then each from four before it.
Filled(buf) ==
  LET fill[W \in Seq(u64)] ==
        IF Len(W) = Rounds THEN W
        ELSE LET old(k) == W[Len(W) + 1 - k]
             IN fill[Append(W, (Gamma(old(2), Gamma1) + old(7) + Gamma(old(15), Gamma0) + old(16)) % U64)]
  IN fill[[i \in 1 .. 16 |-> LOAD64H(buf, i - 1)]]

\* Round i: what round 0 calls S[k] is S[k - i] now; two registers change.
RND(S, i, kw) ==
  LET reg(k) == (k - i) % 8
      t0 == S[reg(7)] + Sigma(S[reg(4)], Sigma1) + Ch(S[reg(4)], S[reg(5)], S[reg(6)]) + kw
      t1 == Sigma(S[reg(0)], Sigma0) + Maj(S[reg(0)], S[reg(1)], S[reg(2)])
  IN [S EXCEPT ![reg(3)] = (@ + t0) % U64, ![reg(7)] = (t0 + t1) % U64]

\* Rounds i and on, then the feedback.
sha512_compress(state, buf) ==
  LET from[i \in 0 .. Rounds, S \in [0 .. 7 -> u64], W \in Seq(u64)] ==
        IF i = Rounds THEN [k \in 0 .. 7 |-> (state[k] + S[k]) % U64]
        ELSE from[i + 1, RND(S, i, K[i] + W[i + 1]), W]
  IN from[0, state, Filled(buf)]

=============================================================================
