----------------------------- MODULE WireProofs -----------------------------
(***************************************************************************)
(* The hash and the blocks that are signed with it.                        *)
(*                                                                         *)
(* First sha512.c implements the hash of the standard: the digest depends  *)
(* on the bytes alone, whatever the lengths of the parts that are hashed   *)
(* together, what the buffer held before, the size of a word and the       *)
(* compression of a block.                                                 *)
(*                                                                         *)
(* Then a block on its way: hex and JSON lose nothing of a header, the     *)
(* context returns each digest to who asked for it, and so the peer finds  *)
(* what the author signed.                                                 *)
(***************************************************************************)
EXTENDS Wire, Recursion

LEMMA Sizes ==
  /\ WordBytes \in Nat
  /\ BlockLen \in Nat
  /\ BlockLen > 0
  BY Sha512Assumption DEF BlockLen

-----------------------------------------------------------------------------
(* Arithmetic of blocks. *)

\* A whole number of blocks and less than one more determine each other.
LEMMA BlocksUnique ==
  ASSUME NEW m \in Int, NEW n \in Int, NEW c \in Index, NEW d \in Index,
         m * BlockLen + c = n * BlockLen + d
  PROVE  m = n /\ c = d
<1> DEFINE B == BlockLen
<1>1. B \in Nat /\ B > 0 /\ c \in 0 .. B - 1 /\ d \in 0 .. B - 1
  BY Sizes DEF Index
<1>2. m * B + c = n * B + d
  OBVIOUS
<1> HIDE DEF B
<1>3. (m - n) * B = d - c
  BY <1>1, <1>2
<1>4. ~(m - n >= 1)
  <2> SUFFICES ASSUME m - n >= 1 PROVE FALSE
    OBVIOUS
  <2>1. (m - n) * B >= B
    BY <1>1
  <2> QED BY <1>1, <1>3, <2>1
<1>5. ~(m - n <= -1)
  <2> SUFFICES ASSUME m - n <= -1 PROVE FALSE
    OBVIOUS
  <2>1. (m - n) * B <= -B
    BY <1>1
  <2> QED BY <1>1, <1>3, <2>1
<1>6. m = n
  BY <1>4, <1>5
<1> QED BY <1>1, <1>2, <1>6

LEMMA BlocksDivide ==
  ASSUME NEW n \in Nat, NEW c \in Index
  PROVE  (n * BlockLen + c) \div BlockLen = n /\ (n * BlockLen + c) % BlockLen = c
<1> DEFINE x == n * BlockLen + c
<1>1. x \in Nat /\ c \in Int
  BY Sizes DEF Index
<1>2. /\ x \div BlockLen \in Int /\ (x % BlockLen) \in Index
      /\ x = (x \div BlockLen) * BlockLen + (x % BlockLen)
  <2> HIDE DEF x
  <2>1. x % BlockLen \in 0 .. BlockLen - 1
    BY <1>1, Sizes
  <2>2. x = BlockLen * (x \div BlockLen) + (x % BlockLen)
    BY <1>1, Sizes
  <2>3. x \div BlockLen \in Int
    BY <1>1, Sizes
  <2>4. BlockLen * (x \div BlockLen) = (x \div BlockLen) * BlockLen
    BY <2>3, Sizes
  <2> QED BY <2>1, <2>2, <2>3, <2>4 DEF Index
<1>3. n * BlockLen + c = (x \div BlockLen) * BlockLen + (x % BlockLen)
  BY <1>2
<1> HIDE DEF x
<1>4. n = x \div BlockLen /\ c = x % BlockLen
  BY <1>2, <1>3, BlocksUnique
<1> QED BY <1>4 DEF x

-----------------------------------------------------------------------------
(* The states that whole blocks lead to. *)

BlockOf(bytes, i) == [j \in Index |-> bytes[(i - 1) * BlockLen + j + 1]]

IsChain(h, n, bytes) ==
  h[0] = IV /\ \A i \in 1 .. n : h[i] = Compress(h[i - 1], BlockOf(bytes, i))

\* A sequence that begins like another has its chain.
LEMMA ChainKept ==
  ASSUME NEW n \in Nat, NEW h, NEW s, NEW t, IsChain(h, n, s),
         \A k \in 1 .. n * BlockLen : t[k] = s[k]
  PROVE  IsChain(h, n, t)
<1>1. ASSUME NEW i \in 1 .. n PROVE BlockOf(t, i) = BlockOf(s, i)
  <2>1. ASSUME NEW j \in Index PROVE t[(i - 1) * BlockLen + j + 1] = s[(i - 1) * BlockLen + j + 1]
    <3>1. j \in 0 .. BlockLen - 1 /\ i - 1 \in 0 .. n - 1
      BY DEF Index
    <3>2. (i - 1) * BlockLen >= 0 /\ (i - 1) * BlockLen <= (n - 1) * BlockLen
      BY <3>1, Sizes
    <3>3. (n - 1) * BlockLen = n * BlockLen - BlockLen
      BY Sizes
    <3>4. n * BlockLen \in Int /\ (i - 1) * BlockLen \in Int /\ (n - 1) * BlockLen \in Int
      BY <3>1, Sizes
    <3>5. (i - 1) * BlockLen + j + 1 \in 1 .. n * BlockLen
      BY <3>1, <3>2, <3>3, <3>4, Sizes
    <3> QED BY <3>5
  <2> QED BY <2>1 DEF BlockOf
<1> QED BY <1>1 DEF IsChain

\* One more block.
LEMMA ChainExtends ==
  ASSUME NEW n \in Nat, NEW h, NEW t, IsChain(h, n, t)
  PROVE  \E g : IsChain(g, n + 1, t) /\ g[n + 1] = Compress(h[n], BlockOf(t, n + 1))
<1> DEFINE g == [i \in 0 .. n + 1 |-> IF i = n + 1 THEN Compress(h[n], BlockOf(t, n + 1)) ELSE h[i]]
<1>1. g[n + 1] = Compress(h[n], BlockOf(t, n + 1))
  OBVIOUS
<1>2. \A i \in 0 .. n : g[i] = h[i]
  OBVIOUS
<1> HIDE DEF g
<1>3. g[0] = IV
  BY <1>2 DEF IsChain
<1>4. ASSUME NEW i \in 1 .. n + 1 PROVE g[i] = Compress(g[i - 1], BlockOf(t, i))
  <2>1. CASE i = n + 1
    <3>1. i - 1 = n /\ g[n] = h[n]
      BY <1>2, <2>1
    <3> QED BY <1>1, <2>1, <3>1
  <2>2. CASE i # n + 1
    <3>1. i \in 1 .. n /\ i - 1 \in 0 .. n
      BY <2>2
    <3>2. h[i] = Compress(h[i - 1], BlockOf(t, i))
      BY <3>1 DEF IsChain
    <3>3. g[i] = h[i] /\ g[i - 1] = h[i - 1]
      BY <1>2, <3>1
    <3> QED BY <3>2, <3>3
  <2> QED BY <2>1, <2>2
<1>5. IsChain(g, n + 1, t)
  BY <1>3, <1>4 DEF IsChain
<1> QED BY <1>1, <1>5

\* The recursion of the specification and a chain that was built step by step.
LEMMA ChainIs ==
  ASSUME NEW n \in Nat, NEW h, NEW bytes, Len(bytes) = n * BlockLen, IsChain(h, n, bytes)
  PROVE  Len(bytes) \div BlockLen = n /\ Hash!Chain(bytes)[n] = h[n]
<1>1. Len(bytes) \div BlockLen = n
  <2>1. 0 \in Index
    BY Sizes DEF Index
  <2>2. n * BlockLen + 0 = Len(bytes)
    BY Sizes
  <2> QED BY <2>1, <2>2, BlocksDivide
<1> DEFINE piece(i) == [j \in 0 .. BlockLen - 1 |-> bytes[(i - 1) * BlockLen + j + 1]]
           Is(f) == f = [i \in 0 .. n |-> IF i = 0 THEN IV ELSE Compress(f[i - 1], piece(i))]
           f == CHOOSE x : Is(x)
           g == [i \in 0 .. n |-> h[i]]
<1>2. \A i : piece(i) = BlockOf(bytes, i)
  BY DEF BlockOf, Index
<1>3. Hash!Chain(bytes) = f
  <2>1. Hash!BlockLen = BlockLen
    BY DEF Hash!BlockLen, BlockLen
  <2> QED BY <1>1, <2>1 DEF Hash!Chain
<1>4. Is(g)
  <2> HIDE DEF piece
  <2>1. ASSUME NEW i \in 0 .. n PROVE h[i] = IF i = 0 THEN IV ELSE Compress(g[i - 1], piece(i))
    <3>1. CASE i = 0
      BY <3>1 DEF IsChain
    <3>2. CASE i # 0
      <4>1. i \in 1 .. n /\ i - 1 \in 0 .. n
        BY <3>2
      <4>2. g[i - 1] = h[i - 1]
        BY <4>1
      <4>3. h[i] = Compress(h[i - 1], BlockOf(bytes, i))
        BY <4>1 DEF IsChain
      <4> QED BY <1>2, <3>2, <4>2, <4>3
    <3> QED BY <3>1, <3>2
  <2>2. g = [i \in 0 .. n |-> IF i = 0 THEN IV ELSE Compress(g[i - 1], piece(i))]
    BY <2>1
  <2> QED BY <2>2
<1> HIDE DEF g
<1>5. Is(f)
  <2> HIDE DEF Is
  <2> QED BY <1>4
<1> HIDE DEF f, piece
<1> DEFINE A == {k \in Nat : k <= n => f[k] = h[k]}
<1>6. 0 \in A
  <2>1. f[0] = IV
    BY <1>5
  <2> QED BY <2>1 DEF IsChain
<1>7. ASSUME NEW k \in Nat, k \in A PROVE k + 1 \in A
  <2> SUFFICES ASSUME k + 1 <= n PROVE f[k + 1] = h[k + 1]
    OBVIOUS
  <2>1. k + 1 \in 0 .. n /\ k + 1 # 0 /\ (k + 1) - 1 = k /\ k + 1 \in 1 .. n
    OBVIOUS
  <2>2. f[k + 1] = Compress(f[k], piece(k + 1))
    BY <1>5, <2>1
  <2>3. h[k + 1] = Compress(h[k], BlockOf(bytes, k + 1))
    BY <2>1 DEF IsChain
  <2>4. f[k] = h[k]
    BY <1>7, <2>1
  <2> QED BY <1>2, <2>2, <2>3, <2>4
<1>8. n \in A
  <2> HIDE DEF A
  <2> QED BY <1>6, <1>7, SetInduction
<1> QED BY <1>1, <1>3, <1>8

-----------------------------------------------------------------------------
(* The padded message. *)

LEMMA SameSequence ==
  ASSUME NEW S, NEW s \in Seq(S), NEW t \in Seq(S),
         Len(s) = Len(t), \A i \in 1 .. Len(s) : s[i] = t[i]
  PROVE  s = t
<1>1. s = [i \in 1 .. Len(s) |-> s[i]] /\ t = [i \in 1 .. Len(t) |-> t[i]]
  OBVIOUS
<1>2. [i \in 1 .. Len(s) |-> s[i]] = [i \in 1 .. Len(t) |-> t[i]]
  OBVIOUS
<1> QED BY <1>1, <1>2, Zenon

LEMMA Joined ==
  ASSUME NEW S, NEW s \in Seq(S), NEW t \in Seq(S)
  PROVE  /\ s \o t \in Seq(S)
         /\ Len(s \o t) = Len(s) + Len(t)
         /\ \A i \in 1 .. Len(s) : (s \o t)[i] = s[i]
         /\ \A i \in 1 .. Len(t) : (s \o t)[Len(s) + i] = t[i]
<1>1. s \o t \in Seq(S) /\ Len(s \o t) = Len(s) + Len(t)
  OBVIOUS
<1>2. \A i \in 1 .. Len(s) : (s \o t)[i] = s[i]
  OBVIOUS
<1>3. ASSUME NEW i \in 1 .. Len(t) PROVE (s \o t)[Len(s) + i] = t[i]
  <2>1. Len(s) \in Nat /\ Len(s) + i \in 1 .. Len(s) + Len(t) /\ ~(Len(s) + i =< Len(s))
    OBVIOUS
  <2>2. (s \o t)[Len(s) + i] = t[Len(s) + i - Len(s)]
    BY <2>1
  <2>3. Len(s) + i - Len(s) = i
    BY <2>1
  <2> QED BY <2>2, <2>3
<1> QED BY <1>1, <1>2, <1>3

\* How many blocks a message fills that leaves c bytes in its last one.
Filled(n, c) == IF c < LengthAt - WordBytes THEN n + 1 ELSE n + 2

\* The zeros of the padding fill the last block.
LEMMA PaddingFills ==
  ASSUME NEW n \in Nat, NEW c \in Index,
         NEW used, used = n * BlockLen + c + 1 + 2 * WordBytes,
         NEW z, z = (BlockLen - (used % BlockLen)) % BlockLen
  PROVE  z \in Nat /\ used + z = Filled(n, c) * BlockLen
<1>1. c \in 0 .. BlockLen - 1 /\ BlockLen = 16 * WordBytes /\ LengthAt = 15 * WordBytes
      /\ WordBytes \in Nat /\ WordBytes > 0
  BY Sha512Assumption, Sizes DEF Index, LengthAt, BlockLen
<1>2. (n + 1) * BlockLen = n * BlockLen + BlockLen /\ (n + 2) * BlockLen = n * BlockLen + 2 * BlockLen
      /\ n * BlockLen \in Nat
  BY Sizes
<1>3. ASSUME NEW m \in Nat, NEW d \in Index, used = m * BlockLen + d
      PROVE  /\ d = 0 => z = 0
             /\ d > 0 => z = BlockLen - d
  <2>1. used % BlockLen = d
    BY <1>3, BlocksDivide
  <2>2. d \in 0 .. BlockLen - 1
    BY DEF Index
  <2>3. CASE d = 0
    <3>1. 0 \in Index /\ 1 * BlockLen + 0 = BlockLen - d
      BY <2>3, Sizes DEF Index
    <3>2. (1 * BlockLen + 0) % BlockLen = 0
      BY <3>1, BlocksDivide
    <3> QED BY <2>1, <2>3, <3>1, <3>2
  <2>4. CASE d > 0
    <3>1. BlockLen - d \in Index /\ 0 * BlockLen + (BlockLen - d) = BlockLen - d
      BY <2>2, <2>4, Sizes DEF Index
    <3>2. (0 * BlockLen + (BlockLen - d)) % BlockLen = BlockLen - d
      BY <3>1, BlocksDivide
    <3> QED BY <2>1, <2>4, <3>1, <3>2
  <2> QED BY <2>2, <2>3, <2>4
<1> DEFINE d == c + 1 + 2 * WordBytes
<1>4. CASE d < BlockLen
  <2>1. d \in Index /\ used = n * BlockLen + d /\ d > 0
    BY <1>1, <1>2, <1>4 DEF Index
  <2>2. z = BlockLen - d
    <3> HIDE DEF d
    <3> QED BY <1>3, <2>1
  <2>3. Filled(n, c) = n + 1
    BY <1>1, <1>4 DEF Filled
  <2> QED BY <1>1, <1>2, <2>1, <2>2, <2>3
<1>5. CASE d = BlockLen
  <2>1. 0 \in Index /\ used = (n + 1) * BlockLen + 0 /\ n + 1 \in Nat
    BY <1>1, <1>2, <1>5 DEF Index
  <2>2. z = 0
    <3> HIDE DEF d
    <3> QED BY <1>3, <2>1
  <2>3. Filled(n, c) = n + 1
    BY <1>1, <1>5 DEF Filled
  <2> QED BY <1>1, <1>2, <2>1, <2>2, <2>3
<1>6. CASE d > BlockLen
  <2>1. d - BlockLen \in Index /\ used = (n + 1) * BlockLen + (d - BlockLen) /\ n + 1 \in Nat
        /\ d - BlockLen > 0
    BY <1>1, <1>2, <1>6 DEF Index
  <2>2. z = BlockLen - (d - BlockLen)
    <3> HIDE DEF d
    <3> QED BY <1>3, <2>1
  <2>3. Filled(n, c) = n + 2
    BY <1>1, <1>6 DEF Filled
  <2> QED BY <1>1, <1>2, <2>1, <2>2, <2>3
<1>7. d \in Int /\ BlockLen \in Int
  BY <1>1
<1> QED BY <1>4, <1>5, <1>6, <1>7

\* What the specification makes of a message, byte by byte.
IsPadded(p, bytes) ==
  /\ \A k \in 1 .. Len(bytes) : p[k] = bytes[k]
  /\ p[Len(bytes) + 1] = 128
  /\ \A k \in Len(bytes) + 2 .. Len(p) - WordBytes : p[k] = 0
  /\ \A i \in 1 .. WordBytes : p[Len(p) - WordBytes + i] = BigEndian(8 * Len(bytes))[i]

LEMMA PaddedShape ==
  ASSUME NEW bytes \in Seq(Byte), NEW n \in Nat, NEW c \in Index,
         Len(bytes) = n * BlockLen + c,
         NEW p, p = Hash!Padded(bytes)
  PROVE  Len(p) = Filled(n, c) * BlockLen /\ IsPadded(p, bytes)
<1> DEFINE L == Len(bytes)
           used == L + 1 + 2 * WordBytes
           z == (BlockLen - (used % BlockLen)) % BlockLen
           length == BigEndian(8 * L)
           S == Byte \cup {length[i] : i \in 1 .. WordBytes}
           zeros == Hash!Zeros(z)
           high == Hash!Zeros(WordBytes)
           s1 == bytes \o <<128>>
           s2 == s1 \o zeros
           s3 == s2 \o high
<1>1. z \in Nat /\ used + z = Filled(n, c) * BlockLen /\ L \in Nat
      /\ WordBytes \in Nat /\ WordBytes > 0
  <2>1. z \in Nat /\ used + z = Filled(n, c) * BlockLen
    BY PaddingFills
  <2> QED BY <2>1, Sizes, Sha512Assumption
<1>2. p = s3 \o length
  <2>1. Hash!BlockLen = BlockLen
    BY DEF Hash!BlockLen, BlockLen
  <2> QED BY <2>1 DEF Hash!Padded, BigEndian
<1>3. bytes \in Seq(S) /\ <<128>> \in Seq(S) /\ Len(<<128>>) = 1 /\ <<128>>[1] = 128
  <2>1. 128 \in Byte
    BY DEF Byte
  <2>2. Byte \subseteq S
    OBVIOUS
  <2> HIDE DEF S
  <2> QED BY <2>1, <2>2
<1>4. ASSUME NEW k \in Nat
      PROVE  Hash!Zeros(k) \in Seq(S) /\ Len(Hash!Zeros(k)) = k
             /\ \A i \in 1 .. k : Hash!Zeros(k)[i] = 0
  <2>1. 0 \in S
    BY DEF Byte
  <2> HIDE DEF S
  <2> QED BY <2>1 DEF Hash!Zeros
<1>5. length \in Seq(S) /\ Len(length) = WordBytes
  <2>1. \A i \in 1 .. WordBytes : length[i] \in S
    OBVIOUS
  <2>2. length = [i \in 1 .. WordBytes |-> length[i]]
    BY DEF BigEndian
  <2> HIDE DEF S, length
  <2> QED BY <1>1, <2>1, <2>2
<1>z. /\ z \in Nat /\ L \in Nat /\ WordBytes \in Nat /\ WordBytes > 0
      /\ zeros \in Seq(S) /\ Len(zeros) = z /\ \A i \in 1 .. z : zeros[i] = 0
      /\ high \in Seq(S) /\ Len(high) = WordBytes /\ \A i \in 1 .. WordBytes : high[i] = 0
  <2> HIDE DEF z, L, S
  <2> QED BY <1>1, <1>4
<1> HIDE DEF S, length, z, zeros, high, L
<1>6. /\ s1 \in Seq(S) /\ Len(s1) = L + 1
      /\ \A k \in 1 .. L : s1[k] = bytes[k]
      /\ s1[L + 1] = 128
  <2> USE DEF L
  <2>1. /\ s1 \in Seq(S) /\ Len(s1) = L + Len(<<128>>)
        /\ \A k \in 1 .. L : s1[k] = bytes[k]
        /\ \A i \in 1 .. Len(<<128>>) : s1[L + i] = <<128>>[i]
    BY <1>3, Joined
  <2> QED BY <1>3, <2>1
<1> HIDE DEF s1
<1>7. /\ s2 \in Seq(S) /\ Len(s2) = L + 1 + z
      /\ \A k \in 1 .. L + 1 : s2[k] = s1[k]
      /\ \A i \in 1 .. z : s2[L + 1 + i] = 0
  <2>1. /\ s2 \in Seq(S) /\ Len(s2) = Len(s1) + Len(zeros)
        /\ \A k \in 1 .. Len(s1) : s2[k] = s1[k]
        /\ \A i \in 1 .. Len(zeros) : s2[Len(s1) + i] = zeros[i]
    <3>1. s1 \in Seq(S) /\ zeros \in Seq(S)
      BY <1>z, <1>6
    <3> QED BY <3>1, Joined
  <2> QED BY <1>z, <1>6, <2>1
<1> HIDE DEF s2
<1>8. /\ s3 \in Seq(S) /\ Len(s3) = L + 1 + z + WordBytes
      /\ \A k \in 1 .. L + 1 + z : s3[k] = s2[k]
      /\ \A i \in 1 .. WordBytes : s3[L + 1 + z + i] = 0
  <2>1. /\ s3 \in Seq(S) /\ Len(s3) = Len(s2) + Len(high)
        /\ \A k \in 1 .. Len(s2) : s3[k] = s2[k]
        /\ \A i \in 1 .. Len(high) : s3[Len(s2) + i] = high[i]
    <3>1. s2 \in Seq(S) /\ high \in Seq(S)
      BY <1>z, <1>7
    <3> QED BY <3>1, Joined
  <2> QED BY <1>z, <1>7, <2>1
<1> HIDE DEF s3
<1>9. /\ Len(p) = L + 1 + z + 2 * WordBytes
      /\ \A k \in 1 .. L + 1 + z + WordBytes : p[k] = s3[k]
      /\ \A i \in 1 .. WordBytes : p[L + 1 + z + WordBytes + i] = length[i]
  <2>1. /\ Len(s3 \o length) = Len(s3) + Len(length)
        /\ \A k \in 1 .. Len(s3) : (s3 \o length)[k] = s3[k]
        /\ \A i \in 1 .. Len(length) : (s3 \o length)[Len(s3) + i] = length[i]
    <3>1. s3 \in Seq(S) /\ length \in Seq(S)
      BY <1>5, <1>8
    <3> QED BY <3>1, Joined
  <2> QED BY <1>z, <1>2, <1>5, <1>8, <2>1
<1>10. Len(p) = Filled(n, c) * BlockLen
  BY <1>1, <1>9
<1>11. ASSUME NEW k \in 1 .. L PROVE p[k] = bytes[k]
  BY <1>z, <1>6, <1>7, <1>8, <1>9
<1>12. p[L + 1] = 128
  BY <1>z, <1>6, <1>7, <1>8, <1>9
<1>13. ASSUME NEW k \in L + 2 .. Len(p) - WordBytes PROVE p[k] = 0
  <2>1. k \in 1 .. L + 1 + z + WordBytes
    BY <1>z, <1>9
  <2>2. CASE k <= L + 1 + z
    <3>1. k - (L + 1) \in 1 .. z /\ L + 1 + (k - (L + 1)) = k /\ k \in 1 .. L + 1 + z
      BY <1>z, <2>1, <2>2
    <3>2. s2[k] = 0
      BY <1>7, <3>1
    <3> QED BY <1>8, <1>9, <2>1, <3>1, <3>2
  <2>3. CASE ~(k <= L + 1 + z)
    <3>1. k - (L + 1 + z) \in 1 .. WordBytes /\ L + 1 + z + (k - (L + 1 + z)) = k
      BY <1>z, <2>1, <2>3
    <3>2. s3[k] = 0
      BY <1>8, <3>1
    <3> QED BY <1>9, <2>1, <3>2
  <2> QED BY <2>2, <2>3
<1>14. ASSUME NEW i \in 1 .. WordBytes PROVE p[Len(p) - WordBytes + i] = length[i]
  <2>1. Len(p) - WordBytes + i = L + 1 + z + WordBytes + i
    BY <1>z, <1>9
  <2> QED BY <1>9, <2>1
<1> QED BY <1>10, <1>11, <1>12, <1>13, <1>14 DEF length, L, IsPadded

\* The digest that the specification reads off the last state of the chain.
LEMMA DigestIs ==
  ASSUME NEW bytes, NEW p, p = Hash!Padded(bytes), NEW n \in Nat, NEW h,
         Len(p) = n * BlockLen, IsChain(h, n, p)
  PROVE  Hash!Digest(bytes) = Stored(h[n])
<1> DEFINE state == h[n]
           W == WordBytes
<1>1. Len(p) \div BlockLen = n /\ Hash!Chain(p)[n] = state
  BY ChainIs
<1>2. Hash!BlockLen = BlockLen
  BY DEF Hash!BlockLen, BlockLen
<1> HIDE DEF state
<1>3. Hash!Digest(bytes)
        = [j \in 1 .. 8 * W |-> (state[(j - 1) \div W] \div 256^(W - 1 - ((j - 1) % W))) % 256]
  BY <1>1, <1>2 DEF Hash!Digest
<1>4. ASSUME NEW j \in 1 .. 8 * W
      PROVE  BigEndian(state[(j - 1) \div W])[((j - 1) % W) + 1]
               = (state[(j - 1) \div W] \div 256^(W - 1 - ((j - 1) % W))) % 256
  <2>1. W \in Nat /\ W > 0 /\ j - 1 \in Nat
    BY Sha512Assumption
  <2>2. ((j - 1) % W) \in 0 .. W - 1
    BY <2>1
  <2>3. ((j - 1) % W) + 1 \in 1 .. W /\ W - (((j - 1) % W) + 1) = W - 1 - ((j - 1) % W)
    BY <2>1, <2>2
  <2> QED BY <2>3 DEF BigEndian
<1>5. Stored(state) = [j \in 1 .. 8 * W |-> BigEndian(state[(j - 1) \div W])[((j - 1) % W) + 1]]
  BY DEF Stored
<1>6. Stored(state) = Hash!Digest(bytes)
  BY <1>3, <1>4, <1>5
<1> QED BY <1>6 DEF state

-----------------------------------------------------------------------------
(* The fields of a context. *)

\* Single fields of a context.
LEMMA ContextFields ==
  ASSUME NEW a, NEW b, NEW s, NEW buf, NEW m, m = Context(a, b, s, buf), NEW x
  PROVE  /\ m.curlen = a /\ m.length = b /\ m.state = s /\ m.buf = buf
         /\ [m EXCEPT !.curlen = x] = Context(x, b, s, buf)
         /\ [m EXCEPT !.length = x] = Context(a, x, s, buf)
         /\ [m EXCEPT !.state = x] = Context(a, b, x, buf)
         /\ [m EXCEPT !.buf = x] = Context(a, b, s, x)
<1>1. m.curlen = a /\ m.length = b /\ m.state = s /\ m.buf = buf
  BY DEF Context
<1>2. [m EXCEPT !.curlen = x] = Context(x, b, s, buf)
  BY DEF Context
<1>3. [m EXCEPT !.length = x] = Context(a, x, s, buf)
  BY DEF Context
<1>4. [m EXCEPT !.state = x] = Context(a, b, x, buf)
  BY DEF Context
<1>5. [m EXCEPT !.buf = x] = Context(a, b, s, x)
  BY DEF Context
<1> QED BY <1>1, <1>2, <1>3, <1>4, <1>5

LEMMA MarkedIs ==
  ASSUME NEW a, NEW b, NEW s, NEW buf, NEW m, m = Context(a, b, s, buf)
  PROVE  Marked(m) = Context(a + 1, b + 8 * a, s, [buf EXCEPT ![a] = 128])
<1> DEFINE g == [m.buf EXCEPT ![m.curlen] = 128]
           k == m.curlen + 1
           l == m.length + 8 * m.curlen
<1>1. m.curlen = a /\ m.length = b /\ m.state = s /\ m.buf = buf
  BY DEF Context
<1>2. Marked(m) = [m EXCEPT !.length = l, !.buf = g, !.curlen = k]
  BY DEF Marked
<1>3. g = [buf EXCEPT ![a] = 128] /\ k = a + 1 /\ l = b + 8 * a
  BY <1>1
<1> HIDE DEF g, k, l
<1> DEFINE m1 == [m EXCEPT !.length = l]
           m2 == [m1 EXCEPT !.buf = g]
           m3 == [m2 EXCEPT !.curlen = k]
<1>4. m1 = Context(a, l, s, buf)
  BY ContextFields
<1>5. [m EXCEPT !.length = l, !.buf = g, !.curlen = k] = m3
  OBVIOUS
<1> HIDE DEF m1
<1>6. m2 = Context(a, l, s, g)
  BY <1>4, ContextFields
<1> HIDE DEF m2
<1>7. m3 = Context(k, l, s, g)
  BY <1>6, ContextFields
<1> HIDE DEF m3
<1> QED BY <1>2, <1>3, <1>5, <1>7

LEMMA ZeroedIs ==
  ASSUME NEW a, NEW b, NEW s, NEW buf, NEW m, m = Context(a, b, s, buf), NEW l
  PROVE  Zeroed(m, l) = Context(l, b, s, [i \in Index |-> IF i \in a .. l - 1 THEN 0 ELSE buf[i]])
<1> DEFINE g == [i \in Index |-> IF i \in m.curlen .. l - 1 THEN 0 ELSE m.buf[i]]
           m1 == [m EXCEPT !.curlen = l]
           m2 == [m1 EXCEPT !.buf = g]
<1>1. m.curlen = a /\ m.buf = buf
  BY ContextFields
<1>2. Zeroed(m, l) = m2
  BY DEF Zeroed
<1>3. g = [i \in Index |-> IF i \in a .. l - 1 THEN 0 ELSE buf[i]]
  BY <1>1
<1> HIDE DEF g
<1>4. m1 = Context(l, b, s, buf)
  BY ContextFields
<1> HIDE DEF m1
<1>5. m2 = Context(l, b, s, g)
  BY <1>4, ContextFields
<1> HIDE DEF m2
<1> QED BY <1>2, <1>3, <1>5

-----------------------------------------------------------------------------
(* The invariant. *)

\* A set of states that compressing a block does not leave.
Closed(S) == IV \in S /\ \A s \in S : \A b \in [Index -> Byte] : Compress(s, b) \in S

Within(state) == \A S : Closed(S) => state \in S

Shape ==
  /\ md = Context(md.curlen, md.length, md.state, md.buf)
  /\ md.curlen \in Index
  /\ md.length \in Nat
  /\ md.buf \in [Index -> Byte]
  /\ Within(md.state)
  /\ in \in Seq(Byte) /\ fed \in Seq(Byte)
  /\ calls \in Seq(Seq(Byte))

LEMMA CompressStays ==
  ASSUME NEW s, Within(s), NEW b \in [Index -> Byte]
  PROVE  Within(Compress(s, b))
  BY DEF Within, Closed

\* The state is the one after all whole blocks of what was fed.
Chained ==
  \E n \in Nat : /\ Len(fed) = n * BlockLen + md.curlen
                 /\ \E h : IsChain(h, n, fed) /\ md.state = h[n]

\* What holds between sha512_init and sha512_final.
Running == digest = NoDigest /\ Chained

HashInv == open \in BOOLEAN /\ Shape /\ (open => Running) /\ Conserved

\* sha512_init counts from zero.
LEMMA BeginKeeps ==
  ASSUME NEW parts \in Seq(Seq(Byte)), HashInv, Begin(parts)
  PROVE  HashInv'
<1>1. md' = Context(0, 0, IV, md.buf) /\ open' = TRUE
  BY DEF Begin
<1>2. md'.curlen = 0 /\ md'.length = 0 /\ md'.state = IV /\ md'.buf = md.buf
  BY <1>1, ContextFields
<1>3. in' = <<>> /\ fed' = <<>> /\ calls' = parts /\ digest' = NoDigest
  BY DEF Begin
<1>4. Shape'
  <2>1. Within(IV)
    BY DEF Within, Closed
  <2> QED BY <1>1, <1>2, <1>3, <2>1, Sizes DEF Shape, HashInv, Index
<1>5. Chained'
  <2> DEFINE h == [i \in 0 .. 0 |-> IV]
  <2>1. IsChain(h, 0, fed') /\ h[0] = IV
    BY DEF IsChain
  <2>2. Len(fed') = 0 * BlockLen + md'.curlen
    BY <1>2, <1>3, Sizes
  <2> HIDE DEF h
  <2> QED BY <1>2, <2>1, <2>2 DEF Chained
<1>6. Conserved'
  BY <1>2, <1>3, Sizes DEF Conserved
<1> QED BY <1>1, <1>3, <1>4, <1>5, <1>6 DEF HashInv, Running

\* A call only hands its bytes over.
LEMMA UpdateKeeps == HashInv /\ Update => HashInv'
<1> SUFFICES ASSUME HashInv, Update PROVE HashInv'
  OBVIOUS
<1>1. open /\ open' = open /\ md' = md /\ fed' = fed /\ digest' = digest /\ Running
  BY DEF Update, HashInv
<1>2. in' \in Seq(Byte) /\ calls' \in Seq(Seq(Byte))
  BY DEF Update, HashInv, Shape
<1>3. Running'
  BY <1>1 DEF Running, Chained
<1>4. Shape' /\ Conserved'
  BY <1>1, <1>2 DEF HashInv, Shape, Conserved
<1> QED BY <1>1, <1>3, <1>4 DEF HashInv

\* What taking the first n bytes does to the two sequences.
LEMMA Taken ==
  ASSUME NEW n \in 1 .. Len(in), NEW m, in \in Seq(Byte), fed \in Seq(Byte), Take(n, m)
  PROVE  /\ in' \in Seq(Byte)
         /\ fed' \in Seq(Byte)
         /\ Len(fed') = Len(fed) + n
         /\ \A j \in 1 .. Len(fed) : fed'[j] = fed[j]
         /\ \A j \in 1 .. n : fed'[Len(fed) + j] = in[j]
<1> DEFINE first == SubSeq(in, 1, n)
<1>1. first \in Seq(Byte) /\ Len(first) = n /\ \A j \in 1 .. n : first[j] = in[j]
  OBVIOUS
<1>2. SubSeq(in, n + 1, Len(in)) \in Seq(Byte)
  OBVIOUS
<1>3. in' = SubSeq(in, n + 1, Len(in)) /\ fed' = fed \o first
  BY DEF Take
<1> HIDE DEF first
<1>4. fed \o first \in Seq(Byte) /\ Len(fed \o first) = Len(fed) + n
  BY <1>1
<1>5. \A j \in 1 .. Len(fed) : (fed \o first)[j] = fed[j]
  BY <1>1
<1>6. ASSUME NEW j \in 1 .. n PROVE (fed \o first)[Len(fed) + j] = in[j]
  <2>1. Len(fed) \in Nat /\ Len(fed) + j \in 1 .. Len(fed) + Len(first) /\ ~(Len(fed) + j =< Len(fed))
    BY <1>1
  <2>2. (fed \o first)[Len(fed) + j] = first[Len(fed) + j - Len(fed)]
    BY <1>1, <2>1
  <2>3. Len(fed) + j - Len(fed) = j
    BY <2>1
  <2> QED BY <1>1, <2>2, <2>3
<1> QED BY <1>2, <1>3, <1>4, <1>5, <1>6

\* The chain of what was fed before, seen in what is fed now.
LEMMA TakenChain ==
  ASSUME HashInv, open, NEW n \in Nat, NEW h, IsChain(h, n, fed),
         Len(fed) = n * BlockLen + md.curlen,
         \A j \in 1 .. Len(fed) : fed'[j] = fed[j]
  PROVE  IsChain(h, n, fed')
<1>1. n * BlockLen \in Nat /\ md.curlen \in Nat
  BY Sizes DEF HashInv, Shape, Index
<1>2. \A k \in 1 .. n * BlockLen : fed'[k] = fed[k]
  BY <1>1
<1> QED BY <1>2, ChainKept

\* A block that is compressed from the input is counted, and is the next one.
LEMMA DirectBlockKeeps == HashInv /\ DirectBlock => HashInv'
<1> SUFFICES ASSUME HashInv, DirectBlock PROVE HashInv'
  OBVIOUS
<1> DEFINE m == Context(0, md.length + 8 * BlockLen, Compress(md.state, InBlock), md.buf)
<1>1. open /\ Running /\ Take(BlockLen, m) /\ md.curlen = 0 /\ Len(in) >= BlockLen
  BY DEF HashInv, DirectBlock, WholeBlock
<1>2. in \in Seq(Byte) /\ fed \in Seq(Byte) /\ calls \in Seq(Seq(Byte)) /\ md.length \in Nat
      /\ Shape /\ digest = NoDigest
  BY <1>1 DEF Running, HashInv, Shape
<1>w. Within(Compress(md.state, InBlock))
  <2>1. \A i \in Index : i + 1 \in 1 .. Len(in)
    BY <1>1, <1>2, Sizes DEF Index
  <2>2. InBlock \in [Index -> Byte]
    BY <1>2, <2>1 DEF InBlock
  <2> QED BY <1>2, <2>2, CompressStays DEF Shape
<1>3. BlockLen \in 1 .. Len(in)
  BY <1>1, <1>2, Sizes
<1>4. in' \in Seq(Byte) /\ fed' \in Seq(Byte) /\ Len(fed') = Len(fed) + BlockLen
      /\ (\A j \in 1 .. Len(fed) : fed'[j] = fed[j])
      /\ \A j \in 1 .. BlockLen : fed'[Len(fed) + j] = in[j]
  BY <1>1, <1>2, <1>3, Taken
<1>5. m.curlen = 0 /\ m.length = md.length + 8 * BlockLen /\ m.buf = md.buf
      /\ m.state = Compress(md.state, InBlock)
      /\ m = Context(m.curlen, m.length, m.state, m.buf)
  BY ContextFields
<1> HIDE DEF m
<1>6. md' = m /\ open' /\ calls' = calls /\ digest' = NoDigest /\ open' = open
  BY <1>1, <1>2 DEF Take
<1>7. Shape'
  BY <1>2, <1>w, <1>4, <1>5, <1>6, Sizes DEF Shape, Index
<1>n. PICK n \in Nat : \E h :
        Len(fed) = n * BlockLen + md.curlen /\ IsChain(h, n, fed)
        /\ md.state = h[n]
  BY <1>1 DEF Running, Chained
<1>8. PICK h :
        Len(fed) = n * BlockLen + md.curlen /\ IsChain(h, n, fed)
        /\ md.state = h[n]
  BY <1>n
<1>9. IsChain(h, n, fed')
  BY <1>1, <1>4, <1>8, TakenChain
<1>10. BlockOf(fed', n + 1) = InBlock
  <2>1. ASSUME NEW j \in Index PROVE fed'[((n + 1) - 1) * BlockLen + j + 1] = in[j + 1]
    <3>1. j + 1 \in 1 .. BlockLen /\ ((n + 1) - 1) * BlockLen = n * BlockLen
      BY Sizes DEF Index
    <3>2. ((n + 1) - 1) * BlockLen + j + 1 = Len(fed) + (j + 1)
      BY <1>1, <1>8, <3>1, Sizes DEF Index
    <3> QED BY <1>4, <3>1, <3>2
  <2> QED BY <2>1 DEF BlockOf, InBlock
<1>11. PICK g : IsChain(g, n + 1, fed') /\ g[n + 1] = Compress(h[n], BlockOf(fed', n + 1))
  BY <1>9, ChainExtends
<1>12. Chained'
  <2>1. md'.state = g[n + 1] /\ md'.curlen = 0
    BY <1>5, <1>6, <1>8, <1>10, <1>11
  <2>2. Len(fed') = (n + 1) * BlockLen + md'.curlen
    BY <1>1, <1>4, <1>8, <2>1, Sizes
  <2> QED BY <1>11, <2>1, <2>2 DEF Chained
<1>13. Running'
  BY <1>6, <1>12 DEF Running
<1>14. Conserved'
  <2>1. md.length = 8 * Len(fed)
    BY <1>1, <1>2 DEF HashInv, Conserved
  <2>2. md'.curlen = 0 /\ md'.length = md.length + 8 * BlockLen
    BY <1>5, <1>6
  <2> QED BY <1>2, <1>4, <2>1, <2>2, Sizes DEF Conserved
<1> QED BY <1>6, <1>7, <1>13, <1>14 DEF HashInv

\* How many bytes still fit into the buffer.
Fitting == IF Len(in) < BlockLen - md.curlen THEN Len(in) ELSE BlockLen - md.curlen

\* The n bytes this step reads go on in the buffer, whose first byte is byte old + 1 of the message.
Follows(n, old) ==
  /\ n \in Nat /\ n <= BlockLen - md.curlen
  /\ in' \in Seq(Byte) /\ fed' \in Seq(Byte) /\ Len(fed') = Len(fed) + n
  /\ \A j \in 1 .. Len(fed) : fed'[j] = fed[j]
  /\ Buffered(n) \in [Index -> Byte]
  /\ \A i \in 0 .. md.curlen + n - 1 : Buffered(n)[i] = fed'[old + i + 1]

\* Bytes that go into the buffer follow those that are there.
LEMMA BufferFollows ==
  ASSUME HashInv, open, in # <<>>, NEW n, n = Fitting, NEW m, Take(n, m), NEW old, old = Len(fed) - md.curlen
  PROVE  Follows(n, old)
<1>1. in \in Seq(Byte) /\ fed \in Seq(Byte) /\ md.curlen \in 0 .. BlockLen - 1
      /\ md.buf \in [Index -> Byte]
  BY DEF HashInv, Shape, Index
<1>2. n \in 1 .. Len(in) /\ n \in Nat /\ n <= BlockLen - md.curlen
  BY <1>1, Sizes DEF Fitting
<1>3. \A i \in 0 .. md.curlen - 1 : md.buf[i] = fed[old + i + 1]
  BY DEF HashInv, Conserved
<1>4. in' \in Seq(Byte) /\ fed' \in Seq(Byte) /\ Len(fed') = Len(fed) + n
      /\ (\A j \in 1 .. Len(fed) : fed'[j] = fed[j])
      /\ \A j \in 1 .. n : fed'[Len(fed) + j] = in[j]
  BY <1>1, <1>2, Taken
<1>5. old \in 0 .. Len(fed) /\ Len(fed) = old + md.curlen
  <2>1. PICK k \in Nat : Len(fed) = k * BlockLen + md.curlen
    BY DEF HashInv, Running, Chained
  <2>2. k * BlockLen \in Nat
    BY Sizes
  <2> QED BY <1>1, <2>1, <2>2
<1>6. ASSUME NEW i \in Index
      PROVE  Buffered(n)[i] = IF i \in md.curlen .. md.curlen + n - 1 THEN in[i - md.curlen + 1]
                              ELSE md.buf[i]
  BY DEF Buffered
<1>7. ASSUME NEW i \in Index PROVE Buffered(n)[i] \in Byte
  <2>1. CASE i \in md.curlen .. md.curlen + n - 1
    <3>1. i - md.curlen + 1 \in 1 .. Len(in)
      BY <1>1, <1>2, <2>1
    <3> QED BY <1>1, <1>6, <2>1, <3>1
  <2>2. CASE i \notin md.curlen .. md.curlen + n - 1
    BY <1>1, <1>6, <2>2
  <2> QED BY <2>1, <2>2
<1>8. ASSUME NEW i \in 0 .. md.curlen + n - 1 PROVE Buffered(n)[i] = fed'[old + i + 1]
  <2>1. i \in Index /\ i \in Int
    BY <1>1, <1>2, Sizes DEF Index
  <2>2. CASE i < md.curlen
    <3>1. Buffered(n)[i] = md.buf[i]
      BY <1>1, <1>6, <2>1, <2>2
    <3>2. md.buf[i] = fed[old + i + 1]
      BY <1>1, <1>3, <2>2
    <3>3. old + i + 1 \in 1 .. Len(fed)
      BY <1>1, <1>5, <2>2
    <3> QED BY <1>4, <3>1, <3>2, <3>3
  <2>3. CASE ~(i < md.curlen)
    <3>1. Buffered(n)[i] = in[i - md.curlen + 1]
      BY <1>1, <1>6, <2>1, <2>3
    <3>2. i - md.curlen + 1 \in 1 .. n
      BY <1>1, <1>2, <2>1, <2>3
    <3>3. fed'[Len(fed) + (i - md.curlen + 1)] = in[i - md.curlen + 1]
      BY <1>4, <3>2
    <3>4. Len(fed) + (i - md.curlen + 1) = old + i + 1
      BY <1>1, <1>5, <2>1
    <3> QED BY <3>1, <3>3, <3>4
  <2> QED BY <2>2, <2>3
<1>9. Buffered(n) \in [Index -> Byte]
  <2>1. Buffered(n) = [i \in Index |-> Buffered(n)[i]]
    BY DEF Buffered
  <2> QED BY <1>7, <2>1
<1> QED BY <1>2, <1>4, <1>8, <1>9 DEF Follows

\* The buffer is compressed when it is full, and only then.
LEMMA FillBufferKeeps == HashInv /\ FillBuffer => HashInv'
<1> SUFFICES ASSUME HashInv, FillBuffer PROVE HashInv'
  OBVIOUS
<1> DEFINE n == Fitting
           old == Len(fed) - md.curlen
           m == IF n < BlockLen - md.curlen
                THEN Context(md.curlen + n, md.length, md.state, Buffered(n))
                ELSE Context(0, md.length + 8 * BlockLen, Compress(md.state, Buffered(n)), Buffered(n))
<1>1. open /\ Running /\ Shape /\ Take(n, m) /\ in # <<>>
  BY DEF HashInv, FillBuffer, Fitting
<1>2. fed \in Seq(Byte) /\ calls \in Seq(Seq(Byte)) /\ md.length \in Nat
      /\ md.curlen \in 0 .. BlockLen - 1 /\ digest = NoDigest
  BY <1>1 DEF Running, Shape, Index
<1> HIDE DEF m
<1>3. /\ n \in Nat /\ n <= BlockLen - md.curlen
      /\ in' \in Seq(Byte) /\ fed' \in Seq(Byte) /\ Len(fed') = Len(fed) + n
      /\ (\A j \in 1 .. Len(fed) : fed'[j] = fed[j])
      /\ Buffered(n) \in [Index -> Byte]
      /\ \A i \in 0 .. md.curlen + n - 1 : Buffered(n)[i] = fed'[old + i + 1]
  <2> HIDE DEF n, old
  <2>1. n = Fitting /\ old = Len(fed) - md.curlen
    BY DEF n, old
  <2>2. HashInv /\ open /\ in # <<>> /\ Take(n, m)
    BY <1>1
  <2>3. Follows(n, old)
    BY <2>1, <2>2, BufferFollows, Zenon
  <2> QED BY <2>3 DEF Follows
<1> HIDE DEF n
<1>4. md' = m /\ open' /\ open' = open /\ calls' = calls /\ digest' = NoDigest
  BY <1>1, <1>2 DEF Take
<1>k. PICK k \in Nat : \E h :
        Len(fed) = k * BlockLen + md.curlen /\ IsChain(h, k, fed)
        /\ md.state = h[k]
  BY <1>1 DEF Running, Chained
<1>5. PICK h :
        Len(fed) = k * BlockLen + md.curlen /\ IsChain(h, k, fed)
        /\ md.state = h[k]
  BY <1>k
<1>6. old = k * BlockLen /\ k * BlockLen \in Nat /\ old \in Nat /\ md.length = 8 * old
  BY <1>1, <1>2, <1>5, Sizes DEF HashInv, Conserved
<1>7. IsChain(h, k, fed')
  BY <1>1, <1>3, <1>5, TakenChain
<1>8. CASE n < BlockLen - md.curlen
  <2>1. m = Context(md.curlen + n, md.length, md.state, Buffered(n))
    BY <1>8 DEF m
  <2>2. md'.curlen = md.curlen + n /\ md'.length = md.length /\ md'.buf = Buffered(n)
        /\ md'.state = md.state /\ md' = Context(md'.curlen, md'.length, md'.state, md'.buf)
    BY <1>4, <2>1, ContextFields
  <2>3. md'.curlen \in Index
    BY <1>2, <1>3, <1>8, <2>2, Sizes DEF Index
  <2>4. Shape'
    BY <1>1, <1>2, <1>3, <1>4, <2>2, <2>3 DEF Shape
  <2>5. Chained'
    <3>1. Len(fed') = k * BlockLen + md'.curlen
      BY <1>2, <1>3, <1>5, <1>6, <2>2
    <3> QED BY <1>5, <1>7, <2>2, <3>1 DEF Chained
  <2>6. Conserved'
    <3>1. Len(fed') - md'.curlen = old
      BY <1>2, <1>3, <2>2
    <3>2. ASSUME NEW i \in 0 .. md'.curlen - 1 PROVE md'.buf[i] = fed'[old + i + 1]
      <4> HIDE DEF old
      <4>1. i \in 0 .. md.curlen + n - 1
        BY <1>2, <1>3, <2>2
      <4> QED BY <1>3, <2>2, <4>1
    <3>3. md'.curlen < BlockLen /\ md'.length = 8 * old
      BY <1>6, <2>2, <2>3, Sizes DEF Index
    <3> HIDE DEF old
    <3> QED BY <3>1, <3>2, <3>3 DEF Conserved
  <2> QED BY <1>2, <1>3, <1>4, <2>4, <2>5, <2>6 DEF HashInv, Running
<1>9. CASE ~(n < BlockLen - md.curlen)
  <2>1. m = Context(0, md.length + 8 * BlockLen, Compress(md.state, Buffered(n)), Buffered(n))
    BY <1>9 DEF m
  <2>2. md'.curlen = 0 /\ md'.length = md.length + 8 * BlockLen /\ md'.buf = Buffered(n)
        /\ md'.state = Compress(md.state, Buffered(n))
        /\ md' = Context(md'.curlen, md'.length, md'.state, md'.buf)
    BY <1>4, <2>1, ContextFields
  <2>3. md.curlen + n = BlockLen
    BY <1>1, <1>2, <1>3, <1>9, Sizes DEF Fitting, n
  <2>4. Len(fed') = old + BlockLen
    <3>1. Len(fed) \in Nat /\ md.curlen \in Int /\ n \in Int
      BY <1>2, <1>3
    <3> QED BY <1>3, <2>3, <3>1
  <2>5. Shape'
    <3>1. Within(Compress(md.state, Buffered(n)))
      BY <1>1, <1>3, CompressStays DEF Shape
    <3> QED BY <1>2, <1>3, <1>4, <2>2, <3>1, Sizes DEF Shape, Index
  <2>6. BlockOf(fed', k + 1) = Buffered(n)
    <3>1. ASSUME NEW j \in Index
          PROVE  fed'[((k + 1) - 1) * BlockLen + j + 1] = Buffered(n)[j]
      <4>1. j \in 0 .. md.curlen + n - 1 /\ (k + 1) - 1 = k
        BY <1>2, <1>3, <2>3 DEF Index
      <4>2. ((k + 1) - 1) * BlockLen + j + 1 = old + j + 1
        BY <1>6, <4>1
      <4> QED BY <1>3, <4>1, <4>2
    <3>2. Buffered(n) = [j \in Index |-> Buffered(n)[j]]
      BY DEF Buffered
    <3> QED BY <3>1, <3>2 DEF BlockOf
  <2>7. PICK g : IsChain(g, k + 1, fed') /\ g[k + 1] = Compress(h[k], BlockOf(fed', k + 1))
    BY <1>7, ChainExtends
  <2>8. Chained'
    <3>1. md'.state = g[k + 1]
      BY <1>5, <2>2, <2>6, <2>7
    <3>2. Len(fed') = (k + 1) * BlockLen + md'.curlen
      BY <1>6, <2>2, <2>4, Sizes
    <3> QED BY <2>7, <3>1, <3>2 DEF Chained
  <2>9. Conserved'
    <3> HIDE DEF old
    <3> QED BY <1>6, <2>2, <2>4, Sizes DEF Conserved
  <2> QED BY <1>2, <1>3, <1>4, <2>5, <2>8, <2>9 DEF HashInv, Running
<1> QED BY <1>8, <1>9

LEMMA LowByte ==
  ASSUME NEW x \in Nat, NEW k \in Nat
  PROVE  (x \div 256^k) % 256 \in Byte
  BY DEF Byte

\* A message whose last block, from position a on, is z and then the number l.
EndsWith(p, a, z, l) ==
  /\ Len(p) = a + BlockLen
  /\ \A i \in 0 .. LengthAt - 1 : p[a + i + 1] = z[i]
  /\ \A i \in 1 .. WordBytes : p[Len(p) - WordBytes + i] = BigEndian(l)[i]

LEMMA LastIs ==
  ASSUME NEW l \in Nat, NEW st, NEW z \in [Index -> Byte], NEW m, m = Context(LengthAt, l, st, z),
         NEW q \in Nat, NEW p, EndsWith(p, q * BlockLen, z, l)
  PROVE  LastBlock(m) = BlockOf(p, q + 1) /\ LastBlock(m) \in [Index -> Byte]
<1>1. m.length = l /\ m.buf = z
  BY ContextFields
<1> DEFINE a == q * BlockLen
<1>2. /\ BlockLen \in Nat /\ LengthAt \in Nat /\ WordBytes \in Nat /\ LengthAt + WordBytes = BlockLen
      /\ a \in Nat /\ Len(p) = a + BlockLen
  <2>1. LengthAt \in Nat /\ LengthAt + WordBytes = BlockLen
    BY Sizes DEF LengthAt, BlockLen
  <2>2. a \in Nat
    BY Sizes
  <2> QED BY <2>1, <2>2, Sizes DEF EndsWith
<1>3. LastBlock(m) = [i \in Index |-> IF i < LengthAt THEN z[i] ELSE BigEndian(l)[i - LengthAt + 1]]
  BY <1>1 DEF LastBlock
<1>4. ASSUME NEW k \in 1 .. WordBytes PROVE BigEndian(l)[k] \in Byte
  <2>1. BigEndian(l)[k] = (l \div 256^(WordBytes - k)) % 256
    BY DEF BigEndian
  <2>2. PICK e \in Nat : e = WordBytes - k
    BY <1>2
  <2>3. BigEndian(l)[k] = (l \div 256^e) % 256
    BY <2>1, <2>2
  <2> QED BY <2>3, LowByte
<1>5. ASSUME NEW i \in Index
      PROVE  /\ LastBlock(m)[i] = p[((q + 1) - 1) * BlockLen + i + 1]
             /\ LastBlock(m)[i] \in Byte
  <2>1. i \in 0 .. BlockLen - 1 /\ (q + 1) - 1 = q
    BY DEF Index
  <2>2. ((q + 1) - 1) * BlockLen + i + 1 = a + i + 1
    BY <2>1
  <2> HIDE DEF a
  <2>3. CASE i < LengthAt
    <3>1. i \in 0 .. LengthAt - 1
      BY <1>2, <2>1, <2>3
    <3>2. p[a + i + 1] = z[i]
      BY <3>1 DEF EndsWith, a
    <3>3. LastBlock(m)[i] = z[i]
      BY <1>3, <2>3
    <3> QED BY <2>2, <3>2, <3>3
  <2>4. CASE ~(i < LengthAt)
    <3>1. i - LengthAt + 1 \in 1 .. WordBytes
          /\ a + i + 1 = Len(p) - WordBytes + (i - LengthAt + 1)
      BY <1>2, <2>1, <2>4
    <3>2. p[a + i + 1] = BigEndian(l)[i - LengthAt + 1]
      BY <3>1 DEF EndsWith, a
    <3>3. LastBlock(m)[i] = BigEndian(l)[i - LengthAt + 1]
      BY <1>3, <2>4
    <3> QED BY <1>4, <2>2, <3>1, <3>2, <3>3
  <2> QED BY <2>3, <2>4
<1>6. LastBlock(m) = [i \in Index |-> LastBlock(m)[i]]
  BY DEF LastBlock
<1> QED BY <1>5, <1>6 DEF BlockOf

\* sha512_final pads as the standard does: with one block more or with two.
LEMMA FinalKeeps ==
  ASSUME HashInv, Final
  PROVE  /\ HashInv'
         /\ digest' = Hash!Digest(fed)
         /\ digest' = Stored(md'.state)
<1> DEFINE c == md.curlen
           s == md.state
           L == Len(fed)
           p == Hash!Padded(fed)
           g1 == [md.buf EXCEPT ![c] = 128]
           m1 == Marked(md)
           m3 == Zeroed(Emptied(m1), LengthAt)
           last == LastBlock(m3)
           state == Compress(m3.state, last)
<1>1. open /\ Running /\ Shape /\ fed \in Seq(Byte) /\ md.buf \in [Index -> Byte] /\ c \in Index
      /\ L \in Nat
  BY DEF Final, HashInv, Shape
<1>n. PICK n \in Nat : \E h :
        L = n * BlockLen + c /\ IsChain(h, n, fed) /\ s = h[n]
  BY <1>1 DEF Running, Chained
<1>2. PICK h :
        L = n * BlockLen + c /\ IsChain(h, n, fed) /\ s = h[n]
  BY <1>n
<1>3. /\ n * BlockLen \in Nat /\ c \in 0 .. BlockLen - 1 /\ BlockLen \in Nat
      /\ WordBytes \in Nat /\ WordBytes > 0
      /\ LengthAt = BlockLen - WordBytes /\ LengthAt - WordBytes \in Nat
      /\ (n + 1) * BlockLen = n * BlockLen + BlockLen
      /\ (n + 2) * BlockLen = n * BlockLen + 2 * BlockLen
  BY <1>1, Sizes, Sha512Assumption DEF Index, LengthAt, BlockLen
<1>4. md.length = 8 * (L - c) /\ \A i \in 0 .. c - 1 : md.buf[i] = fed[L - c + i + 1]
  BY <1>1 DEF HashInv, Conserved
<1>5. m1 = Context(c + 1, 8 * L, s, g1)
  <2>1. md = Context(c, md.length, s, md.buf)
    BY <1>1 DEF Shape
  <2>2. md.length + 8 * c = 8 * L
    BY <1>1, <1>3, <1>4
  <2>3. m1 = Context(c + 1, md.length + 8 * c, s, [md.buf EXCEPT ![c] = 128])
    BY <2>1, MarkedIs
  <2> QED BY <2>2, <2>3
<1>6. g1 \in [Index -> Byte] /\ \A i \in Index : g1[i] = IF i = c THEN 128 ELSE md.buf[i]
  <2>1. md.buf \in [Index -> Byte] /\ c \in Index /\ 128 \in Byte
    BY <1>1 DEF Byte
  <2> HIDE DEF c
  <2> QED BY <2>1
<1>7. /\ Len(p) = Filled(n, c) * BlockLen
      /\ \A k \in 1 .. L : p[k] = fed[k]
      /\ p[L + 1] = 128
      /\ \A k \in L + 2 .. Len(p) - WordBytes : p[k] = 0
      /\ \A i \in 1 .. WordBytes : p[Len(p) - WordBytes + i] = BigEndian(8 * L)[i]
  <2> HIDE DEF p, c
  <2>1. p = Hash!Padded(fed)
    BY DEF p
  <2>2. fed \in Seq(Byte) /\ c \in Index /\ Len(fed) = n * BlockLen + c
    BY <1>1, <1>2
  <2>3. Len(p) = Filled(n, c) * BlockLen /\ IsPadded(p, fed)
    BY <2>1, <2>2, PaddedShape
  <2> QED BY <2>3 DEF IsPadded
<1> HIDE DEF p, c, s, g1, m1, L
<1>8. ASSUME NEW i \in 0 .. c PROVE p[n * BlockLen + i + 1] = g1[i]
  <2>1. i \in Index
    BY <1>3 DEF Index
  <2>2. CASE i = c
    BY <1>2, <1>6, <1>7, <2>1, <2>2
  <2>3. CASE i # c
    <3>1. i \in 0 .. c - 1 /\ n * BlockLen + i + 1 \in 1 .. L /\ L - c + i + 1 = n * BlockLen + i + 1
      BY <1>2, <1>3, <2>3
    <3> QED BY <1>4, <1>6, <1>7, <2>1, <2>3, <3>1
  <2> QED BY <2>2, <2>3
<1>9. IsChain(h, n, p)
  <2>1. \A k \in 1 .. n * BlockLen : p[k] = fed[k]
    BY <1>2, <1>3, <1>7
  <2> QED BY <1>2, <2>1, ChainKept
<1>w. Within(s)
  BY <1>1 DEF Shape, s
<1>10. /\ \E st, z : m3 = Context(LengthAt, 8 * L, st, z) /\ Within(st)
       /\ last \in [Index -> Byte]
       /\ \E g, e : e \in Nat /\ Len(p) = e * BlockLen /\ IsChain(g, e, p) /\ state = g[e]
  <2>1. CASE c < LengthAt - WordBytes
    <3> DEFINE z == [i \in Index |-> IF i \in c + 1 .. LengthAt - 1 THEN 0 ELSE g1[i]]
    <3>1. m3 = Context(LengthAt, 8 * L, s, z)
      <4>1. m1.curlen = c + 1
        BY <1>5, ContextFields
      <4>2. Emptied(m1) = m1
        BY <1>3, <2>1, <4>1 DEF Emptied
      <4> QED BY <1>5, <4>2, ZeroedIs
    <3>2. Len(p) = (n + 1) * BlockLen
      BY <1>7, <2>1 DEF Filled
    <3>3. z \in [Index -> Byte]
      BY <1>6 DEF Byte
    <3>4. ASSUME NEW i \in 0 .. LengthAt - 1 PROVE p[n * BlockLen + i + 1] = z[i]
      <4>1. i \in Index
        BY <1>3 DEF Index
      <4>2. CASE i \in 0 .. c
        BY <1>3, <1>8, <4>1, <4>2
      <4>3. CASE i \notin 0 .. c
        <5>1. i \in c + 1 .. LengthAt - 1 /\ n * BlockLen + i + 1 \in L + 2 .. Len(p) - WordBytes
          BY <1>2, <1>3, <3>2, <4>3
        <5> QED BY <1>7, <4>1, <5>1
      <4> QED BY <4>2, <4>3
    <3> HIDE DEF z, m3
    <3>5. last = BlockOf(p, n + 1) /\ last \in [Index -> Byte]
      <4>1. 8 * L \in Nat
        BY <1>1
      <4>2. EndsWith(p, n * BlockLen, z, 8 * L)
        BY <1>3, <1>7, <3>2, <3>4 DEF EndsWith
      <4> QED BY <3>1, <3>3, <4>1, <4>2, LastIs
    <3>6. m3.state = s
      BY <3>1, ContextFields
    <3>7. PICK g : IsChain(g, n + 1, p) /\ g[n + 1] = Compress(h[n], BlockOf(p, n + 1))
      BY <1>9, ChainExtends
    <3>8. state = g[n + 1]
      BY <1>2, <3>5, <3>6, <3>7
    <3> QED BY <1>w, <3>1, <3>2, <3>5, <3>7, <3>8
  <2>2. CASE ~(c < LengthAt - WordBytes)
    <3> DEFINE f == [i \in Index |-> IF i \in c + 1 .. BlockLen - 1 THEN 0 ELSE g1[i]]
               full == Zeroed(m1, BlockLen)
               z == [i \in Index |-> IF i \in 0 .. LengthAt - 1 THEN 0 ELSE f[i]]
               st == Compress(s, f)
    <3>1. full = Context(BlockLen, 8 * L, s, f)
      BY <1>5, ZeroedIs
    <3>2. Emptied(m1) = Context(0, 8 * L, st, f)
      <4>1. m1.curlen = c + 1
        BY <1>5, ContextFields
      <4>2. Emptied(m1) = [full EXCEPT !.state = Compress(@, full.buf), !.curlen = 0]
        BY <1>3, <2>2, <4>1 DEF Emptied
      <4>3. full.state = s /\ full.buf = f
        BY <3>1, ContextFields
      <4> HIDE DEF full, f
      <4> DEFINE m == [full EXCEPT !.state = st]
      <4>4. Emptied(m1) = [m EXCEPT !.curlen = 0]
        BY <4>2, <4>3
      <4>5. m = Context(BlockLen, 8 * L, st, f)
        BY <3>1, ContextFields
      <4> HIDE DEF m, st
      <4> QED BY <4>4, <4>5, ContextFields
    <3>3. m3 = Context(LengthAt, 8 * L, st, z)
      <4> HIDE DEF f, st
      <4> QED BY <3>2, ZeroedIs
    <3>4. Len(p) = (n + 2) * BlockLen
      BY <1>7, <2>2 DEF Filled
    <3>5. f \in [Index -> Byte]
      BY <1>6 DEF Byte
    <3>6. z \in [Index -> Byte]
      <4> HIDE DEF f
      <4> QED BY <3>5 DEF Byte
    <3>7. f = BlockOf(p, n + 1)
      <4>1. ASSUME NEW i \in Index PROVE f[i] = p[((n + 1) - 1) * BlockLen + i + 1]
        <5>1. i \in 0 .. BlockLen - 1 /\ (n + 1) - 1 = n
          BY DEF Index
        <5>2. ((n + 1) - 1) * BlockLen + i + 1 = n * BlockLen + i + 1
          BY <5>1
        <5>3. CASE i \in 0 .. c
          <6>1. f[i] = g1[i]
            BY <1>3, <5>3
          <6> QED BY <1>8, <5>2, <5>3, <6>1
        <5>4. CASE i \notin 0 .. c
          <6>1. i \in c + 1 .. BlockLen - 1 /\ n * BlockLen + i + 1 \in L + 2 .. Len(p) - WordBytes
            BY <1>2, <1>3, <3>4, <5>1, <5>4
          <6>2. f[i] = 0
            BY <6>1
          <6> QED BY <1>7, <5>2, <6>1, <6>2
        <5> QED BY <5>3, <5>4
      <4> QED BY <4>1 DEF BlockOf
    <3> DEFINE q == n + 1
    <3>8. ASSUME NEW i \in 0 .. LengthAt - 1 PROVE p[q * BlockLen + i + 1] = z[i]
      <4>1. i \in Index
        BY <1>3 DEF Index
      <4>2. q * BlockLen + i + 1 \in L + 2 .. Len(p) - WordBytes
        BY <1>2, <1>3, <3>4
      <4> QED BY <1>7, <4>1, <4>2
    <3> HIDE DEF z, f, st, m3
    <3>9. last = BlockOf(p, q + 1) /\ last \in [Index -> Byte]
      <4>1. 8 * L \in Nat /\ q \in Nat /\ q + 1 = n + 2
        BY <1>1
      <4>2. Len(p) = q * BlockLen + BlockLen
        BY <1>3, <3>4
      <4> HIDE DEF q
      <4>3. EndsWith(p, q * BlockLen, z, 8 * L)
        BY <1>7, <3>8, <4>2 DEF EndsWith
      <4> QED BY <3>3, <3>6, <4>1, <4>3, LastIs
    <3>10. PICK g : IsChain(g, n + 1, p) /\ g[n + 1] = Compress(h[n], BlockOf(p, n + 1))
      BY <1>9, ChainExtends
    <3>11. PICK k : IsChain(k, (n + 1) + 1, p)
                    /\ k[(n + 1) + 1] = Compress(g[n + 1], BlockOf(p, (n + 1) + 1))
      BY <3>10, ChainExtends
    <3>12. (n + 1) + 1 = n + 2
      OBVIOUS
    <3>w. Within(st)
      BY <1>w, <3>5, CompressStays DEF st
    <3>13. m3.state = g[n + 1]
      <4>1. m3.state = st
        BY <3>3, ContextFields
      <4> QED BY <1>2, <3>7, <3>10, <4>1 DEF st
    <3>14. state = k[n + 2]
      BY <3>9, <3>11, <3>12, <3>13
    <3>15. IsChain(k, n + 2, p)
      BY <3>11, <3>12
    <3> QED BY <3>w, <3>3, <3>4, <3>9, <3>14, <3>15
  <2> QED BY <2>1, <2>2
<1>11. digest' = Stored(state) /\ md' = [m3 EXCEPT !.state = state, !.buf = last] /\ ~open'
       /\ open' = FALSE
  BY DEF Final, m1
<1>12. digest' = Hash!Digest(fed)
  <2> HIDE DEF m3, last, state
  <2>1. PICK g, e : e \in Nat /\ Len(p) = e * BlockLen /\ IsChain(g, e, p) /\ state = g[e]
    BY <1>10
  <2>2. p = Hash!Padded(fed)
    BY DEF p
  <2>3. Hash!Digest(fed) = Stored(g[e])
    BY <2>1, <2>2, DigestIs
  <2> QED BY <1>11, <2>1, <2>3
<1>13. Shape' /\ md'.state = state
  <2> HIDE DEF m3, last, state
  <2>1. PICK st, z : m3 = Context(LengthAt, 8 * L, st, z) /\ Within(st)
    BY <1>10
  <2> DEFINE m == [m3 EXCEPT !.state = state]
  <2>2. m = Context(LengthAt, 8 * L, state, z)
    BY <2>1, ContextFields
  <2>3. md' = [m EXCEPT !.buf = last]
    BY <1>11
  <2> HIDE DEF m
  <2>4. md' = Context(LengthAt, 8 * L, state, last)
    BY <2>2, <2>3, ContextFields
  <2>5. /\ md'.curlen = LengthAt /\ md'.length = 8 * L /\ md'.state = state /\ md'.buf = last
    BY <2>4, ContextFields
  <2>6. LengthAt \in Index /\ 8 * L \in Nat
    BY <1>1, <1>3 DEF Index
  <2>7. Within(state)
    <3>1. m3.state = st
      BY <2>1, ContextFields
    <3> QED BY <1>10, <2>1, <3>1, CompressStays DEF state
  <2>8. in' = in /\ fed' = fed /\ calls' = calls
    BY DEF Final
  <2>9. Shape'
    BY <1>1, <1>10, <2>4, <2>5, <2>6, <2>7, <2>8 DEF Shape
  <2> QED BY <2>5, <2>9
<1> QED BY <1>11, <1>12, <1>13 DEF HashInv, Conserved

-----------------------------------------------------------------------------
(* The refinement. *)

\* A step of the hash, for whatever is hashed.
HashStep ==
  \/ \E parts \in Seq(Seq(Byte)) : Begin(parts)
  \/ Update \/ DirectBlock \/ FillBuffer \/ Final

LEMMA HashInitial == HashInit => HashInv /\ Hash!Init
<1> SUFFICES ASSUME HashInit PROVE HashInv /\ Hash!Init
  OBVIOUS
<1>1. PICK buf \in Garbage : md = Context(0, 0, IV, buf)
  BY DEF HashInit
<1>2. md.curlen = 0 /\ md.length = 0 /\ md.state = IV /\ md.buf = buf
  BY <1>1, ContextFields
<1>3. buf \in [Index -> Byte] /\ 0 \in Index
  BY Sha512Assumption, Sizes DEF Index
<1>4. Shape
  BY <1>1, <1>2, <1>3 DEF Shape, HashInit, Within, Closed
<1> QED BY <1>4 DEF HashInit, HashInv, Conserved, Hash!Init

LEMMA HashStepKeeps == HashInv /\ [HashStep]_hash_vars => HashInv'
<1> SUFFICES ASSUME HashInv, [HashStep]_hash_vars PROVE HashInv'
  OBVIOUS
<1>1. CASE \E parts \in Seq(Seq(Byte)) : Begin(parts)
  BY <1>1, BeginKeeps
<1>2. CASE Update
  BY <1>2, UpdateKeeps
<1>3. CASE DirectBlock
  BY <1>3, DirectBlockKeeps
<1>4. CASE FillBuffer
  BY <1>4, FillBufferKeeps
<1>5. CASE Final
  BY <1>5, FinalKeeps
<1>6. CASE UNCHANGED hash_vars
  BY <1>6 DEF hash_vars, HashInv, Shape, Running, Chained, Conserved
<1> QED BY <1>1, <1>2, <1>3, <1>4, <1>5, <1>6 DEF HashStep

\* Taking bytes only adds them to the text.
LEMMA TakeAbsorbs ==
  ASSUME HashInv, open, NEW n \in 1 .. Len(in), NEW m, Take(n, m)
  PROVE  Hash!Absorb
<1>1. in \in Seq(Byte) /\ fed \in Seq(Byte) /\ digest = NoDigest
  BY DEF HashInv, Shape, Running
<1>2. /\ fed' \in Seq(Byte) /\ Len(fed') = Len(fed) + n
      /\ \A j \in 1 .. Len(fed) : fed'[j] = fed[j]
  BY <1>1, Taken
<1>3. Len(fed) \in Nat /\ Len(fed') >= Len(fed)
  BY <1>1, <1>2
<1>4. SubSeq(fed', 1, Len(fed)) = fed
  <2> DEFINE first == SubSeq(fed', 1, Len(fed))
  <2>1. /\ first \in Seq(Byte) /\ Len(first) = Len(fed)
        /\ \A j \in 1 .. Len(fed) : first[j] = fed'[j]
    BY <1>2, <1>3
  <2> HIDE DEF first
  <2>2. first = fed
    BY <1>1, <1>2, <2>1, SameSequence
  <2> QED BY <2>2 DEF first
<1> QED BY <1>1, <1>3, <1>4 DEF Take, Hash!Absorb

\* Every step of the context is one of the specification, or none.
LEMMA HashStepImplements == HashInv /\ [HashStep]_hash_vars => [Hash!Next]_<<fed, digest>>
<1> SUFFICES ASSUME HashInv, [HashStep]_hash_vars PROVE [Hash!Next]_<<fed, digest>>
  OBVIOUS
<1>1. CASE \E parts \in Seq(Seq(Byte)) : Begin(parts)
  BY <1>1 DEF Begin, Hash!Next, Hash!Start
<1>2. CASE Update
  BY <1>2 DEF Update
<1>3. CASE DirectBlock
  <2>1. open /\ Len(in) >= BlockLen /\ in \in Seq(Byte)
    BY <1>3 DEF DirectBlock, WholeBlock, HashInv, Shape
  <2>2. BlockLen \in 1 .. Len(in)
    BY <2>1, Sizes
  <2>3. Hash!Absorb
    BY <1>3, <2>1, <2>2, TakeAbsorbs DEF DirectBlock
  <2> QED BY <2>3 DEF Hash!Next
<1>4. CASE FillBuffer
  <2> DEFINE n == Fitting
  <2>1. open /\ in # <<>> /\ in \in Seq(Byte) /\ md.curlen \in 0 .. BlockLen - 1
    BY <1>4 DEF FillBuffer, HashInv, Shape, Index
  <2>2. n \in 1 .. Len(in)
    BY <2>1, Sizes DEF Fitting
  <2>3. \E m : Take(n, m)
    BY <1>4 DEF FillBuffer, Fitting
  <2>4. Hash!Absorb
    BY <2>1, <2>2, <2>3, TakeAbsorbs
  <2> QED BY <2>4 DEF Hash!Next
<1>5. CASE Final
  <2>1. digest = NoDigest /\ digest' = Hash!Digest(fed) /\ fed' = fed
    BY <1>5, FinalKeeps DEF HashInv, Running, Final
  <2> QED BY <2>1 DEF Hash!Next, Hash!Finish
<1>6. CASE UNCHANGED hash_vars
  BY <1>6 DEF hash_vars
<1> QED BY <1>1, <1>2, <1>3, <1>4, <1>5, <1>6 DEF HashStep

LEMMA JobsAreSteps == [HashNext]_hash_vars => [HashStep]_hash_vars
  BY Sha512Assumption DEF HashNext, HashStep

\* Conserved, for every size of a word, every compression and all parts: the
\* bookkeeping of sha512_update is right at every boundary.
THEOREM NothingLost == HashSpecification => []Conserved
<1>1. HashInit => HashInv
  BY HashInitial
<1>2. HashInv /\ [HashNext]_hash_vars => HashInv'
  BY HashStepKeeps, JobsAreSteps
<1>3. HashInv => Conserved
  BY DEF HashInv
<1> QED BY <1>1, <1>2, <1>3, PTL DEF HashSpecification

\* ImplementsHash, for every size of a word, every compression, all parts and
\* whatever the buffer held: sha512_final returns the digest of all bytes that
\* were hashed, padded and cut into blocks as the standard says.
THEOREM HashImplements == HashSpecification => ImplementsHash
<1>1. HashInit => HashInv /\ Hash!Init
  BY HashInitial
<1>2. HashInv /\ [HashNext]_hash_vars => HashInv'
  BY HashStepKeeps, JobsAreSteps
<1>3. HashInv /\ [HashNext]_hash_vars => [Hash!Next]_<<fed, digest>>
  BY HashStepImplements, JobsAreSteps
<1> QED BY <1>1, <1>2, <1>3, PTL DEF HashSpecification, ImplementsHash, Hash!Spec

-----------------------------------------------------------------------------
(* Hex. *)

\* The digit of every nibble is read as that nibble.
LEMMA NibbleOf ==
  ASSUME NEW n \in 0 .. 15
  PROVE  Lower[n + 1] \in Accepted /\ Nibble(Lower[n + 1]) = n
<1>1. DOMAIN Lower = 1 .. 16 /\ n + 1 \in 1 .. 16
  BY DEF Lower
<1>2. Lower[n + 1] # "A"
  BY DEF Lower
<1>3. ASSUME NEW i \in 1 .. 16, NEW j \in 1 .. 16, Lower[i] = Lower[j] PROVE i = j
  BY <1>3 DEF Lower
<1>4. (CHOOSE i \in DOMAIN Lower : Lower[i] = Lower[n + 1]) = n + 1
  <2> DEFINE k == CHOOSE i \in DOMAIN Lower : Lower[i] = Lower[n + 1]
  <2>1. k \in DOMAIN Lower /\ Lower[k] = Lower[n + 1]
    BY <1>1
  <2> HIDE DEF k
  <2>2. k = n + 1
    BY <1>1, <1>3, <2>1
  <2> QED BY <2>2 DEF k
<1>5. Nibble(Lower[n + 1]) = (n + 1) - 1
  BY <1>2, <1>4 DEF Nibble
<1>6. (n + 1) - 1 = n
  OBVIOUS
<1>7. Lower[n + 1] \in Accepted
  BY <1>1 DEF Accepted
<1> QED BY <1>5, <1>6, <1>7

\* Bytes survive hex.
LEMMA HexKept ==
  ASSUME NEW n \in Nat, NEW b \in Bytes(n)
  PROVE  IsHex(T2str(b), n) /\ Str2t(T2str(b)) = b
<1>1. b \in Seq(Byte) /\ Len(b) = n
  BY DEF Bytes
<1> DEFINE s == T2str(b)
<1>2. Len(s) = 2 * n /\ DOMAIN s = 1 .. 2 * n
  BY <1>1 DEF T2str
<1>3. ASSUME NEW i \in 1 .. n
      PROVE  /\ s[2 * i - 1] = Lower[(b[i] \div 16) + 1]
             /\ s[2 * i] = Lower[(b[i] % 16) + 1]
  <2>1. 2 * i - 1 \in 1 .. 2 * n /\ 2 * i \in 1 .. 2 * n
    OBVIOUS
  <2>2. (2 * i - 1) % 2 = 1 /\ ((2 * i - 1) + 1) \div 2 = i
    OBVIOUS
  <2>3. (2 * i) % 2 = 0 /\ (2 * i) \div 2 = i
    OBVIOUS
  <2> QED BY <1>1, <2>1, <2>2, <2>3 DEF T2str
<1>4. ASSUME NEW i \in 1 .. n
      PROVE  /\ b[i] \div 16 \in 0 .. 15 /\ b[i] % 16 \in 0 .. 15
             /\ 16 * (b[i] \div 16) + (b[i] % 16) = b[i]
  <2>1. b[i] \in 0 .. 255
    BY DEF Bytes, Byte
  <2> QED BY <2>1
<1> HIDE DEF s
<1>5. ASSUME NEW i \in 1 .. n
      PROVE  /\ s[2 * i - 1] \in Accepted /\ s[2 * i] \in Accepted
             /\ 16 * Nibble(s[2 * i - 1]) + Nibble(s[2 * i]) = b[i]
  <2>1. /\ s[2 * i - 1] = Lower[(b[i] \div 16) + 1]
        /\ s[2 * i] = Lower[(b[i] % 16) + 1]
    BY <1>3
  <2>2. /\ b[i] \div 16 \in 0 .. 15 /\ b[i] % 16 \in 0 .. 15
        /\ 16 * (b[i] \div 16) + (b[i] % 16) = b[i]
    BY <1>4
  <2>3. /\ Lower[(b[i] \div 16) + 1] \in Accepted /\ Nibble(Lower[(b[i] \div 16) + 1]) = b[i] \div 16
        /\ Lower[(b[i] % 16) + 1] \in Accepted /\ Nibble(Lower[(b[i] % 16) + 1]) = b[i] % 16
    BY <2>2, NibbleOf
  <2> QED BY <2>1, <2>2, <2>3
<1>6. ASSUME NEW i \in DOMAIN s PROVE s[i] \in Accepted
  <2>1. i \in 1 .. 2 * n
    BY <1>2
  <2>2. PICK k \in 1 .. n : i = 2 * k - 1 \/ i = 2 * k
    <3>1. (i + 1) \div 2 \in 1 .. n /\ (i = 2 * ((i + 1) \div 2) - 1 \/ i = 2 * ((i + 1) \div 2))
      BY <2>1
    <3> QED BY <3>1
  <2> QED BY <1>5, <2>2
<1>7. Str2t(s) = [i \in 1 .. n |-> 16 * Nibble(s[2 * i - 1]) + Nibble(s[2 * i])]
  <2>1. Len(s) \div 2 = n
    BY <1>2
  <2> QED BY <2>1 DEF Str2t
<1>8. Str2t(s) = b
  BY <1>5, <1>7 DEF Bytes
<1> QED BY <1>2, <1>6, <1>8 DEF s, IsHex

-----------------------------------------------------------------------------
(* Headers and blocks. *)

\* Which field of a header is written how.
LEMMA FieldsOf ==
  /\ Ints = {"id", "version", "issuer_addr", "nonce"}
  /\ DOMAIN Arrays = {"prev_hash", "merkle_tree", "issuer_pub_key", "hash", "sign"}
  /\ Fields = {"id", "version", "issuer_addr", "nonce",
               "prev_hash", "merkle_tree", "issuer_pub_key", "hash", "sign"}
  /\ \A f \in DOMAIN Arrays : f \notin Ints /\ Arrays[f] \in Nat
  BY Sizes, WireAssumption DEF Ints, Arrays, Fields, HashLen

LEMMA HeaderFields ==
  ASSUME NEW h \in Headers
  PROVE  /\ h = [f \in Fields |-> h[f]]
         /\ \A f \in Ints : h[f] \in U32
         /\ \A f \in DOMAIN Arrays : h[f] \in Bytes(Arrays[f])
<1>1. h = [f \in Fields |-> h[f]]
  BY FieldsOf DEF Headers
<1>2. \A f \in Ints : h[f] \in U32
  BY FieldsOf DEF Headers
<1>3. \A f \in DOMAIN Arrays : h[f] \in Bytes(Arrays[f])
  BY FieldsOf DEF Headers, Arrays
<1> QED BY <1>1, <1>2, <1>3

\* A header survives JSON.
LEMMA HeaderKept ==
  ASSUME NEW h \in Headers, NEW t, t = block_header_to_json(h)
  PROVE  /\ json_to_block_header(t) = h
         /\ \A f \in Ints : t[f] = h[f]
         /\ \A f \in DOMAIN Arrays : IsHex(t[f], Arrays[f])
<1>1. \A f \in Fields : t[f] = IF f \in Ints THEN h[f] ELSE T2str(h[f])
  BY DEF block_header_to_json
<1>2. \A f \in Ints : f \in Fields /\ t[f] = h[f]
  BY <1>1, FieldsOf
<1>3. ASSUME NEW f \in DOMAIN Arrays
      PROVE  IsHex(t[f], Arrays[f]) /\ Str2t(t[f]) = h[f]
  <2>1. f \in Fields /\ f \notin Ints /\ Arrays[f] \in Nat
    BY FieldsOf
  <2>2. t[f] = T2str(h[f])
    BY <1>1, <2>1
  <2>3. h[f] \in Bytes(Arrays[f])
    BY HeaderFields
  <2> QED BY <2>1, <2>2, <2>3, HexKept
<1>4. \A f \in Fields : (IF f \in Ints THEN t[f] ELSE Str2t(t[f])) = h[f]
  <2>1. \A f \in Fields : f \in Ints \/ f \in DOMAIN Arrays
    BY DEF Fields
  <2> QED BY <1>2, <1>3, <2>1, FieldsOf
<1>5. json_to_block_header(t) = [f \in Fields |-> h[f]]
  BY <1>4 DEF json_to_block_header
<1> QED BY <1>2, <1>3, <1>5, HeaderFields

LEMMA LittleBytes ==
  ASSUME NEW n \in U32
  PROVE  Little(n) \in Seq(Byte)
<1>1. n \in Nat /\ U32Len \in Nat
  BY WireAssumption DEF U32
<1>2. ASSUME NEW i \in 1 .. U32Len PROVE (n \div 256^(i - 1)) % 256 \in Byte
  <2>1. PICK k \in Nat : k = i - 1
    OBVIOUS
  <2> QED BY <1>1, <2>1, LowByte
<1> QED BY <1>1, <1>2 DEF Little

\* What is hashed of a header.
LEMMA PackedBytes ==
  ASSUME NEW h \in Headers
  PROVE  Packed(h) \in Seq(Byte)
<1>1. /\ h.id \in U32 /\ h.version \in U32 /\ h.issuer_addr \in U32 /\ h.nonce \in U32
      /\ h.prev_hash \in Bytes(HashLen) /\ h.merkle_tree \in Bytes(HashLen)
      /\ h.issuer_pub_key \in Bytes(PubLen)
  BY DEF Headers
<1>2. /\ Little(h.id) \in Seq(Byte) /\ Little(h.version) \in Seq(Byte)
      /\ Little(h.issuer_addr) \in Seq(Byte) /\ Little(h.nonce) \in Seq(Byte)
  BY <1>1, LittleBytes
<1>3. HashLen \in Nat /\ PubLen \in Nat
  BY Sizes, WireAssumption DEF HashLen
<1>4. h.prev_hash \in Seq(Byte) /\ h.merkle_tree \in Seq(Byte) /\ h.issuer_pub_key \in Seq(Byte)
  BY <1>1, <1>3 DEF Bytes
<1> DEFINE a == Little(h.id)
           b == Little(h.version)
           c == Little(h.issuer_addr)
           d == Little(h.nonce)
<1> HIDE DEF a, b, c, d
<1>5. a \in Seq(Byte) /\ b \in Seq(Byte) /\ c \in Seq(Byte) /\ d \in Seq(Byte)
  BY <1>2 DEF a, b, c, d
<1>6. a \o b \o h.prev_hash \o h.merkle_tree \o c \o h.issuer_pub_key \o d \in Seq(Byte)
  BY <1>4, <1>5
<1> QED BY <1>6 DEF Packed, a, b, c, d

\* A header with its hash and signature.
Stamped(h, x, y) == [h EXCEPT !.hash = x, !.sign = y]

\* They are not among what is packed, nor in the way.
LEMMA PackedSame ==
  ASSUME NEW h \in Headers, NEW x \in Bytes(HashLen), NEW y \in Bytes(HashLen)
  PROVE  /\ Stamped(h, x, y) \in Headers
         /\ Packed(Stamped(h, x, y)) = Packed(h)
         /\ Stamped(h, x, y).hash = x /\ Stamped(h, x, y).sign = y
         /\ Stamped(h, x, y).merkle_tree = h.merkle_tree
         /\ Stamped(h, x, y).issuer_pub_key = h.issuer_pub_key
<1> DEFINE g == [h EXCEPT !.hash = x, !.sign = y]
<1>1. g \in Headers /\ g.hash = x /\ g.sign = y
  BY DEF Headers
<1>2. /\ g.id = h.id /\ g.version = h.version /\ g.prev_hash = h.prev_hash
      /\ g.merkle_tree = h.merkle_tree /\ g.issuer_addr = h.issuer_addr
      /\ g.issuer_pub_key = h.issuer_pub_key /\ g.nonce = h.nonce
  BY DEF Headers
<1> HIDE DEF g
<1>3. Packed(g) = Packed(h)
  BY <1>2 DEF Packed
<1>4. Stamped(h, x, y) = g
  BY DEF Stamped, g
<1> QED BY <1>1, <1>2, <1>3, <1>4

-----------------------------------------------------------------------------
(* The roots. *)

IsFold(h, n, signs) ==
  h[0] = ZeroHash /\ \A i \in 1 .. n : h[i] = Hash!Digest(h[i - 1] \o signs[i])

LEMMA FoldExtends ==
  ASSUME NEW n \in Nat, NEW h, NEW signs, IsFold(h, n, signs)
  PROVE  \E g : IsFold(g, n + 1, signs) /\ g[n] = h[n]
<1> DEFINE g == [i \in 0 .. n + 1 |-> IF i = n + 1 THEN Hash!Digest(h[n] \o signs[n + 1]) ELSE h[i]]
<1>1. g[n + 1] = Hash!Digest(h[n] \o signs[n + 1])
  OBVIOUS
<1>2. \A i \in 0 .. n : g[i] = h[i]
  OBVIOUS
<1> HIDE DEF g
<1>3. g[0] = ZeroHash /\ g[n] = h[n]
  BY <1>2 DEF IsFold
<1>4. ASSUME NEW i \in 1 .. n + 1 PROVE g[i] = Hash!Digest(g[i - 1] \o signs[i])
  <2>1. CASE i = n + 1
    <3>1. i - 1 = n
      BY <2>1
    <3> QED BY <1>1, <1>3, <2>1, <3>1
  <2>2. CASE i # n + 1
    <3>1. i \in 1 .. n /\ i - 1 \in 0 .. n /\ i \in 0 .. n
      BY <2>2
    <3>2. h[i] = Hash!Digest(h[i - 1] \o signs[i])
      BY <3>1 DEF IsFold
    <3>3. g[i] = h[i] /\ g[i - 1] = h[i - 1]
      BY <1>2, <3>1
    <3> QED BY <3>2, <3>3
  <2> QED BY <2>1, <2>2
<1> QED BY <1>3, <1>4 DEF IsFold

\* The recursion of MerkleRoot and roots that were folded one by one.
LEMMA FoldIs ==
  ASSUME NEW signs, NEW n \in Nat, n = Len(signs), NEW h, IsFold(h, n, signs)
  PROVE  MerkleRoot(signs) = h[n]
<1> DEFINE Is(f) == f = [i \in 0 .. n |-> IF i = 0 THEN ZeroHash ELSE Hash!Digest(f[i - 1] \o signs[i])]
           f == CHOOSE x : Is(x)
           g == [i \in 0 .. n |-> h[i]]
<1>1. Roots(signs) = f
  BY DEF Roots
<1>2. Is(g)
  <2>1. ASSUME NEW i \in 0 .. n
        PROVE  h[i] = IF i = 0 THEN ZeroHash ELSE Hash!Digest(g[i - 1] \o signs[i])
    <3>1. CASE i = 0
      BY <3>1 DEF IsFold
    <3>2. CASE i # 0
      <4>1. i \in 1 .. n /\ i - 1 \in 0 .. n
        BY <3>2
      <4>2. g[i - 1] = h[i - 1]
        BY <4>1
      <4>3. h[i] = Hash!Digest(h[i - 1] \o signs[i])
        BY <4>1 DEF IsFold
      <4> QED BY <3>2, <4>2, <4>3
    <3> QED BY <3>1, <3>2
  <2>2. g = [i \in 0 .. n |-> IF i = 0 THEN ZeroHash ELSE Hash!Digest(g[i - 1] \o signs[i])]
    BY <2>1
  <2> QED BY <2>2
<1> HIDE DEF g
<1>3. Is(f)
  <2> HIDE DEF Is
  <2> QED BY <1>2
<1> HIDE DEF f
<1> DEFINE A == {k \in Nat : k <= n => f[k] = h[k]}
<1>4. 0 \in A
  <2>1. f[0] = ZeroHash
    BY <1>3
  <2> QED BY <2>1 DEF IsFold
<1>5. ASSUME NEW k \in Nat, k \in A PROVE k + 1 \in A
  <2> SUFFICES ASSUME k + 1 <= n PROVE f[k + 1] = h[k + 1]
    OBVIOUS
  <2>1. k + 1 \in 0 .. n /\ k + 1 # 0 /\ (k + 1) - 1 = k /\ k + 1 \in 1 .. n
    OBVIOUS
  <2>2. f[k + 1] = Hash!Digest(f[k] \o signs[k + 1])
    BY <1>3, <2>1
  <2>3. h[k + 1] = Hash!Digest(h[k] \o signs[k + 1])
    BY <2>1 DEF IsFold
  <2>4. f[k] = h[k]
    BY <1>5, <2>1
  <2> QED BY <2>2, <2>3, <2>4
<1>6. n \in A
  <2> HIDE DEF A
  <2> QED BY <1>4, <1>5, SetInduction
<1>7. MerkleRoot(signs) = f[n]
  BY <1>1 DEF MerkleRoot
<1> QED BY <1>6, <1>7

-----------------------------------------------------------------------------
(* The bytes that a running hash is going to have taken. *)

LEMMA Associative ==
  ASSUME NEW S, NEW a \in Seq(S), NEW b \in Seq(S), NEW c \in Seq(S)
  PROVE  (a \o b) \o c = a \o (b \o c)
  OBVIOUS

\* Cutting a sequence in two and joining it again.
LEMMA CutAndJoined ==
  ASSUME NEW S, NEW s \in Seq(S), NEW n \in 1 .. Len(s)
  PROVE  SubSeq(s, 1, n) \o SubSeq(s, n + 1, Len(s)) = s
<1> DEFINE a == SubSeq(s, 1, n)
           b == SubSeq(s, n + 1, Len(s))
<1>1. /\ a \in Seq(S) /\ Len(a) = n /\ \A i \in 1 .. n : a[i] = s[i]
      /\ n \in Nat /\ Len(s) \in Nat
  OBVIOUS
<1>2. b \in Seq(S) /\ Len(b) = Len(s) - n /\ \A i \in 1 .. Len(s) - n : b[i] = s[n + i]
  OBVIOUS
<1> HIDE DEF a, b
<1>3. /\ a \o b \in Seq(S) /\ Len(a \o b) = Len(s)
      /\ \A i \in 1 .. n : (a \o b)[i] = s[i]
      /\ \A i \in 1 .. Len(s) - n : (a \o b)[n + i] = s[n + i]
  <2>1. /\ a \o b \in Seq(S) /\ Len(a \o b) = Len(a) + Len(b)
        /\ \A i \in 1 .. Len(a) : (a \o b)[i] = a[i]
        /\ \A i \in 1 .. Len(b) : (a \o b)[Len(a) + i] = b[i]
    <3>1. a \in Seq(S) /\ b \in Seq(S)
      BY <1>1, <1>2
    <3> QED BY <3>1, Joined
  <2> QED BY <1>1, <1>2, <2>1
<1>4. ASSUME NEW i \in 1 .. Len(s) PROVE (a \o b)[i] = s[i]
  <2>1. CASE i <= n
    BY <1>3, <2>1
  <2>2. CASE ~(i <= n)
    <3>1. i - n \in 1 .. Len(s) - n /\ n + (i - n) = i
      BY <1>1, <2>2
    <3> QED BY <1>3, <3>1
  <2> QED BY <2>1, <2>2
<1>5. a \o b = s
  BY <1>3, <1>4, SameSequence
<1> QED BY <1>5 DEF a, b

\* The parts of the calls to come, of which there are two at most.
Spells(parts, rest) ==
  \/ parts = <<>> /\ rest = <<>>
  \/ parts = <<rest>>
  \/ \E a, b \in Seq(Byte) : parts = <<a, b>> /\ rest = a \o b

\* All bytes together, those that are still to come included.
Hashes(bytes) ==
  \E rest \in Seq(Byte) : Spells(calls, rest) /\ bytes = (fed \o in) \o rest

LEMMA HashesBegin ==
  ASSUME NEW parts, NEW bytes \in Seq(Byte), Spells(parts, bytes), Begin(parts)
  PROVE  Hashes(bytes)'
<1>1. calls' = parts /\ in' = <<>> /\ fed' = <<>>
  BY DEF Begin
<1>2. bytes = (<<>> \o <<>>) \o bytes
  OBVIOUS
<1>3. Spells(calls, bytes)'
  BY <1>1 DEF Spells
<1> QED BY <1>1, <1>2, <1>3 DEF Hashes

LEMMA HashesUpdate ==
  ASSUME NEW bytes, Hashes(bytes), HashInv, Update
  PROVE  Hashes(bytes)'
<1>1. PICK rest \in Seq(Byte) : Spells(calls, rest) /\ bytes = (fed \o in) \o rest
  BY DEF Hashes
<1>2. fed \in Seq(Byte) /\ in = <<>> /\ calls # <<>> /\ fed' = fed
      /\ in' = Head(calls) /\ calls' = Tail(calls)
  BY DEF HashInv, Shape, Update
<1>3. bytes = fed \o rest
  BY <1>1, <1>2
<1>4. CASE calls = <<rest>>
  <2>1. in' = rest /\ calls' = <<>> /\ rest = rest \o <<>>
    BY <1>1, <1>2, <1>4
  <2>2. bytes = (fed' \o in') \o <<>> /\ <<>> \in Seq(Byte)
    <3>1. (fed \o rest) \o <<>> = fed \o rest
      BY <1>2
    <3>2. fed' = fed /\ in' = rest /\ <<>> \in Seq(Byte)
      BY <1>2, <2>1
    <3> QED BY <1>3, <3>1, <3>2, Zenon
  <2>3. Spells(calls, <<>>)'
    BY <2>1 DEF Spells
  <2> QED BY <2>2, <2>3 DEF Hashes
<1>5. ASSUME NEW a \in Seq(Byte), NEW b \in Seq(Byte), calls = <<a, b>>, rest = a \o b
      PROVE  Hashes(bytes)'
  <2>1. in' = a /\ calls' = <<b>>
    BY <1>2, <1>5
  <2>2. bytes = (fed' \o in') \o b
    BY <1>2, <1>3, <1>5, <2>1, Associative
  <2>3. Spells(calls, b)'
    BY <2>1 DEF Spells
  <2> QED BY <2>2, <2>3 DEF Hashes
<1> QED BY <1>1, <1>2, <1>4, <1>5 DEF Spells

LEMMA HashesTake ==
  ASSUME NEW bytes, Hashes(bytes), HashInv, NEW n \in 1 .. Len(in), NEW m, Take(n, m)
  PROVE  Hashes(bytes)'
<1>1. PICK rest \in Seq(Byte) : Spells(calls, rest) /\ bytes = (fed \o in) \o rest
  BY DEF Hashes
<1>2. fed \in Seq(Byte) /\ in \in Seq(Byte)
  BY DEF HashInv, Shape
<1> DEFINE a == SubSeq(in, 1, n)
           b == SubSeq(in, n + 1, Len(in))
<1>3. fed' = fed \o a /\ in' = b /\ calls' = calls
  BY DEF Take
<1>4. a \in Seq(Byte) /\ b \in Seq(Byte)
  BY <1>2
<1>5. a \o b = in
  BY <1>2, CutAndJoined
<1> HIDE DEF a, b
<1>6. fed' \o in' = fed \o in
  <2>1. (fed \o a) \o b = fed \o (a \o b)
    <3>1. fed \in Seq(Byte) /\ a \in Seq(Byte) /\ b \in Seq(Byte)
      BY <1>2, <1>4
    <3> QED BY <3>1
  <2> QED BY <1>3, <1>5, <2>1
<1> QED BY <1>1, <1>3, <1>6 DEF Hashes, Spells

LEMMA HashesDirectBlock ==
  ASSUME NEW bytes, Hashes(bytes), HashInv, DirectBlock
  PROVE  Hashes(bytes)'
<1>1. Len(in) >= BlockLen /\ in \in Seq(Byte)
  BY DEF DirectBlock, WholeBlock, HashInv, Shape
<1>2. BlockLen \in 1 .. Len(in)
  BY <1>1, Sizes
<1>3. \E m : Take(BlockLen, m)
  BY DEF DirectBlock
<1> QED BY <1>2, <1>3, HashesTake

LEMMA HashesFillBuffer ==
  ASSUME NEW bytes, Hashes(bytes), HashInv, FillBuffer
  PROVE  Hashes(bytes)'
<1>1. in # <<>> /\ in \in Seq(Byte) /\ md.curlen \in 0 .. BlockLen - 1
  BY DEF FillBuffer, HashInv, Shape, Index
<1>2. Fitting \in 1 .. Len(in)
  BY <1>1, Sizes DEF Fitting
<1>3. \E m : Take(Fitting, m)
  BY DEF FillBuffer, Fitting
<1> QED BY <1>2, <1>3, HashesTake

\* The digest of all bytes that were to be hashed.
LEMMA HashesFinal ==
  ASSUME NEW bytes, Hashes(bytes), HashInv, Final
  PROVE  digest' = Hash!Digest(bytes)
<1>1. PICK rest \in Seq(Byte) : Spells(calls, rest) /\ bytes = (fed \o in) \o rest
  BY DEF Hashes
<1>2. fed \in Seq(Byte) /\ in = <<>> /\ calls = <<>>
  BY DEF HashInv, Shape, Final
<1>3. rest = <<>>
  BY <1>1, <1>2 DEF Spells
<1>4. bytes = fed
  BY <1>1, <1>2, <1>3
<1> QED BY <1>4, FinalKeeps

-----------------------------------------------------------------------------
(* The invariant. *)

\* Words of some width: what the initial state is made of, and what a block
\* makes of them.
WordsKept == \E S \in SUBSET [0 .. 7 -> Nat] : Closed(S)

SignTyped == \A bytes \in Seq(Byte), pub \in Bytes(PubLen) : Sign(bytes, pub) \in Bytes(HashLen)

Stages == {"idle", "merkle", "sign", "signed", "sent", "check", "remerkle"}

WireShape ==
  /\ stage \in Stages
  /\ digest = NoDigest \/ digest \in Bytes(HashLen)
  /\ root \in Bytes(HashLen)
  /\ todo \in Seq(Bytes(HashLen))

\* merkle_tree_calc has folded k signatures, or is hashing the k-th.
Folding(signs) ==
  \E k \in 0 .. Len(signs) : \E h :
    /\ IsFold(h, k, signs)
    /\ todo = SubSeq(signs, k + 1, Len(signs))
    /\ IF open THEN k > 0 /\ root = h[k - 1] /\ Hashes(h[k - 1] \o signs[k])
       ELSE root = h[k]

Proposed(b) == b \in Blocks /\ \E p \in Proposals : b.signs = p.signs

Treed(b) == b.header.merkle_tree = MerkleRoot(b.signs)

\* What block_sign leaves.
Signed(b) ==
  /\ Treed(b)
  /\ b.header.hash = Hash!Digest(Packed(b.header))
  /\ b.header.sign = Sign(Packed(b.header), b.header.issuer_pub_key)

Small(b) == \A f \in Ints : b.header[f] <= IntMax

\* What the peer makes of the author's block.
Arrived == Small(block) /\ got = [header |-> block.header, signs |-> Zeroes(Len(block.signs))]

Outcome ==
  /\ Proposed(block)
  /\ IF Small(block)
     THEN Arrived /\ valid = [header |-> "yes",
                              merkle |-> IF MerkleRoot(Zeroes(Len(block.signs))) = MerkleRoot(block.signs)
                                         THEN "yes" ELSE "no"]
     ELSE valid = [header |-> "refused", merkle |-> "refused"]

Author ==
  /\ stage = "merkle" => Folding(block.signs)
  /\ stage = "sign" => open /\ Treed(block) /\ Hashes(Packed(block.header))
  /\ stage \in {"signed", "sent", "check", "remerkle"} => Signed(block)
  /\ stage = "sent" => text = block_to_json(block)

Peer ==
  /\ stage = "idle" => valid = Unknown \/ Outcome
  /\ stage = "check" => open /\ Arrived /\ Hashes(Packed(got.header))
  /\ stage = "remerkle" => Arrived /\ Folding(got.signs)
  /\ stage \notin {"idle", "remerkle"} => valid = Unknown
  /\ stage = "remerkle" => valid = [header |-> "yes", merkle |-> "unknown"]

Journey ==
  /\ WireShape
  /\ stage # "idle" => Proposed(block)
  /\ Author /\ Peer

WireInv == HashInv /\ Journey

LEMMA BytesAreSeq == Bytes(HashLen) \subseteq Seq(Byte)
<1>1. HashLen \in Nat
  BY Sizes DEF HashLen
<1> QED BY <1>1 DEF Bytes

\* A digest is as long as a hash.
LEMMA DigestBytes ==
  ASSUME WordsKept, HashInv, Final
  PROVE  digest' \in Bytes(HashLen)
<1>1. digest' = Stored(md'.state) /\ HashInv'
  BY FinalKeeps
<1>2. PICK S \in SUBSET [0 .. 7 -> Nat] : Closed(S)
  BY DEF WordsKept
<1>3. Within(md'.state)
  BY <1>1 DEF HashInv, Shape
<1>4. md'.state \in [0 .. 7 -> Nat]
  BY <1>2, <1>3 DEF Within
<1> DEFINE W == WordBytes
           state == md'.state
<1> HIDE DEF state
<1>5. ASSUME NEW i \in 1 .. 8 * W
      PROVE  BigEndian(state[(i - 1) \div W])[((i - 1) % W) + 1] \in Byte
  <2>1. W \in Nat /\ W > 0 /\ i - 1 \in 0 .. 8 * W - 1
    BY Sha512Assumption
  <2>2. (i - 1) \div W \in 0 .. 7 /\ ((i - 1) % W) \in 0 .. W - 1
    <3> DEFINE q == (i - 1) \div W
               r == (i - 1) % W
    <3>1. q \in Int /\ r \in 0 .. W - 1 /\ i - 1 = W * q + r
      BY <2>1
    <3> HIDE DEF q, r
    <3>2. ~(q >= 8)
      <4> SUFFICES ASSUME q >= 8 PROVE FALSE
        OBVIOUS
      <4>1. W * q >= W * 8
        BY <2>1, <3>1
      <4> QED BY <2>1, <3>1, <4>1
    <3>3. ~(q <= -1)
      <4> SUFFICES ASSUME q <= -1 PROVE FALSE
        OBVIOUS
      <4>1. W * q <= W * (-1)
        BY <2>1, <3>1
      <4> QED BY <2>1, <3>1, <4>1
    <3>4. q \in 0 .. 7
      BY <3>1, <3>2, <3>3
    <3> QED BY <3>1, <3>4 DEF q, r
  <2> DEFINE x == state[(i - 1) \div W]
             k == ((i - 1) % W) + 1
  <2>3. x \in Nat
    BY <1>4, <2>2 DEF state
  <2>4. k \in 1 .. W /\ W - k \in Nat
    BY <2>1, <2>2
  <2> HIDE DEF x, k
  <2>5. BigEndian(x)[k] = (x \div 256^(W - k)) % 256
    BY <2>4 DEF BigEndian
  <2>6. BigEndian(x)[k] \in Byte
    <3>1. ASSUME NEW j, j = W - k PROVE (x \div 256^j) % 256 \in Byte
      <4>1. j \in Nat
        BY <2>4, <3>1
      <4> QED BY <2>3, <4>1, LowByte
    <3> QED BY <2>5, <3>1, Zenon
  <2> QED BY <2>6 DEF x, k
<1>6. Stored(state) = [i \in 1 .. 8 * W |-> BigEndian(state[(i - 1) \div W])[((i - 1) % W) + 1]]
  BY DEF Stored
<1>7. Stored(state) \in [1 .. 8 * W -> Byte]
  BY <1>5, <1>6
<1> QED BY <1>1, <1>7 DEF state, Bytes, HashLen

\* A block that went through JSON.
LEMMA BlockArrives ==
  ASSUME NEW b \in Blocks, NEW t, t = block_to_json(b)
  PROVE  /\ Readable(t) <=> Small(b)
         /\ json_to_block(t) = [header |-> b.header, signs |-> Zeroes(Len(b.signs))]
<1>1. b.header \in Headers
  BY DEF Blocks
<1>2. t.header = block_header_to_json(b.header) /\ t.tx_list = Len(b.signs)
  BY DEF block_to_json
<1> DEFINE h == b.header
           u == t.header
<1> HIDE DEF h, u
<1>3. /\ json_to_block_header(u) = h
      /\ \A f \in Ints : u[f] = h[f]
      /\ \A f \in DOMAIN Arrays : IsHex(u[f], Arrays[f])
  BY <1>1, <1>2, HeaderKept DEF h, u
<1>4. Readable(t) <=> Small(b)
  BY <1>3 DEF Readable, Small, h, u
<1>5. json_to_block(t) = [header |-> b.header, signs |-> Zeroes(Len(b.signs))]
  BY <1>2, <1>3 DEF json_to_block, h, u
<1> QED BY <1>4, <1>5

\* The steps of block_sign on a block.
WithTree(b, x) == [b EXCEPT !.header.merkle_tree = x]

WithHash(b, x, y) == [b EXCEPT !.header.hash = x, !.header.sign = y]

LEMMA TreeStored ==
  ASSUME NEW b \in Blocks, NEW x \in Bytes(HashLen)
  PROVE  /\ WithTree(b, x) \in Blocks
         /\ WithTree(b, x).signs = b.signs
         /\ WithTree(b, x).header.merkle_tree = x
<1>1. b.header \in Headers /\ b.signs \in Seq(Bytes(HashLen))
  BY DEF Blocks
<1> DEFINE g == [b.header EXCEPT !.merkle_tree = x]
<1>2. g \in Headers /\ g.merkle_tree = x
  BY <1>1 DEF Headers
<1>3. WithTree(b, x) = [b EXCEPT !.header = g]
  BY DEF WithTree
<1> HIDE DEF g
<1> QED BY <1>1, <1>2, <1>3 DEF Blocks

LEMMA HashStored ==
  ASSUME NEW b \in Blocks, NEW x \in Bytes(HashLen), NEW y \in Bytes(HashLen)
  PROVE  /\ WithHash(b, x, y) \in Blocks
         /\ WithHash(b, x, y).signs = b.signs
         /\ WithHash(b, x, y).header = Stamped(b.header, x, y)
<1>1. b.header \in Headers /\ b.signs \in Seq(Bytes(HashLen))
  BY DEF Blocks
<1> DEFINE g == Stamped(b.header, x, y)
<1>2. g \in Headers
  BY <1>1, PackedSame
<1>3. WithHash(b, x, y) = [b EXCEPT !.header = g]
  BY DEF Blocks, WithHash, Stamped
<1> HIDE DEF g
<1>4. WithHash(b, x, y) \in Blocks /\ WithHash(b, x, y).signs = b.signs
      /\ WithHash(b, x, y).header = g
  BY <1>1, <1>2, <1>3 DEF Blocks
<1> QED BY <1>4 DEF g

-----------------------------------------------------------------------------
(* The steps. *)

\* What is hashed next is a sequence of bytes, or two.
LEMMA HashTxParts ==
  ASSUME WireInv, HashTx
  PROVE  /\ <<root, Head(todo)>> \in Seq(Seq(Byte))
         /\ root \o Head(todo) \in Seq(Byte)
         /\ Spells(<<root, Head(todo)>>, root \o Head(todo))
<1>1. root \in Bytes(HashLen) /\ todo \in Seq(Bytes(HashLen)) /\ todo # <<>>
  BY DEF WireInv, Journey, WireShape, HashTx
<1>2. Head(todo) \in Bytes(HashLen)
  BY <1>1
<1>3. root \in Seq(Byte) /\ Head(todo) \in Seq(Byte)
  BY <1>1, <1>2, BytesAreSeq
<1> DEFINE a == Head(todo)
<1> HIDE DEF a
<1>4. root \in Seq(Byte) /\ a \in Seq(Byte)
  BY <1>3 DEF a
<1>5. <<root, a>> \in Seq(Seq(Byte)) /\ root \o a \in Seq(Byte)
  BY <1>4
<1>6. Spells(<<root, a>>, root \o a)
  BY <1>4 DEF Spells
<1> QED BY <1>5, <1>6 DEF a

LEMMA OnePart ==
  ASSUME NEW s \in Seq(Byte)
  PROVE  <<s>> \in Seq(Seq(Byte)) /\ Spells(<<s>>, s)
<1> DEFINE S == Seq(Byte)
<1>1. s \in S
  OBVIOUS
<1> HIDE DEF S
<1>2. <<s>> \in Seq(S)
  BY <1>1
<1> QED BY <1>2 DEF Spells, S

LEMMA HashHeaderParts ==
  ASSUME WireInv, HashHeader
  PROVE  /\ block' \in Blocks /\ block'.signs = block.signs /\ block'.header.merkle_tree = root
         /\ Packed(block'.header) \in Seq(Byte)
<1>1. block \in Blocks /\ root \in Bytes(HashLen)
  BY DEF WireInv, Journey, WireShape, HashHeader, Proposed
<1>2. block' = WithTree(block, root)
  BY DEF HashHeader, WithTree
<1>3. block' \in Blocks /\ block'.signs = block.signs /\ block'.header.merkle_tree = root
  BY <1>1, <1>2, TreeStored
<1>4. block'.header \in Headers
  BY <1>3 DEF Blocks
<1> QED BY <1>3, <1>4, PackedBytes

LEMMA ReceiveParts ==
  ASSUME WireInv, Receive
  PROVE  /\ Arrived'
         /\ Packed(got'.header) \in Seq(Byte)
<1>1. block \in Blocks /\ text = block_to_json(block)
  BY DEF WireInv, Journey, Receive, Proposed, Author
<1>2. Readable(text) /\ got' = json_to_block(text) /\ block' = block
  BY DEF Receive
<1>3. Small(block) /\ got' = [header |-> block.header, signs |-> Zeroes(Len(block.signs))]
  BY <1>1, <1>2, BlockArrives
<1>4. got'.header = block.header /\ block.header \in Headers
  BY <1>1, <1>3 DEF Blocks
<1>5. Arrived'
  BY <1>2, <1>3 DEF Arrived, Small
<1> QED BY <1>4, <1>5, PackedBytes

LEMMA StepsHash == WireInv /\ [WireNext]_vars => [HashStep]_hash_vars
<1> SUFFICES ASSUME WireInv, [WireNext]_vars PROVE [HashStep]_hash_vars
  OBVIOUS
<1>1. CASE Propose \/ Serve \/ Refuse \/ Compare
  BY <1>1 DEF Propose, Serve, Refuse, Compare
<1>2. CASE OtherHash
  BY <1>2, Sha512Assumption DEF OtherHash, HashStep
<1>3. CASE HashTx
  <2>1. Begin(<<root, Head(todo)>>)
    BY <1>3 DEF HashTx
  <2> QED BY <1>3, <2>1, HashTxParts DEF HashStep
<1>4. CASE HashHeader
  <2>1. Begin(<<Packed(block'.header)>>)
    BY <1>4 DEF HashHeader
  <2>2. <<Packed(block'.header)>> \in Seq(Seq(Byte))
    BY <1>4, HashHeaderParts, OnePart
  <2> QED BY <2>1, <2>2 DEF HashStep
<1>5. CASE Receive
  <2>1. Begin(<<Packed(got'.header)>>)
    BY <1>5 DEF Receive
  <2>2. <<Packed(got'.header)>> \in Seq(Seq(Byte))
    BY <1>5, ReceiveParts, OnePart
  <2> QED BY <2>1, <2>2 DEF HashStep
<1>6. CASE Hashing \/ Returned
  BY <1>6 DEF Hashing, Returned, HashStep
<1>7. CASE UNCHANGED vars
  BY <1>7 DEF vars
<1> QED BY <1>1, <1>2, <1>3, <1>4, <1>5, <1>6, <1>7 DEF WireNext

\* Whoever hashes, the context is sound.
LEMMA HashKept ==
  ASSUME WireInv, [WireNext]_vars
  PROVE  HashInv'
  BY StepsHash, HashStepKeeps DEF WireInv

-----------------------------------------------------------------------------
(* Folding. *)

LEMMA TailOf ==
  ASSUME NEW S, NEW s \in Seq(S), NEW k \in 0 .. Len(s), NEW t, t = SubSeq(s, k + 1, Len(s))
  PROVE  /\ t \in Seq(S)
         /\ t # <<>> => /\ k + 1 \in 1 .. Len(s)
                        /\ Head(t) = s[k + 1]
                        /\ Tail(t) = SubSeq(s, (k + 1) + 1, Len(s))
         /\ t = <<>> => k = Len(s)
<1>1. /\ t \in Seq(S) /\ Len(t) = Len(s) - k /\ \A i \in 1 .. Len(s) - k : t[i] = s[k + i]
      /\ k \in Nat /\ Len(s) \in Nat
  OBVIOUS
<1>2. ASSUME t = <<>> PROVE k = Len(s)
  <2>1. Len(t) = 0
    <3>1. Len(<<>>) = 0
      OBVIOUS
    <3> QED BY <1>2, <3>1, Zenon
  <2>2. Len(t) = Len(s) - k /\ k \in Nat /\ Len(s) \in Nat
    BY <1>1
  <2> QED BY <2>1, <2>2
<1>3. ASSUME t # <<>>
      PROVE  /\ k + 1 \in 1 .. Len(s)
             /\ Head(t) = s[k + 1]
             /\ Tail(t) = SubSeq(s, (k + 1) + 1, Len(s))
  <2>1. k + 1 \in 1 .. Len(s)
    <3>1. Len(t) > 0
      BY <1>1, <1>3
    <3> QED BY <1>1, <3>1
  <2>2. Head(t) = s[k + 1]
    BY <1>1, <1>3, <2>1
  <2> DEFINE u == SubSeq(s, (k + 1) + 1, Len(s))
  <2>3. /\ u \in Seq(S) /\ Len(u) = Len(s) - (k + 1)
        /\ \A i \in 1 .. Len(s) - (k + 1) : u[i] = s[(k + 1) + i]
    BY <2>1
  <2>4. /\ Tail(t) \in Seq(S) /\ Len(Tail(t)) = Len(s) - (k + 1)
        /\ \A i \in 1 .. Len(s) - (k + 1) : Tail(t)[i] = s[(k + 1) + i]
    <3>1. /\ Tail(t) \in Seq(S) /\ Len(Tail(t)) = Len(t) - 1
          /\ \A i \in 1 .. Len(t) - 1 : Tail(t)[i] = t[i + 1]
      BY <1>1, <1>3
    <3>2. ASSUME NEW i \in 1 .. Len(s) - (k + 1) PROVE t[i + 1] = s[(k + 1) + i]
      <4>1. i + 1 \in 1 .. Len(s) - k /\ k + (i + 1) = (k + 1) + i
        BY <1>1
      <4> QED BY <1>1, <4>1
    <3>3. Len(t) - 1 = Len(s) - (k + 1)
      BY <1>1
    <3> QED BY <3>1, <3>2, <3>3
  <2> DEFINE v == Tail(t)
  <2> HIDE DEF u, v
  <2>5. u \in Seq(S) /\ v \in Seq(S) /\ Len(u) = Len(v) /\ \A i \in 1 .. Len(u) : u[i] = v[i]
    BY <2>3, <2>4 DEF v
  <2>6. u = v
    BY <2>5, SameSequence
  <2> QED BY <2>1, <2>2, <2>6 DEF u, v
<1> QED BY <1>1, <1>2, <1>3

LEMMA FoldingStarts ==
  ASSUME NEW signs \in Seq(Bytes(HashLen)), ~open', todo' = signs, root' = ZeroHash
  PROVE  Folding(signs)'
<1> DEFINE h == [i \in 0 .. 0 |-> ZeroHash]
<1>1. IsFold(h, 0, signs) /\ h[0] = ZeroHash
  BY DEF IsFold
<1>2. 0 \in 0 .. Len(signs) /\ todo' = SubSeq(signs, 0 + 1, Len(signs))
  OBVIOUS
<1> HIDE DEF h
<1>3. root' = h[0]
  BY <1>1
<1> QED BY <1>1, <1>2, <1>3 DEF Folding

\* The next signature.
LEMMA FoldingGoesOn ==
  ASSUME WireInv, HashTx, NEW signs \in Seq(Bytes(HashLen)), Folding(signs)
  PROVE  Folding(signs)'
<1>1. /\ ~open /\ todo # <<>> /\ todo' = Tail(todo) /\ root' = root
      /\ Begin(<<root, Head(todo)>>) /\ open'
  BY DEF HashTx, Begin
<1>k. PICK k \in 0 .. Len(signs) : \E h :
        IsFold(h, k, signs) /\ todo = SubSeq(signs, k + 1, Len(signs)) /\ root = h[k]
  BY <1>1 DEF Folding
<1>2. PICK h :
        IsFold(h, k, signs) /\ todo = SubSeq(signs, k + 1, Len(signs)) /\ root = h[k]
  BY <1>k
<1>3. k + 1 \in 0 .. Len(signs) /\ Head(todo) = signs[k + 1] /\ k \in Nat
      /\ todo' = SubSeq(signs, (k + 1) + 1, Len(signs))
  BY <1>1, <1>2, TailOf
<1>4. PICK g : IsFold(g, k + 1, signs) /\ g[k] = h[k]
  BY <1>2, <1>3, FoldExtends
<1>5. Hashes(g[k] \o signs[k + 1])'
  <2>1. PICK s : s = root \o Head(todo)
    OBVIOUS
  <2>2. s \in Seq(Byte) /\ Spells(<<root, Head(todo)>>, s)
    BY <2>1, HashTxParts
  <2>3. Hashes(s)'
    BY <1>1, <2>2, HashesBegin
  <2>4. s = g[k] \o signs[k + 1]
    BY <1>2, <1>3, <1>4, <2>1
  <2> QED BY <2>3, <2>4 DEF Hashes
<1>6. (k + 1) - 1 = k /\ k + 1 > 0
  BY <1>3
<1>7. root' = g[(k + 1) - 1]
  BY <1>1, <1>2, <1>4, <1>6
<1> QED BY <1>1, <1>3, <1>4, <1>5, <1>6, <1>7 DEF Folding

\* The digest is the next root.
LEMMA FoldingReturns ==
  ASSUME HashInv, Final, NEW signs, Folding(signs), todo' = todo, root' = digest'
  PROVE  Folding(signs)'
<1>1. open /\ ~open'
  BY DEF Final
<1>k. PICK k \in 0 .. Len(signs) : \E h :
        /\ IsFold(h, k, signs) /\ todo = SubSeq(signs, k + 1, Len(signs)) /\ k > 0
        /\ Hashes(h[k - 1] \o signs[k])
  BY <1>1 DEF Folding
<1>2. PICK h :
        /\ IsFold(h, k, signs) /\ todo = SubSeq(signs, k + 1, Len(signs)) /\ k > 0
        /\ Hashes(h[k - 1] \o signs[k])
  BY <1>k
<1>3. digest' = Hash!Digest(h[k - 1] \o signs[k])
  <2>1. PICK s : s = h[k - 1] \o signs[k]
    OBVIOUS
  <2> QED BY <1>2, <2>1, HashesFinal
<1>4. h[k] = Hash!Digest(h[k - 1] \o signs[k])
  BY <1>2 DEF IsFold
<1> QED BY <1>1, <1>2, <1>3, <1>4 DEF Folding

\* Bytes go in.
LEMMA HashesGoOn ==
  ASSUME NEW s, Hashes(s), HashInv, Update \/ DirectBlock \/ FillBuffer
  PROVE  Hashes(s)'
  BY HashesUpdate, HashesDirectBlock, HashesFillBuffer

LEMMA FoldingRuns ==
  ASSUME HashInv, Update \/ DirectBlock \/ FillBuffer, NEW signs, Folding(signs),
         todo' = todo, root' = root
  PROVE  Folding(signs)'
<1>1. open /\ open'
  BY DEF Update, DirectBlock, FillBuffer, Take
<1>k. PICK k \in 0 .. Len(signs) : \E h :
        /\ IsFold(h, k, signs) /\ todo = SubSeq(signs, k + 1, Len(signs)) /\ k > 0
        /\ root = h[k - 1] /\ Hashes(h[k - 1] \o signs[k])
  BY <1>1 DEF Folding
<1>2. PICK h :
        /\ IsFold(h, k, signs) /\ todo = SubSeq(signs, k + 1, Len(signs)) /\ k > 0
        /\ root = h[k - 1] /\ Hashes(h[k - 1] \o signs[k])
  BY <1>k
<1>3. PICK s : s = h[k - 1] \o signs[k]
  OBVIOUS
<1>4. Hashes(s)'
  BY <1>2, <1>3, HashesGoOn
<1>5. Hashes(h[k - 1] \o signs[k])'
  BY <1>3, <1>4 DEF Hashes
<1> QED BY <1>1, <1>2, <1>5 DEF Folding

LEMMA FoldingDone ==
  ASSUME NEW signs \in Seq(Bytes(HashLen)), Folding(signs), ~open, todo = <<>>
  PROVE  root = MerkleRoot(signs)
<1>k. PICK k \in 0 .. Len(signs) : \E h :
        IsFold(h, k, signs) /\ todo = SubSeq(signs, k + 1, Len(signs)) /\ root = h[k]
  BY DEF Folding
<1>1. PICK h :
        IsFold(h, k, signs) /\ todo = SubSeq(signs, k + 1, Len(signs)) /\ root = h[k]
  BY <1>k
<1>2. k = Len(signs) /\ k \in Nat
  <2>1. SubSeq(signs, k + 1, Len(signs)) = <<>>
    BY <1>1
  <2>2. k = Len(signs)
    BY <2>1, TailOf
  <2> QED BY <2>2
<1>3. IsFold(h, k, signs)
  BY <1>1
<1>4. MerkleRoot(signs) = h[k]
  BY <1>2, <1>3, FoldIs
<1> QED BY <1>1, <1>4

-----------------------------------------------------------------------------
(* What every step keeps. *)

LEMMA ZeroHashBytes == ZeroHash \in Bytes(HashLen)
  BY DEF ZeroHash, Bytes, Byte

\* A block is new: nothing is folded.
LEMMA ProposeKeeps ==
  ASSUME WireInv, Propose
  PROVE  Journey'
<1>1. PICK b \in Proposals : block' = b /\ todo' = b.signs
  BY DEF Propose
<1>2. /\ stage' = "merkle" /\ root' = ZeroHash /\ valid' = Unknown
      /\ ~open' /\ digest' = digest
  BY DEF Propose, hash_vars
<1>3. b \in Blocks /\ b.signs \in Seq(Bytes(HashLen))
  BY WireAssumption DEF Blocks
<1>4. WireShape'
  BY <1>1, <1>2, <1>3, ZeroHashBytes DEF WireShape, Stages, WireInv, Journey
<1>5. Proposed(block)'
  BY <1>1, <1>3 DEF Proposed
<1>6. Folding(block.signs)'
  <2>1. PICK signs : signs = b.signs
    OBVIOUS
  <2>2. Folding(signs)'
    BY <1>1, <1>2, <1>3, <2>1, FoldingStarts
  <2>3. block'.signs = signs
    BY <1>1, <2>1
  <2> QED BY <2>2, <2>3 DEF Folding, IsFold, Hashes
<1> QED BY <1>2, <1>4, <1>5, <1>6 DEF Journey, Author, Peer

\* Others hash in between blocks.
LEMMA OtherHashKeeps ==
  ASSUME WireInv, OtherHash
  PROVE  Journey'
<1>1. stage = "idle" /\ UNCHANGED wire_vars
  BY DEF OtherHash
<1>2. digest' = NoDigest
  BY DEF OtherHash, Begin
<1>3. WireShape'
  BY <1>1, <1>2 DEF wire_vars, WireShape, WireInv, Journey
<1>4. valid = Unknown \/ Outcome
  BY <1>1 DEF WireInv, Journey, Peer
<1>5. valid' = Unknown \/ Outcome'
  BY <1>1, <1>4 DEF wire_vars, Outcome, Proposed, Small, Arrived, Signed, Treed
<1> QED BY <1>1, <1>3, <1>5 DEF wire_vars, Journey, Author, Peer

LEMMA HashTxKeeps ==
  ASSUME WireInv, HashTx
  PROVE  Journey'
<1>1. /\ stage \in {"merkle", "remerkle"} /\ stage' = stage /\ block' = block /\ root' = root
      /\ got' = got /\ valid' = valid /\ digest' = NoDigest /\ todo # <<>> /\ todo' = Tail(todo)
  BY DEF HashTx, Begin
<1>2. WireShape'
  BY <1>1 DEF WireShape, WireInv, Journey
<1>3. Proposed(block) /\ Proposed(block)'
  BY <1>1 DEF WireInv, Journey, Proposed
<1>4. CASE stage = "merkle"
  <2>1. PICK signs \in Seq(Bytes(HashLen)) : signs = block.signs
    BY <1>3 DEF Proposed, Blocks
  <2>2. Folding(signs)
    BY <1>4, <2>1 DEF WireInv, Journey, Author
  <2>3. Folding(signs)'
    BY <2>2, FoldingGoesOn
  <2>4. Folding(block.signs)'
    BY <1>1, <2>1, <2>3 DEF Folding, IsFold, Hashes
  <2>5. valid = Unknown
    BY <1>4 DEF WireInv, Journey, Peer
  <2> QED BY <1>1, <1>2, <1>3, <1>4, <2>4, <2>5 DEF Journey, Author, Peer
<1>5. CASE stage = "remerkle"
  <2>1. Arrived /\ Folding(got.signs) /\ valid = [header |-> "yes", merkle |-> "unknown"] /\ Signed(block)
    BY <1>5 DEF WireInv, Journey, Author, Peer
  <2>2. PICK signs : signs = got.signs
    OBVIOUS
  <2>3. signs \in Seq(Bytes(HashLen))
    BY <1>3, <2>1, <2>2, ZeroHashBytes DEF Arrived, Zeroes, Proposed, Blocks
  <2>4. Folding(signs)
    BY <2>1, <2>2 DEF Folding, IsFold, Hashes
  <2>5. Folding(signs)'
    BY <2>3, <2>4, FoldingGoesOn
  <2>6. Folding(got.signs)'
    BY <1>1, <2>2, <2>5 DEF Folding, IsFold, Hashes
  <2>7. Arrived' /\ Signed(block)'
    BY <1>1, <2>1 DEF Arrived, Small, Signed, Treed
  <2> QED BY <1>1, <1>2, <1>3, <1>5, <2>1, <2>6, <2>7 DEF Journey, Author, Peer
<1> QED BY <1>1, <1>4, <1>5

LEMMA HashHeaderKeeps ==
  ASSUME WireInv, HashHeader
  PROVE  Journey'
<1>1. /\ stage = "merkle" /\ stage' = "sign" /\ todo = <<>> /\ todo' = todo /\ root' = root
      /\ valid' = valid /\ digest' = NoDigest /\ open' /\ ~open
      /\ Begin(<<Packed(block'.header)>>)
  BY DEF HashHeader, Begin
<1>2. WireShape'
  BY <1>1 DEF WireShape, Stages, WireInv, Journey
<1>3. Proposed(block) /\ Folding(block.signs) /\ valid = Unknown
  BY <1>1 DEF WireInv, Journey, Author, Peer
<1>4. /\ block' \in Blocks /\ block'.signs = block.signs /\ block'.header.merkle_tree = root
      /\ Packed(block'.header) \in Seq(Byte)
  BY HashHeaderParts
<1>5. Proposed(block)'
  BY <1>3, <1>4 DEF Proposed
<1>6. Treed(block)'
  <2>1. PICK signs \in Seq(Bytes(HashLen)) : signs = block.signs
    BY <1>3 DEF Proposed, Blocks
  <2>2. root = MerkleRoot(signs)
    BY <1>1, <1>3, <2>1, FoldingDone
  <2> QED BY <1>4, <2>1, <2>2 DEF Treed
<1>7. Hashes(Packed(block.header))'
  <2>1. PICK s : s = Packed(block'.header)
    OBVIOUS
  <2>2. s \in Seq(Byte) /\ Begin(<<s>>) /\ Spells(<<s>>, s)
    BY <1>1, <1>4, <2>1, OnePart
  <2>3. Hashes(s)'
    BY <2>2, HashesBegin
  <2> QED BY <2>1, <2>3 DEF Hashes
<1> QED BY <1>1, <1>2, <1>3, <1>5, <1>6, <1>7 DEF Journey, Author, Peer

LEMMA ServeKeeps ==
  ASSUME WireInv, Serve
  PROVE  Journey'
<1>1. /\ stage = "signed" /\ stage' = "sent" /\ text' = block_to_json(block) /\ block' = block
      /\ todo' = todo /\ root' = root /\ valid' = valid /\ digest' = digest
  BY DEF Serve, hash_vars
<1>2. WireShape'
  BY <1>1 DEF WireShape, Stages, WireInv, Journey
<1>3. Proposed(block)' /\ Signed(block)' /\ valid = Unknown
  BY <1>1 DEF WireInv, Journey, Author, Peer, Proposed, Signed, Treed
<1>4. text' = block_to_json(block')
  BY <1>1
<1> QED BY <1>1, <1>2, <1>3, <1>4 DEF Journey, Author, Peer

\* The reader refuses a block with a number that is too large.
LEMMA RefuseKeeps ==
  ASSUME WireInv, Refuse
  PROVE  Journey'
<1>1. /\ stage = "sent" /\ ~Readable(text) /\ stage' = "idle" /\ block' = block
      /\ valid' = [header |-> "refused", merkle |-> "refused"]
      /\ todo' = todo /\ root' = root /\ digest' = digest
  BY DEF Refuse, hash_vars
<1>2. WireShape'
  BY <1>1 DEF WireShape, Stages, WireInv, Journey
<1>3. Proposed(block) /\ text = block_to_json(block)
  BY <1>1 DEF WireInv, Journey, Author
<1>4. ~Small(block)
  BY <1>1, <1>3, BlockArrives DEF Proposed
<1>5. Outcome'
  BY <1>1, <1>3, <1>4 DEF Outcome, Proposed, Small
<1> QED BY <1>1, <1>2, <1>5 DEF Journey, Author, Peer

LEMMA ReceiveKeeps ==
  ASSUME WireInv, Receive
  PROVE  Journey'
<1>1. /\ stage = "sent" /\ stage' = "check" /\ block' = block /\ todo' = todo /\ root' = root
      /\ valid' = valid /\ digest' = NoDigest /\ open'
      /\ Begin(<<Packed(got'.header)>>)
  BY DEF Receive, Begin
<1>2. WireShape'
  BY <1>1 DEF WireShape, Stages, WireInv, Journey
<1>3. Proposed(block)' /\ Signed(block)' /\ valid = Unknown
  BY <1>1 DEF WireInv, Journey, Author, Peer, Proposed, Signed, Treed
<1>4. Arrived' /\ Packed(got'.header) \in Seq(Byte)
  BY ReceiveParts
<1>5. Hashes(Packed(got.header))'
  <2>1. PICK s : s = Packed(got'.header)
    OBVIOUS
  <2>2. s \in Seq(Byte) /\ Begin(<<s>>) /\ Spells(<<s>>, s)
    BY <1>1, <1>4, <2>1, OnePart
  <2>3. Hashes(s)'
    BY <2>2, HashesBegin
  <2> QED BY <2>1, <2>3 DEF Hashes
<1> QED BY <1>1, <1>2, <1>3, <1>4, <1>5 DEF Journey, Author, Peer

\* The peer's root is that of the zeros it made of the signatures.
LEMMA CompareKeeps ==
  ASSUME WireInv, Compare
  PROVE  Journey'
<1>1. /\ stage = "remerkle" /\ todo = <<>> /\ ~open /\ stage' = "idle"
      /\ valid' = [valid EXCEPT !.merkle = IF root = got.header.merkle_tree THEN "yes" ELSE "no"]
      /\ block' = block /\ got' = got /\ todo' = todo /\ root' = root /\ digest' = digest
  BY DEF Compare, hash_vars
<1>2. WireShape'
  BY <1>1 DEF WireShape, Stages, WireInv, Journey
<1>3. /\ Proposed(block) /\ Signed(block) /\ Arrived /\ Folding(got.signs)
      /\ valid = [header |-> "yes", merkle |-> "unknown"]
  BY <1>1 DEF WireInv, Journey, Author, Peer
<1>4. root = MerkleRoot(Zeroes(Len(block.signs)))
  <2>1. PICK signs : signs = got.signs
    OBVIOUS
  <2>2. signs = Zeroes(Len(block.signs)) /\ signs \in Seq(Bytes(HashLen))
    BY <1>3, <2>1, ZeroHashBytes DEF Arrived, Zeroes, Proposed, Blocks
  <2>3. Folding(signs)
    BY <1>3, <2>1 DEF Folding, IsFold, Hashes
  <2>4. root = MerkleRoot(signs)
    BY <1>1, <2>2, <2>3, FoldingDone
  <2> QED BY <2>2, <2>4
<1>5. got.header.merkle_tree = MerkleRoot(block.signs)
  BY <1>3 DEF Arrived, Signed, Treed
<1> DEFINE answer == IF MerkleRoot(Zeroes(Len(block.signs))) = MerkleRoot(block.signs)
                     THEN "yes" ELSE "no"
<1>6. valid' = [valid EXCEPT !.merkle = answer]
  BY <1>1, <1>4, <1>5
<1> HIDE DEF answer
<1>7. valid' = [header |-> "yes", merkle |-> answer]
  BY <1>3, <1>6
<1>8. Outcome'
  <2>1. Small(block)' /\ Arrived' /\ Proposed(block)'
    BY <1>1, <1>3 DEF Arrived, Small, Proposed
  <2> QED BY <1>1, <1>7, <2>1 DEF Outcome, answer
<1> QED BY <1>1, <1>2, <1>8 DEF Journey, Author, Peer

\* A turn of the loop of sha512_update, for whoever called it.
LEMMA HashingKeeps ==
  ASSUME WireInv, Hashing
  PROVE  Journey'
<1>1. /\ Update \/ DirectBlock \/ FillBuffer
      /\ UNCHANGED wire_vars /\ open' = open /\ digest' = digest /\ HashInv
  BY DEF Hashing, Update, DirectBlock, FillBuffer, Take, WireInv
<1>2. stage' = stage /\ block' = block /\ todo' = todo /\ root' = root /\ text' = text
      /\ got' = got /\ valid' = valid
  BY <1>1 DEF wire_vars
<1>3. WireShape' /\ (stage # "idle" => Proposed(block))'
  BY <1>1, <1>2 DEF WireShape, WireInv, Journey, Proposed
<1>4. ASSUME NEW s, Hashes(s) PROVE Hashes(s)'
  BY <1>1, <1>4, HashesGoOn
<1>5. ASSUME NEW signs, Folding(signs) PROVE Folding(signs)'
  BY <1>1, <1>2, <1>5, FoldingRuns
<1>6. stage' = "merkle" => Folding(block.signs)'
  <2> SUFFICES ASSUME stage = "merkle" PROVE Folding(block.signs)'
    BY <1>2
  <2>1. PICK signs : signs = block.signs
    OBVIOUS
  <2>2. Folding(signs)
    BY <2>1 DEF WireInv, Journey, Author, Folding, IsFold, Hashes
  <2>3. Folding(signs)'
    BY <1>5, <2>2
  <2> QED BY <1>2, <2>1, <2>3 DEF Folding, IsFold, Hashes
<1>7. stage' = "remerkle" => Folding(got.signs)'
  <2> SUFFICES ASSUME stage = "remerkle" PROVE Folding(got.signs)'
    BY <1>2
  <2>1. PICK signs : signs = got.signs
    OBVIOUS
  <2>2. Folding(signs)
    BY <2>1 DEF WireInv, Journey, Peer, Folding, IsFold, Hashes
  <2>3. Folding(signs)'
    BY <1>5, <2>2
  <2> QED BY <1>2, <2>1, <2>3 DEF Folding, IsFold, Hashes
<1>8. stage' = "sign" => Hashes(Packed(block.header))'
  <2> SUFFICES ASSUME stage = "sign" PROVE Hashes(Packed(block.header))'
    BY <1>2
  <2>1. PICK s : s = Packed(block.header)
    OBVIOUS
  <2>2. Hashes(s)
    BY <2>1 DEF WireInv, Journey, Author, Hashes
  <2>3. Hashes(s)'
    BY <1>4, <2>2
  <2> QED BY <1>2, <2>1, <2>3 DEF Hashes
<1>9. stage' = "check" => Hashes(Packed(got.header))'
  <2> SUFFICES ASSUME stage = "check" PROVE Hashes(Packed(got.header))'
    BY <1>2
  <2>1. PICK s : s = Packed(got.header)
    OBVIOUS
  <2>2. Hashes(s)
    BY <2>1 DEF WireInv, Journey, Peer, Hashes
  <2>3. Hashes(s)'
    BY <1>4, <2>2
  <2> QED BY <1>2, <2>1, <2>3 DEF Hashes
<1>10. Author'
  BY <1>1, <1>2, <1>6, <1>8 DEF Author, WireInv, Journey, Treed, Signed
<1>11. Peer'
  BY <1>1, <1>2, <1>7, <1>9 DEF Peer, WireInv, Journey, Outcome, Proposed, Arrived, Small
<1> QED BY <1>3, <1>10, <1>11 DEF Journey

-----------------------------------------------------------------------------
(* What sha512_final returns, and to whom. *)

LEMMA ReturnedShape ==
  ASSUME WordsKept, WireInv, Final
  PROVE  digest' \in Bytes(HashLen) /\ open /\ ~open'
  BY DigestBytes DEF WireInv, Final

LEMMA StoreRootKeeps ==
  ASSUME WordsKept, WireInv, Final, StoreRoot
  PROVE  Journey'
<1>1. /\ stage \in {"merkle", "remerkle"} /\ root' = digest' /\ stage' = stage /\ block' = block
      /\ todo' = todo /\ got' = got /\ valid' = valid
  BY DEF StoreRoot
<1>2. WireShape'
  BY <1>1, ReturnedShape DEF WireShape, WireInv, Journey
<1>3. Proposed(block)' /\ HashInv
  BY <1>1 DEF WireInv, Journey, Proposed
<1>4. CASE stage = "merkle"
  <2>1. PICK signs : signs = block.signs
    OBVIOUS
  <2>2. Folding(signs)
    BY <1>4, <2>1 DEF WireInv, Journey, Author, Folding, IsFold, Hashes
  <2>3. Folding(signs)'
    BY <1>1, <1>3, <2>2, FoldingReturns
  <2>4. Folding(block.signs)'
    BY <1>1, <2>1, <2>3 DEF Folding, IsFold, Hashes
  <2>5. valid = Unknown
    BY <1>4 DEF WireInv, Journey, Peer
  <2> QED BY <1>1, <1>2, <1>3, <1>4, <2>4, <2>5 DEF Journey, Author, Peer
<1>5. CASE stage = "remerkle"
  <2>1. Arrived /\ Folding(got.signs) /\ valid = [header |-> "yes", merkle |-> "unknown"] /\ Signed(block)
    BY <1>5 DEF WireInv, Journey, Author, Peer
  <2>2. PICK signs : signs = got.signs
    OBVIOUS
  <2>3. Folding(signs)
    BY <2>1, <2>2 DEF Folding, IsFold, Hashes
  <2>4. Folding(signs)'
    BY <1>1, <1>3, <2>3, FoldingReturns
  <2>5. Folding(got.signs)'
    BY <1>1, <2>2, <2>4 DEF Folding, IsFold, Hashes
  <2>6. Arrived' /\ Signed(block)'
    BY <1>1, <2>1 DEF Arrived, Small, Signed, Treed
  <2> QED BY <1>1, <1>2, <1>3, <1>5, <2>1, <2>5, <2>6 DEF Journey, Author, Peer
<1> QED BY <1>1, <1>4, <1>5

\* The author stores the hash of the header and signs it.
LEMMA StoreHashKeeps ==
  ASSUME WordsKept, SignTyped, WireInv, Final, StoreHash
  PROVE  Journey'
<1> DEFINE h == block.header
           s == Packed(h)
           y == Sign(s, h.issuer_pub_key)
<1>1. /\ stage = "sign" /\ stage' = "signed" /\ todo' = todo /\ root' = root /\ valid' = valid
      /\ block' = WithHash(block, digest', y)
  BY DEF StoreHash, WithHash
<1>2. WireShape'
  BY <1>1, ReturnedShape DEF WireShape, Stages, WireInv, Journey
<1>3. Proposed(block) /\ Treed(block) /\ Hashes(s) /\ valid = Unknown
  BY <1>1 DEF WireInv, Journey, Author, Peer
<1>4. h \in Headers /\ s \in Seq(Byte) /\ h.issuer_pub_key \in Bytes(PubLen)
  <2>1. h \in Headers
    BY <1>3 DEF Proposed, Blocks
  <2>2. h.issuer_pub_key \in Bytes(PubLen)
    BY <2>1 DEF Headers
  <2> QED BY <2>1, <2>2, PackedBytes
<1>5. y \in Bytes(HashLen) /\ digest' \in Bytes(HashLen)
  BY <1>4, ReturnedShape DEF SignTyped
<1>6. digest' = Hash!Digest(s)
  <2>1. PICK b : b = s
    OBVIOUS
  <2>2. Hashes(b)
    BY <1>3, <2>1 DEF Hashes
  <2>3. digest' = Hash!Digest(b)
    BY <2>2, HashesFinal DEF WireInv
  <2> QED BY <2>1, <2>3
<1> DEFINE g == Stamped(h, digest', y)
<1> HIDE DEF y
<1>7. block' \in Blocks /\ block'.signs = block.signs /\ block'.header = g
  <2>1. block \in Blocks
    BY <1>3 DEF Proposed
  <2> QED BY <1>1, <1>5, <2>1, HashStored
<1>8. /\ Packed(g) = s
      /\ g.hash = digest' /\ g.sign = y /\ g.merkle_tree = h.merkle_tree
      /\ g.issuer_pub_key = h.issuer_pub_key
  <2> HIDE DEF h
  <2>1. h \in Headers
    BY <1>4
  <2> QED BY <1>5, <2>1, PackedSame DEF s
<1> HIDE DEF g
<1>9. Proposed(block)'
  BY <1>3, <1>7 DEF Proposed
<1>10. Signed(block)'
  <2>1. block'.header.merkle_tree = MerkleRoot(block'.signs)
    BY <1>3, <1>7, <1>8 DEF Treed
  <2>2. block'.header.hash = Hash!Digest(Packed(block'.header))
    BY <1>6, <1>7, <1>8
  <2>3. block'.header.sign = Sign(Packed(block'.header), block'.header.issuer_pub_key)
    BY <1>7, <1>8 DEF y
  <2> QED BY <2>1, <2>2, <2>3 DEF Signed, Treed
<1> QED BY <1>1, <1>2, <1>3, <1>9, <1>10 DEF Journey, Author, Peer

\* The peer finds the hash and the signature of the author.
LEMMA CheckHeaderKeeps ==
  ASSUME WordsKept, WireInv, Final, CheckHeader
  PROVE  Journey'
<1> DEFINE h == got.header
<1>1. /\ stage = "check" /\ stage' = "remerkle" /\ todo' = got.signs /\ root' = ZeroHash
      /\ block' = block /\ got' = got
      /\ valid' = [valid EXCEPT !.header = IF digest' = h.hash /\ h.sign = Sign(Packed(h), h.issuer_pub_key)
                                           THEN "yes" ELSE "no"]
  BY DEF CheckHeader
<1>2. Proposed(block) /\ Signed(block) /\ Arrived /\ Hashes(Packed(h)) /\ valid = Unknown /\ HashInv
  BY <1>1 DEF WireInv, Journey, Author, Peer
<1>3. h = block.header /\ got.signs = Zeroes(Len(block.signs))
  BY <1>2 DEF Arrived
<1>4. got.signs \in Seq(Bytes(HashLen))
  BY <1>2, <1>3, ZeroHashBytes DEF Zeroes, Proposed, Blocks
<1>5. WireShape'
  BY <1>1, <1>4, ReturnedShape, ZeroHashBytes DEF WireShape, Stages, WireInv, Journey
<1>6. digest' = Hash!Digest(Packed(h))
  <2>1. PICK b : b = Packed(h)
    OBVIOUS
  <2>2. Hashes(b)
    BY <1>2, <2>1 DEF Hashes
  <2>3. digest' = Hash!Digest(b)
    BY <1>2, <2>2, HashesFinal
  <2> QED BY <2>1, <2>3
<1>7. digest' = h.hash /\ h.sign = Sign(Packed(h), h.issuer_pub_key)
  <2> HIDE DEF h
  <2> QED BY <1>2, <1>3, <1>6 DEF Signed
<1>8. valid' = [valid EXCEPT !.header = "yes"]
  BY <1>1, <1>7
<1>9. valid' = [header |-> "yes", merkle |-> "unknown"]
  BY <1>2, <1>8 DEF Unknown
<1>10. Folding(got.signs)'
  <2>1. PICK signs : signs = got.signs
    OBVIOUS
  <2>2. Folding(signs)'
    BY <1>1, <1>4, <2>1, ReturnedShape, FoldingStarts
  <2> QED BY <1>1, <2>1, <2>2 DEF Folding, IsFold, Hashes
<1>11. Proposed(block)' /\ Signed(block)' /\ Arrived'
  BY <1>1, <1>2 DEF Proposed, Signed, Treed, Arrived, Small
<1> QED BY <1>1, <1>5, <1>9, <1>10, <1>11 DEF Journey, Author, Peer

LEMMA ReturnedKeeps ==
  ASSUME WordsKept, SignTyped, WireInv, Returned
  PROVE  Journey'
<1>1. Final
  BY DEF Returned
<1>2. CASE StoreRoot
  BY <1>1, <1>2, StoreRootKeeps
<1>3. CASE StoreHash
  BY <1>1, <1>3, StoreHashKeeps
<1>4. CASE CheckHeader
  BY <1>1, <1>4, CheckHeaderKeeps
<1>5. CASE stage = "idle" /\ UNCHANGED wire_vars
  <2>1. WireShape'
    BY <1>1, <1>5, ReturnedShape DEF wire_vars, WireShape, WireInv, Journey
  <2>2. valid = Unknown \/ Outcome
    BY <1>5 DEF WireInv, Journey, Peer
  <2>3. valid' = Unknown \/ Outcome'
    BY <1>5, <2>2 DEF wire_vars, Outcome, Proposed, Small, Arrived
  <2> QED BY <1>5, <2>1, <2>3 DEF wire_vars, Journey, Author, Peer
<1> QED BY <1>2, <1>3, <1>4, <1>5 DEF Returned

-----------------------------------------------------------------------------
(* The theorems about Wire. *)

LEMMA WireInitial == WireInit => WireInv
<1> SUFFICES ASSUME WireInit PROVE WireInv
  OBVIOUS
<1>1. HashInv /\ digest = NoDigest
  BY HashInitial DEF WireInit, HashInit
<1>2. WireShape
  BY <1>1, ZeroHashBytes DEF WireInit, WireShape, Stages
<1> QED BY <1>1, <1>2 DEF WireInit, WireInv, Journey, Author, Peer

LEMMA WireKept ==
  ASSUME WordsKept, SignTyped, WireInv, [WireNext]_vars
  PROVE  WireInv'
<1>1. HashInv'
  BY HashKept
<1>2. Journey'
  <2>1. CASE Propose
    BY <2>1, ProposeKeeps
  <2>2. CASE OtherHash
    BY <2>2, OtherHashKeeps
  <2>3. CASE HashTx
    BY <2>3, HashTxKeeps
  <2>4. CASE HashHeader
    BY <2>4, HashHeaderKeeps
  <2>5. CASE Serve
    BY <2>5, ServeKeeps
  <2>6. CASE Refuse
    BY <2>6, RefuseKeeps
  <2>7. CASE Receive
    BY <2>7, ReceiveKeeps
  <2>8. CASE Compare
    BY <2>8, CompareKeeps
  <2>9. CASE Hashing
    BY <2>9, HashingKeeps
  <2>10. CASE Returned
    BY <2>10, ReturnedKeeps
  <2>11. CASE UNCHANGED vars
    <3>1. /\ in' = in /\ calls' = calls /\ open' = open /\ digest' = digest /\ fed' = fed
          /\ stage' = stage /\ block' = block /\ todo' = todo /\ root' = root /\ text' = text
          /\ got' = got /\ valid' = valid
      BY <2>11 DEF vars, hash_vars, wire_vars
    <3>2. Journey
      BY DEF WireInv
    <3>3. WireShape' /\ (stage # "idle" => Proposed(block))'
      BY <3>1, <3>2 DEF Journey, WireShape, Proposed
    <3>4. Author'
      BY <3>1, <3>2 DEF Journey, Author, Folding, IsFold, Hashes, Treed, Signed
    <3>5. Peer'
      BY <3>1, <3>2 DEF Journey, Peer, Outcome, Proposed, Arrived, Small, Folding, IsFold, Hashes
    <3> QED BY <3>3, <3>4, <3>5 DEF Journey
  <2> QED BY <2>1, <2>2, <2>3, <2>4, <2>5, <2>6, <2>7, <2>8, <2>9, <2>10, <2>11 DEF WireNext
<1> QED BY <1>1, <1>2 DEF WireInv

\* A context is a record of the type that TypeOK names.
LEMMA ContextTyped ==
  ASSUME WordsKept, HashInv
  PROVE  md \in [curlen : Index, length : Nat, state : [0 .. 7 -> Nat], buf : [Index -> Byte]]
<1>1. PICK S \in SUBSET [0 .. 7 -> Nat] : Closed(S)
  BY DEF WordsKept
<1>2. md.state \in [0 .. 7 -> Nat]
  BY <1>1 DEF HashInv, Shape, Within
<1>3. /\ md = Context(md.curlen, md.length, md.state, md.buf)
      /\ md.curlen \in Index /\ md.length \in Nat /\ md.buf \in [Index -> Byte]
  BY DEF HashInv, Shape
<1> DEFINE a == md.curlen
           b == md.length
           s == md.state
           u == md.buf
<1> HIDE DEF a, b, s, u
<1>4. a \in Index /\ b \in Nat /\ s \in [0 .. 7 -> Nat] /\ u \in [Index -> Byte]
  BY <1>2, <1>3 DEF a, b, s, u
<1>5. Context(a, b, s, u) \in [curlen : Index, length : Nat, state : [0 .. 7 -> Nat],
                               buf : [Index -> Byte]]
  BY <1>4 DEF Context
<1> QED BY <1>3, <1>5 DEF a, b, s, u

LEMMA InvIsTyped ==
  ASSUME WordsKept, WireInv
  PROVE  TypeOK
<1>1. HashInv /\ WireShape
  BY DEF WireInv, Journey
<1>2. \A s \in {in, fed} \cup {calls[i] : i \in DOMAIN calls} : \A i \in DOMAIN s : s[i] \in Byte
  <2>1. in \in Seq(Byte) /\ fed \in Seq(Byte) /\ calls \in Seq(Seq(Byte))
    BY <1>1 DEF HashInv, Shape
  <2>2. \A i \in DOMAIN calls : calls[i] \in Seq(Byte)
    BY <2>1
  <2>3. \A s \in {in, fed} \cup {calls[i] : i \in DOMAIN calls} : s \in Seq(Byte)
    BY <2>1, <2>2
  <2>4. ASSUME NEW s \in Seq(Byte), NEW i \in DOMAIN s PROVE s[i] \in Byte
    OBVIOUS
  <2> QED BY <2>3, <2>4
<1>3. md \in [curlen : Index, length : Nat, state : [0 .. 7 -> Nat], buf : [Index -> Byte]]
  BY <1>1, ContextTyped
<1> QED BY <1>1, <1>2, <1>3 DEF TypeOK, WireShape, Stages

LEMMA InvDelivers ==
  ASSUME NoCollision, WireInv
  PROVE  Delivered
<1> SUFFICES ASSUME valid.merkle # "unknown"
             PROVE  IF \E f \in Ints : block.header[f] > IntMax THEN valid.header = "refused"
                    ELSE /\ got.header = block.header
                         /\ valid.header = "yes"
                         /\ valid.merkle = (IF block.signs = <<>> THEN "yes" ELSE "no")
  BY DEF Delivered
<1>1. valid # Unknown
  BY DEF Unknown
<1>2. stage = "idle" /\ Outcome
  BY <1>1 DEF WireInv, Journey, Peer
<1>3. Proposed(block)
  BY <1>2 DEF Outcome
<1>4. Small(block) <=> ~\E f \in Ints : block.header[f] > IntMax
  <2>1. block.header \in Headers /\ IntMax \in Nat
    BY <1>3, WireAssumption DEF Proposed, Blocks
  <2>2. \A f \in Ints : block.header[f] \in Nat
    BY <2>1, HeaderFields, WireAssumption DEF U32
  <2> QED BY <2>1, <2>2 DEF Small
<1>5. CASE ~Small(block)
  BY <1>2, <1>4, <1>5 DEF Outcome
<1>6. CASE Small(block)
  <2> DEFINE n == Len(block.signs)
  <2>1. /\ got.header = block.header /\ valid.header = "yes"
        /\ valid.merkle = IF MerkleRoot(Zeroes(n)) = MerkleRoot(block.signs) THEN "yes" ELSE "no"
    BY <1>2, <1>6 DEF Outcome, Arrived
  <2>2. CASE block.signs = <<>>
    <3>1. Zeroes(n) = <<>>
      BY <2>2 DEF Zeroes
    <3> QED BY <1>4, <1>6, <2>1, <2>2, <3>1
  <2>3. CASE block.signs # <<>>
    <3>1. MerkleRoot(block.signs) # MerkleRoot(Zeroes(n))
      BY <1>3, <2>3 DEF Proposed, NoCollision
    <3> QED BY <1>4, <1>6, <2>1, <2>3, <3>1
  <2> QED BY <2>2, <2>3
<1> QED BY <1>5, <1>6

\* TypeOK, for every size of a word, a header and an integer: hashes and roots
\* are as long as they should be, and the buffer is never left full.
THEOREM WireTypes == ASSUME WordsKept, SignTyped PROVE WireSpec => []TypeOK
<1>1. WireInit => WireInv
  BY WireInitial
<1>2. WireInv /\ [WireNext]_vars => WireInv'
  BY WireKept
<1>3. WireInv => TypeOK
  BY InvIsTyped
<1> QED BY <1>1, <1>2, <1>3, PTL DEF WireSpec

\* Delivered, for every set of proposed blocks: what block_sign signed is what
\* block_validate finds, or json_to_block refuses it because of a number; its
\* tree is found only if it has no transactions.
THEOREM HeadersArrive == ASSUME WordsKept, SignTyped, NoCollision PROVE WireSpec => []Delivered
<1>1. WireInit => WireInv
  BY WireInitial
<1>2. WireInv /\ [WireNext]_vars => WireInv'
  BY WireKept
<1>3. WireInv => Delivered
  BY InvDelivers
<1> QED BY <1>1, <1>2, <1>3, PTL DEF WireSpec

\* Conserved and ImplementsHash while blocks are signed and checked.
THEOREM WireHashes == ASSUME WordsKept, SignTyped PROVE WireSpec => []Conserved /\ ImplementsHash
<1>1. WireInit => WireInv /\ Hash!Init
  BY WireInitial, HashInitial DEF WireInit
<1>2. WireInv /\ [WireNext]_vars => WireInv'
  BY WireKept
<1>3. WireInv => Conserved
  BY DEF WireInv, HashInv
<1>4. WireInv /\ [WireNext]_vars => [Hash!Next]_<<fed, digest>>
  BY StepsHash, HashStepImplements DEF WireInv
<1> QED BY <1>1, <1>2, <1>3, <1>4, PTL DEF WireSpec, ImplementsHash, Hash!Spec

=============================================================================
