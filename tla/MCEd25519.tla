----------------------------- MODULE MCEd25519 -----------------------------
(***************************************************************************)
(* A curve of the same shape over 2^15 - 19: two bytes where the code has  *)
(* thirty-two, limbs of 2 and 1 bits, scalars of 24 limbs of 1 bit.  The   *)
(* base point has the prime order 2^12 + 15; -1 has the root 15645, and    *)
(* -40/41 is no square.                                                    *)
(***************************************************************************)
EXTENDS Ed25519Audit

MCChain == <<5, 10>>
MCRoot == Given(15645)
MCFold == <<-1, -1, -1, 1, 1, -1>>
MCChunks == [i \in 0 .. 10 |-> 2^(<<0, 2, 4, 5, 7, 8, 10, 11, 13, 14, 15>>[i + 1])]

MCCurve == INSTANCE Curve WITH D <- 29553

MCd == Given(29553)
MCd2 == Given(2 * 29553)

\* The odd multiples of the base point, which the source has as numbers.
MCBi ==
  [k \in 0 .. 7 |->
     LET P == MCCurve!Times(2 * (2 * k + 1), <<13554, 26200>>)
     IN [yplusx |-> Given(P[2] + P[1]), yminusx |-> Given(P[2] - P[1]),
         xy2d |-> Given(((P[1] * P[2]) % Prime) * (2 * 29553 - Prime))]]

\* A digest: two mixtures of the parts.
MCMixed(parts, factor) ==
  LET mix[i \in 0 .. Len(parts)] ==
        IF i = 0 THEN 4093 ELSE (((mix[i - 1] + parts[i]) % 65536) * factor + 26041) % 65536
  IN mix[Len(parts)]

MCHash(parts) == <<MCMixed(parts, 10221), MCMixed(parts, 25173)>>

=============================================================================
