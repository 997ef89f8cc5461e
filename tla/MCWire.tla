------------------------------- MODULE MCWire -------------------------------
(***************************************************************************)
(* Words of one byte: blocks of 16 bytes, hashes of 8, so that a root and  *)
(* a signature fill a block exactly, as 64 + 64 = 128 bytes do, and a      *)
(* header takes a block and a half (24; 176 of 256 in the code).           *)
(***************************************************************************)
EXTENDS Wire

MCBlocks == INSTANCE Sha512Block WITH
  WordBytes <- 1, Rounds <- 24,
  K <- [i \in 0 .. 23 |-> (37 * i * i + 101 * i + 66) % 256],
  Sigma0 <- <<2, 5, 7>>, Sigma1 <- <<1, 3, 6>>, Gamma0 <- <<1, 4, 2>>, Gamma1 <- <<3, 5, 1>>

MCCompress(state, buf) == MCBlocks!sha512_compress(state, buf)

MCIV == [i \in 0 .. 7 |-> (73 * i + 106) % 256]

\* The rounds of the standard, with the same constants.
MCStandard == INSTANCE HashRounds WITH
  WordBytes <- 1, Rounds <- 24,
  K <- [i \in 0 .. 23 |-> (37 * i * i + 101 * i + 66) % 256],
  Sigma0 <- <<2, 5, 7>>, Sigma1 <- <<1, 3, 6>>, Gamma0 <- <<1, 4, 2>>, Gamma1 <- <<3, 5, 1>>

MCThrough(state, buf) == MCStandard!Through(state, buf)

\* Every digest is the standard's: the registers that stay in place and the
\* shortened choice and majority of sha512_compress do what its rounds do.
Standard == INSTANCE HashSpec WITH text <- fed, Through <- MCThrough

ImplementsStandard == Standard!Spec

MCBytes(n, x) == [i \in 1 .. n |-> (x + 89 * i) % 256]

\* Lengths around the boundaries: the last of one block (13), the first of two
\* (14), a full one less a byte, full, and two full ones less a byte; then the
\* parts of the signatures: half a private key or R, a key, a message.
MCJobs ==
  {<<MCBytes(n, n)>> : n \in {0, 5, 13, 14, 15, 16, 31}}
    \cup {<<MCBytes(4, 1), MCBytes(20, 2)>>, <<MCBytes(4, 3), MCBytes(4, 4), MCBytes(20, 5)>>}

MCGarbage == {[i \in 0 .. 15 |-> 0], [i \in 0 .. 15 |-> 255]}

\* A stand-in for a signature that depends on the bytes and the key.
MCSign(bytes, pub) ==
  [i \in 1 .. 8 |-> (bytes[i + 2] + 3 * bytes[i + 10] + 5 * bytes[i + 16] + pub[1] + i) % 256]

MCZero == [i \in 1 .. 8 |-> 0]

MCHeader(id, prev, addr, nonce) ==
  [id |-> id, version |-> 1, prev_hash |-> prev, merkle_tree |-> MCZero, issuer_addr |-> addr,
   issuer_pub_key |-> MCBytes(4, addr), nonce |-> nonce, hash |-> MCZero, sign |-> MCZero]

\* The genesis block, later ones with up to two transactions, and one whose id
\* does not fit into the positive half of an integer.
MCProposals ==
  {[header |-> MCHeader(0, MCZero, 0, 0), signs |-> <<>>],
   [header |-> MCHeader(1, MCBytes(8, 7), 3, 0), signs |-> <<MCBytes(8, 9)>>],
   [header |-> MCHeader(127, MCBytes(8, 10), 127, 0), signs |-> <<MCBytes(8, 9), MCBytes(8, 11)>>],
   [header |-> MCHeader(128, MCBytes(8, 12), 1, 0), signs |-> <<>>]}

ASSUME MCWireAssumption == NoCollision

=============================================================================
