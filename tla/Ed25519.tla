------------------------------ MODULE Ed25519 ------------------------------
(***************************************************************************)
(* Keys and signatures: the functions of keypair.c, sign.c, verify.c,      *)
(* add_scalar.c and key_exchange.c, over the table that the program fills  *)
(* row by row when it starts.  The hash function is a constant; its digest *)
(* is a pair of halves of Bytes bytes.  The last two files belong to the   *)
(* library in src/ and are modelled as such: main.cpp does not include     *)
(* add_scalar.c, and nothing in the program calls their functions.         *)
(***************************************************************************)
EXTENDS GroupMult, Scalar

CONSTANTS
  Seeds,     \* seeds for key pairs
  Messages,  \* messages to sign
  Tweaks,    \* scalars for add_scalar
  Hash(_),   \* sha512 of a sequence of parts
  MaxKeys,   \* bound: pairs that exist
  MaxSigs,   \* bound: signatures that exist
  MaxTweaks  \* bound: scalars added to one pair

ASSUME Ed25519Assumption ==
  /\ Seeds \subseteq Nat /\ Messages \subseteq Nat /\ Tweaks \subseteq 0 .. 2^(8 * Bytes) - 1
  /\ {MaxKeys, MaxSigs, MaxTweaks} \subseteq Nat
  /\ Half = 8 * Bytes

VARIABLES
  base,       \* the table: [row -> [Column -> ge_precomp]]
  active_row, \* rows that are filled
  p3,         \* the point whose multiples the next row holds
  keys,       \* pairs: the secret scalar, the other half, the public key
  sigs        \* signatures, with what was signed and by whom

vars == <<base, active_row, p3, keys, sigs>>

Row == 0 .. Bytes - 1

-----------------------------------------------------------------------------
(* The table. *)

\* The base point, from its numbers in the source.
Bi0 == [YplusX |-> Bi[0].yplusx, YminusX |-> Bi[0].yminusx, Z |-> fe_1, T2d |-> Bi[0].xy2d]

Init ==
  /\ base = [i \in Row |-> [j \in Column |-> NoEntry]]
  /\ active_row = 0
  /\ p3 = ge_p1p1_to_p3(ge_add(ge_p3_0, Bi0))
  /\ keys = {} /\ sigs = {}

\* Mutant of ComputeRow: one doubling is missing.
ComputeRow_seven ==
  /\ active_row \in Row
  /\ base' = [base EXCEPT ![active_row] = compute_row(ge_p3_to_cached(p3))]
  /\ p3' = ge_p1p1_to_p3(Doubled(ge_p3_to_p2(p3), 7))
  /\ active_row' = active_row + 1
  /\ UNCHANGED <<keys, sigs>>

\* Mutant of ComputeRow: the loop makes one turn more.
ComputeRow_again ==
  /\ active_row \in 0 .. Bytes
  /\ base' = [base EXCEPT ![active_row] = compute_row(ge_p3_to_cached(p3))]
  /\ p3' = ge_p1p1_to_p3(Doubled(ge_p3_to_p2(p3), 8))
  /\ active_row' = active_row + 1
  /\ UNCHANGED <<keys, sigs>>

\* One turn of the loop of compute_lookup_table: a row of multiples, then
\* the point is doubled eight times.
ComputeRow ==
  /\ active_row \in Row
  /\ base' = [base EXCEPT ![active_row] = compute_row(ge_p3_to_cached(p3))]
  /\ p3' = ge_p1p1_to_p3(Doubled(ge_p3_to_p2(p3), 8))
  /\ active_row' = active_row + 1
  /\ UNCHANGED <<keys, sigs>>

\* main() fills the table before it does anything else.
TableBuilt == active_row = Bytes

-----------------------------------------------------------------------------
(* Keys. *)

\* The three lowest bits and the two highest ones cleared, the next one set.
Clamp(a) == (a % (TopBit \div 2)) - (a % 8) + TopBit \div 2

PublicOf(a) == ge_p3_tobytes(ge_scalarmult_base(base, a))

ed25519_create_keypair(seed) ==
  LET h == Hash(<<seed>>)
      a == Clamp(h[1])
  IN [a |-> a, prefix |-> h[2], pub |-> PublicOf(a), tweaks |-> <<>>, from |-> a]

Generate(seed) ==
  /\ TableBuilt
  /\ Cardinality(keys) < MaxKeys
  /\ keys' = keys \cup {ed25519_create_keypair(seed)}
  /\ UNCHANGED <<base, active_row, p3, sigs>>

\* The highest bit of a scalar to add is ignored.
Masked(n) == n % TopBit

\* add_scalar with both keys: a multiple of the base point as for any pair.
AddToPair(k, scalar) ==
  LET a == sc_muladd(1, Masked(scalar), k.a)
  IN [a |-> a, prefix |-> Hash(<<k.prefix, scalar>>)[1], pub |-> PublicOf(a),
      tweaks |-> Append(k.tweaks, scalar), from |-> k.from]

\* Mutant of AddToPublic: the negation by the decoder is not undone.
AddToPublic_opposite(pub, scalar) ==
  LET nB == ge_scalarmult_base(base, Masked(scalar))
      T == ge_p3_to_cached(ge_frombytes_negate_vartime(pub))
  IN ge_p3_tobytes(ge_p1p1_to_p3(ge_add(nB, T)))

\* add_scalar with the public key alone: a sum of two points.
AddToPublic(pub, scalar) ==
  LET opposite == ge_frombytes_negate_vartime(pub)
      unpacked == [opposite EXCEPT !.X = fe_neg(@), !.T = fe_neg(@)]
      nB == ge_scalarmult_base(base, Masked(scalar))
  IN ge_p3_tobytes(ge_p1p1_to_p3(ge_add(nB, ge_p3_to_cached(unpacked))))

\* The library's operation; the program itself never adds a scalar.
AddScalar(k, scalar) ==
  /\ Len(k.tweaks) < MaxTweaks
  /\ keys' = (keys \ {k}) \cup {AddToPair(k, scalar)}
  /\ UNCHANGED <<base, active_row, p3, sigs>>

-----------------------------------------------------------------------------
(* Signatures. *)

\* Mutant of ed25519_sign: the public key is hashed before R.
ed25519_sign_swapped(k, m) ==
  LET r == sc_reduce(Hash(<<k.prefix, m>>))
      R == ge_p3_tobytes(ge_scalarmult_base(base, r))
      hram == sc_reduce(Hash(<<k.pub, R, m>>))
  IN [R |-> R, S |-> sc_muladd(hram, k.a, r)]

ed25519_sign(k, m) ==
  LET r == sc_reduce(Hash(<<k.prefix, m>>))
      R == ge_p3_tobytes(ge_scalarmult_base(base, r))
      hram == sc_reduce(Hash(<<R, k.pub, m>>))
  IN [R |-> R, S |-> sc_muladd(hram, k.a, r)]

\* Mutant of ed25519_verify: S is not looked at.
ed25519_verify_any(sig, m, pub) ==
  LET A == ge_frombytes_negate_vartime(pub)
      h == sc_reduce(Hash(<<sig.R, pub, m>>))
  IN /\ A # NoPoint
     /\ ge_tobytes(ge_double_scalarmult_vartime(h, A, sig.S)) = sig.R

\* S must be below 2^253: the three highest bits are 0.
ed25519_verify(sig, m, pub) ==
  LET A == ge_frombytes_negate_vartime(pub)
      h == sc_reduce(Hash(<<sig.R, pub, m>>))
  IN /\ sig.S < TopBit \div 4
     /\ A # NoPoint
     /\ ge_tobytes(ge_double_scalarmult_vartime(h, A, sig.S)) = sig.R

Sign(k, m) ==
  /\ Cardinality(sigs) < MaxSigs
  /\ sigs' = sigs \cup {[by |-> k.pub, msg |-> m, sig |-> ed25519_sign(k, m)]}
  /\ UNCHANGED <<base, active_row, p3, keys>>

-----------------------------------------------------------------------------
(* The secret that two pairs share. *)

\* One step of the Montgomery ladder, after the two points were exchanged or not.
LadderStep(s, exchange, b, x1) ==
  LET a2 == IF exchange THEN s.x3 ELSE s.x2
      c2 == IF exchange THEN s.z3 ELSE s.z2
      a3 == IF exchange THEN s.x2 ELSE s.x3
      c3 == IF exchange THEN s.z2 ELSE s.z3
      da == fe_mul(fe_sub(a3, c3), fe_add(a2, c2))
      cb == fe_mul(fe_add(a3, c3), fe_sub(a2, c2))
      bb == fe_sq(fe_sub(a2, c2))
      aa == fe_sq(fe_add(a2, c2))
      ee == fe_sub(aa, bb)
  IN [x2 |-> fe_mul(aa, bb), z2 |-> fe_mul(ee, fe_add(bb, fe_mul121666(ee))),
      x3 |-> fe_sq(fe_add(da, cb)), z3 |-> fe_mul(x1, fe_sq(fe_sub(da, cb))), swap |-> b]

\* Mutant of Ladder: it exchanges on the bit, not on a change of it.
Ladder_bit(s, b, x1) == LadderStep(s, b = 1, b, x1)

\* The points are exchanged when the bit changes.
Ladder(s, b, x1) == LadderStep(s, s.swap # b, b, x1)

LadderState == [x2 : Element, z2 : Element, x3 : Element, z3 : Element, swap : {0, 1}]

ed25519_key_exchange(pub, private) ==
  LET e == Clamp(private)
      y == fe_frombytes(pub)
      x1 == fe_mul(fe_add(y, fe_1), fe_invert(fe_sub(fe_1, y)))
      top == 8 * Bytes - 2
      ladder[pos \in -1 .. top, s \in LadderState] ==
        IF pos = -1 THEN s ELSE ladder[pos - 1, Ladder(s, (e \div 2^pos) % 2, x1)]
      end == ladder[top, [x2 |-> fe_1, z2 |-> fe_0, x3 |-> x1, z3 |-> fe_1, swap |-> 0]]
      x == IF end.swap = 1 THEN end.x3 ELSE end.x2
      z == IF end.swap = 1 THEN end.z3 ELSE end.z2
  IN fe_tobytes(fe_mul(x, fe_invert(z)))

-----------------------------------------------------------------------------
Next ==
  \/ ComputeRow
  \/ \E seed \in Seeds : Generate(seed)
  \/ \E k \in keys, n \in Tweaks : AddScalar(k, n)
  \/ \E k \in keys, m \in Messages : Sign(k, m)

Spec == Init /\ [][Next]_vars

=============================================================================
