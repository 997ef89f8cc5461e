------------------------------ MODULE HashSpec ------------------------------
(***************************************************************************)
(* What src/sha512.c promises, as FIPS 180-4 defines it: the digest of all *)
(* bytes together, whatever the parts they came in.  The message is padded *)
(* with a bit 1, zeros and its length to whole blocks, and a state goes    *)
(* through one block after the other; what a block does to it is a         *)
(* parameter (HashRounds has the rounds of the standard).                  *)
(***************************************************************************)
EXTENDS Integers, Sequences

CONSTANTS WordBytes, IV, NoDigest,
  Through(_, _)  \* the state after a block

VARIABLES text, digest

BlockLen == 16 * WordBytes

Zeros(n) == [i \in 1 .. n |-> 0]

\* The length takes two words, of which the first is 0 here.
Padded(bytes) ==
  LET used == Len(bytes) + 1 + 2 * WordBytes
      length == [i \in 1 .. WordBytes |-> ((8 * Len(bytes)) \div 256^(WordBytes - i)) % 256]
  IN bytes \o <<128>> \o Zeros((BlockLen - (used % BlockLen)) % BlockLen) \o Zeros(WordBytes) \o length

\* The states after 0, 1 and more whole blocks.
Chain(bytes) ==
  LET block(i) == [j \in 0 .. BlockLen - 1 |-> bytes[(i - 1) * BlockLen + j + 1]]
      state[i \in 0 .. Len(bytes) \div BlockLen] ==
        IF i = 0 THEN IV ELSE Through(state[i - 1], block(i))
  IN state

Digest(bytes) ==
  LET all == Padded(bytes)
      state == Chain(all)[Len(all) \div BlockLen]
  IN [j \in 1 .. 8 * WordBytes |->
        (state[(j - 1) \div WordBytes] \div 256^(WordBytes - 1 - ((j - 1) % WordBytes))) % 256]

-----------------------------------------------------------------------------

Init == text = <<>> /\ digest = NoDigest

Start == text' = <<>> /\ digest' = NoDigest

Absorb ==
  /\ digest = NoDigest
  /\ Len(text') >= Len(text) /\ SubSeq(text', 1, Len(text)) = text
  /\ UNCHANGED digest

Finish ==
  /\ digest = NoDigest
  /\ digest' = Digest(text)
  /\ UNCHANGED text

Next == Start \/ Absorb \/ Finish

Spec == Init /\ [][Next]_<<text, digest>>

=============================================================================
