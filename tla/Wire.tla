-------------------------------- MODULE Wire --------------------------------
(***************************************************************************)
(* A block from its author to a node that downloads it: the author folds   *)
(* the signatures into merkle_tree, hashes and signs the packed header,    *)
(* hands the block out as JSON with byte arrays in hex; the other node     *)
(* reads the text and hashes again (src/block.cpp, src/block.hpp).  All    *)
(* hashes run through the context of Sha512, one at a time; between blocks *)
(* the other users of the hash take their turn (Jobs).  What makes a       *)
(* transaction or an issuer valid is in Ledger; weights are left out.      *)
(***************************************************************************)
EXTENDS Sha512

CONSTANTS
  U32Len, PubLen,   \* bytes of an integer and of a public key
  IntMax,           \* the largest number that asInt accepts
  Sign(_, _),       \* ed25519_sign of bytes with the private key of a public one
  Proposals,        \* the blocks that are proposed, not signed yet
  NoBlock, NoText

HashLen == 8 * WordBytes

Bytes(n) == [1 .. n -> Byte]

ZeroHash == [i \in 1 .. HashLen |-> 0]

U32 == 0 .. 256^U32Len - 1

\* Block_header.
Headers ==
  [id : U32, version : U32, prev_hash : Bytes(HashLen), merkle_tree : Bytes(HashLen),
   issuer_addr : U32, issuer_pub_key : Bytes(PubLen), nonce : U32,
   hash : Bytes(HashLen), sign : Bytes(HashLen)]

\* A block, of whose transactions only the signatures count here.
Blocks == [header : Headers, signs : Seq(Bytes(HashLen))]

ASSUME WireAssumption ==
  /\ U32Len \in Nat /\ PubLen \in Nat /\ IntMax \in Nat
  /\ Proposals \subseteq Blocks

VARIABLES
  stage,  \* "idle", then author "merkle", "sign", "signed", peer "sent", "check", "remerkle"
  block,  \* the author's
  todo,   \* signatures that merkle_tree_calc has not folded yet
  root,   \* its result so far
  text,   \* the JSON value
  got,    \* what json_to_block made of it
  valid   \* what the peer found: header, merkle_tree

wire_vars == <<stage, block, todo, root, text, got, valid>>

vars == <<hash_vars, wire_vars>>

-----------------------------------------------------------------------------
(* The bytes that are signed. *)

\* memcpy of an integer: the lowest byte first.
Little(n) == [i \in 1 .. U32Len |-> (n \div 256^(i - 1)) % 256]

\* SL1: all that is in the header before the hash.
Packed(h) ==
  Little(h.id) \o Little(h.version) \o h.prev_hash \o h.merkle_tree
    \o Little(h.issuer_addr) \o h.issuer_pub_key \o Little(h.nonce)

-----------------------------------------------------------------------------
(* Hex, and the JSON value. *)

Lower == <<"0", "1", "2", "3", "4", "5", "6", "7", "8", "9", "a", "b", "c", "d", "e", "f">>

\* Of the capital letters only A is accepted.
Accepted == {Lower[i] : i \in DOMAIN Lower} \cup {"A"}

Nibble(c) == IF c = "A" THEN 10 ELSE (CHOOSE i \in DOMAIN Lower : Lower[i] = c) - 1

T2str(b) ==
  [i \in 1 .. 2 * Len(b) |->
     Lower[(IF i % 2 = 1 THEN b[(i + 1) \div 2] \div 16 ELSE b[i \div 2] % 16) + 1]]

IsHex(s, n) == Len(s) = 2 * n /\ \A i \in DOMAIN s : s[i] \in Accepted

\* Mutant of Str2t: the second digit is the higher one.
Str2t_swapped(s) == [i \in 1 .. Len(s) \div 2 |-> Nibble(s[2 * i - 1]) + 16 * Nibble(s[2 * i])]

Str2t(s) == [i \in 1 .. Len(s) \div 2 |-> 16 * Nibble(s[2 * i - 1]) + Nibble(s[2 * i])]

Ints == {"id", "version", "issuer_addr", "nonce"}

Arrays == [prev_hash |-> HashLen, merkle_tree |-> HashLen, issuer_pub_key |-> PubLen,
           hash |-> HashLen, sign |-> HashLen]

Fields == Ints \cup DOMAIN Arrays

block_header_to_json(h) == [f \in Fields |-> IF f \in Ints THEN h[f] ELSE T2str(h[f])]

json_to_block_header(t) == [f \in Fields |-> IF f \in Ints THEN t[f] ELSE Str2t(t[f])]

\* A transaction is written without its signature, so only their number counts.
block_to_json(b) == [header |-> block_header_to_json(b.header), tx_list |-> Len(b.signs)]

\* asInt throws if a number is too large, str2t refuses what is not hex.  The
\* weights, which asInt reads too, stay far below IntMax (24 to 31 for a byte of
\* a hash); the numbers of the transactions are left out with their contents,
\* and are refused in the same way.
Readable(t) ==
  /\ \A f \in Ints : t.header[f] <= IntMax
  /\ \A f \in DOMAIN Arrays : IsHex(t.header[f], Arrays[f])

\* The signatures of new transactions.
Zeroes(n) == [i \in 1 .. n |-> ZeroHash]

json_to_block(t) ==
  [header |-> json_to_block_header(t.header), signs |-> Zeroes(t.tx_list)]

-----------------------------------------------------------------------------

Unknown == [header |-> "unknown", merkle |-> "unknown"]

WireInit ==
  /\ HashInit
  /\ stage = "idle" /\ block = NoBlock /\ todo = <<>> /\ root = ZeroHash
  /\ text = NoText /\ got = NoBlock /\ valid = Unknown

\* block_propose and gms_init: a block that is not signed yet.
Propose ==
  /\ stage = "idle" /\ ~open
  /\ \E b \in Proposals : block' = b /\ todo' = b.signs
  /\ stage' = "merkle" /\ root' = ZeroHash
  /\ text' = NoText /\ got' = NoBlock /\ valid' = Unknown
  /\ UNCHANGED hash_vars

\* Another use of the hash: key pairs, signatures, seeds.
OtherHash ==
  /\ stage = "idle"
  /\ \E parts \in Jobs : Begin(parts)
  /\ UNCHANGED wire_vars

\* merkle_tree_calc: the root so far and the next signature.
HashTx ==
  /\ stage \in {"merkle", "remerkle"}
  /\ todo # <<>> /\ todo' = Tail(todo)
  /\ Begin(<<root, Head(todo)>>)
  /\ UNCHANGED <<stage, block, root, text, got, valid>>

\* block_sign: the tree is stored in the header, which is hashed.
HashHeader ==
  /\ stage = "merkle" /\ todo = <<>>
  /\ block' = [block EXCEPT !.header.merkle_tree = root]
  /\ Begin(<<Packed(block'.header)>>)
  /\ stage' = "sign"
  /\ UNCHANGED <<todo, root, text, got, valid>>

\* get_block answers.
Serve ==
  /\ stage = "signed"
  /\ text' = block_to_json(block)
  /\ stage' = "sent"
  /\ UNCHANGED <<hash_vars, block, todo, root, got, valid>>

\* The answer cannot be read: the caller drops it.
Refuse ==
  /\ stage = "sent" /\ ~Readable(text)
  /\ stage' = "idle" /\ valid' = [header |-> "refused", merkle |-> "refused"]
  /\ UNCHANGED <<hash_vars, block, todo, root, text, got>>

\* json_to_block, then block_header_validate up to the hash.
Receive ==
  /\ stage = "sent" /\ Readable(text)
  /\ got' = json_to_block(text)
  /\ Begin(<<Packed(got'.header)>>)
  /\ stage' = "check"
  /\ UNCHANGED <<block, todo, root, text, valid>>

\* block_validate compares the trees.
Compare ==
  /\ stage = "remerkle" /\ todo = <<>> /\ ~open
  /\ valid' = [valid EXCEPT !.merkle = IF root = got.header.merkle_tree THEN "yes" ELSE "no"]
  /\ stage' = "idle"
  /\ UNCHANGED <<hash_vars, block, todo, root, text, got>>

\* Who called sha512_final, and what becomes of the digest.
StoreRoot ==
  /\ stage \in {"merkle", "remerkle"}
  /\ root' = digest'
  /\ UNCHANGED <<stage, block, todo, text, got, valid>>

StoreHash ==
  /\ stage = "sign" /\ stage' = "signed"
  /\ block' = [block EXCEPT !.header.hash = digest',
                            !.header.sign = Sign(Packed(block.header), block.header.issuer_pub_key)]
  /\ UNCHANGED <<todo, root, text, got, valid>>

\* The comparison of the hashes, ed25519_verify, and on to the transactions.
CheckHeader ==
  /\ stage = "check" /\ stage' = "remerkle"
  /\ LET h == got.header
         ok == digest' = h.hash /\ h.sign = Sign(Packed(h), h.issuer_pub_key)
     IN valid' = [valid EXCEPT !.header = IF ok THEN "yes" ELSE "no"]
  /\ todo' = got.signs /\ root' = ZeroHash
  /\ UNCHANGED <<block, text, got>>

Returned == Final /\ (\/ StoreRoot \/ StoreHash \/ CheckHeader
                      \/ stage = "idle" /\ UNCHANGED wire_vars)

Hashing == (Update \/ DirectBlock \/ FillBuffer) /\ UNCHANGED wire_vars

WireNext ==
  \/ Propose \/ OtherHash \/ HashTx \/ HashHeader
  \/ Serve \/ Refuse \/ Receive \/ Compare
  \/ Hashing \/ Returned

WireSpec == WireInit /\ [][WireNext]_vars

-----------------------------------------------------------------------------
(* Properties. *)

\* The types; the buffer is never left full, not even for a moment.
TypeOK ==
  /\ md \in [curlen : Index, length : Nat, state : [0 .. 7 -> Nat], buf : [Index -> Byte]]
  /\ \A s \in {in, fed} \cup {calls[i] : i \in DOMAIN calls} : \A i \in DOMAIN s : s[i] \in Byte
  /\ digest = NoDigest \/ digest \in Bytes(HashLen)
  /\ root \in Bytes(HashLen)
  /\ stage \in {"idle", "merkle", "sign", "signed", "sent", "check", "remerkle"}

\* A block that its author signed is found as it was: header, hash and
\* signature survive packing, hex and JSON.  Only a number that asInt does not
\* take stops it, and its transactions are lost: their signatures stay behind,
\* so the tree matches only if there are none (block_to_json, tx_to_json).
Delivered ==
  valid.merkle # "unknown" =>
    IF \E f \in Ints : block.header[f] > IntMax THEN valid.header = "refused"
    ELSE /\ got.header = block.header
         /\ valid.header = "yes"
         /\ valid.merkle = (IF block.signs = <<>> THEN "yes" ELSE "no")

\* The roots after 0, 1 and more signatures.
Roots(signs) ==
  LET r[i \in 0 .. Len(signs)] ==
        IF i = 0 THEN ZeroHash ELSE Hash!Digest(r[i - 1] \o signs[i])
  IN r

MerkleRoot(signs) == Roots(signs)[Len(signs)]

\* What Delivered takes for granted of the hash: signatures that were made do
\* not have the root of as many zeros.
NoCollision ==
  \A b \in Proposals :
    b.signs # <<>> => MerkleRoot(b.signs) # MerkleRoot(Zeroes(Len(b.signs)))

=============================================================================
