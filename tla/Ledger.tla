------------------------------- MODULE Ledger -------------------------------
(***************************************************************************)
(* The ledger rules of the chain as pure operators: what a transaction     *)
(* must satisfy, what applying it does to the balances and to the owners   *)
(* of the addresses, what a block must satisfy, and what survives the trip *)
(* of a block through JSON.  Nothing here has state; the modules that have *)
(* it pass it in.                                                          *)
(*                                                                         *)
(* Addresses count from 0, as in the code; the vectors a2pk and balance    *)
(* are sequences, so address a is element a + 1.                           *)
(*                                                                         *)
(* Abstractions: a public key is a value of PubKeys, a hash of a           *)
(* transaction is the tuple of the fields hashed, and a block hash is its  *)
(* first byte, which is all that the code's operator> looks at.  A         *)
(* signature is the key it verifies under and its form, for its bytes are  *)
(* not unique: verify.c takes S + L for S (it looks at the top three bits  *)
(* of signature[63] only), and the holder of a key may draw another R.     *)
(***************************************************************************)
EXTENDS Integers, Sequences, FiniteSets

CONSTANTS
    PubKeys,              \* the public keys in play
    NoKey,                \* the key, or signature, that is nobody's
    U32,                  \* modulus of the u32 arithmetic, 2^32 in the code
    tx_fee,               \* 10
    mining_reward,        \* 10
    hot_potato_penalty,   \* 1
    HashBytes,            \* first bytes a block hash may have
    KeyPrefix(_),         \* the bytes of bind_pub_key that are hashed
    NulAt(_),             \* where a transaction hash has its first zero byte
    SignForms,            \* signatures that one key can give of one message
    MadeForm,             \* the one that ed25519_sign makes
    UpToNul(_),           \* what a C string shows of a signature: all of it,
                          \* when it has no zero byte
    Tails,                \* what may follow a signature up to the next zero
                          \* byte: four bytes of padding, then the weight
    Garbage,              \* what follows it in a new Tx, whose padding is not
                          \* initialised and whose weight is 0
    NoTail,               \* nothing: a zero byte follows
    Weighed(_)            \* what follows when the weight is not 0 any more

Keys == PubKeys \cup {NoKey}
Word == 0 .. U32 - 1
Signs == [key : Keys, form : SignForms]

\* sign.b as it is initialised, which nobody has made
NoSign == [key |-> NoKey, form |-> MadeForm]

ASSUME LedgerAssumption ==
    /\ NoKey \notin PubKeys
    /\ U32 \in Nat /\ U32 > 2                     \* room for a type
    /\ {tx_fee, mining_reward, hot_potato_penalty} \subseteq Word
    /\ HashBytes # {} /\ HashBytes \subseteq 0 .. 255
    /\ \A k \in Keys : KeyPrefix(k) \in Keys
    /\ MadeForm \in SignForms
    /\ Garbage # {} /\ Garbage \cup {NoTail} \subseteq Tails
    /\ \A t \in Tails : Weighed(t) \in Tails

(***************************************************************************)
(* struct Tx.  The nonce is left out: it is not part of what is hashed or  *)
(* signed, and nothing reads it.  hash says whether the field holds the    *)
(* hash of this transaction ("own") or zeros, its initial value ("zero").  *)
(* tail is what lies behind the last field that is set; a copy of a Tx     *)
(* copies its padding too.                                                 *)
(***************************************************************************)
Tx == [type : Word, amount : Word, send_addr : Word, recv_addr : Word,
       bind_pub_key : Keys, hash : {"own", "zero"}, sign : Signs, tail : Tails]

(***************************************************************************)
(* struct Block with its header.  version and nonce are constant in the    *)
(* code, prev_hash is written and never read, weight is a cache that       *)
(* nothing reads: all four are left out.                                   *)
(***************************************************************************)
Block == [id : Word, issuer_addr : Word, issuer_pub_key : Keys,
          merkle_tree : Seq(Signs), hash : HashBytes \cup {0}, sign : Signs,
          tx_list : Seq(Tx)]

\* Block{}: the value of gms.proposed_block before anything was proposed.
EmptyBlock ==
    [id |-> 0, issuer_addr |-> 0, issuer_pub_key |-> NoKey,
     merkle_tree |-> <<>>, hash |-> 0, sign |-> NoSign, tx_list |-> <<>>]

At(vec, addr) == vec[addr + 1]
Plus(a, b) == (a + b) % U32

-----------------------------------------------------------------------------
(* Transactions *)

\* What SL2 feeds to sha512: the first four bytes of the key, and no nonce.
tx_hash(tx) == <<tx.type, tx.amount, tx.send_addr, tx.recv_addr,
                 KeyPrefix(tx.bind_pub_key)>>

\* A signature by the pair (pub, prv) verifies under pub only when the two
\* halves belong together; a signature by mismatched halves is nobody's.
signature(pub, prv) ==
    [key |-> IF pub = prv THEN pub ELSE NoKey, form |-> MadeForm]

\* ed25519_verify
verifies(sign, key) == sign.key = key /\ key # NoKey

tx_sign(tx, pub, prv) ==
    [tx EXCEPT !.hash = "own", !.sign = signature(pub, prv)]

\* The key of done_tx_hash is string((char*)&tx.hash.b): what lies in memory
\* from the hash to the first zero byte, which may be one of the hash (the key
\* is empty when it is the first), of the signature or of what lies behind.
done_key(tx) ==
    CASE tx.hash = "zero" \/ NulAt(tx_hash(tx)) = "first" -> <<>>
      [] tx.hash = "own" /\ NulAt(tx_hash(tx)) = "inside" -> <<tx_hash(tx)>>
      [] OTHER -> IF UpToNul(tx.sign) # tx.sign
                  THEN <<tx_hash(tx), UpToNul(tx.sign)>>
                  ELSE <<tx_hash(tx), tx.sign, tx.tail>>

\* gms.balance[addr].  Between the two push_backs of gms_account_new a2pk is
\* one longer than balance, and a thread that bounds an address by a2pk reads
\* past the end of balance: it gets `stray`, whatever lies there.
balance_at(balance, addr, stray) ==
    IF addr < Len(balance) THEN At(balance, addr) ELSE stray

\* balance < max(amount, amount + tx_fee) is the refusal
covers(funds, amount) == funds >= amount /\ funds >= Plus(amount, tx_fee)

\* What the type of the transaction asks for
affordable(tx, a2pk, balance, stray) ==
    LET funds == balance_at(balance, tx.send_addr, stray)
    IN  \/ tx.type = 1 /\ covers(funds, tx.amount)
        \/ tx.type = 2 /\ funds >= tx_fee
                       /\ At(a2pk, tx.send_addr) = At(a2pk, tx.recv_addr)

signed_by_owner(tx, a2pk) == verifies(tx.sign, At(a2pk, tx.send_addr))

\* Mutant: without the look-up in done_tx_hash
tx_validate_replay(tx, a2pk, balance, done, stray) ==
    /\ tx.send_addr < Len(a2pk) /\ tx.recv_addr < Len(a2pk)
    /\ affordable(tx, a2pk, balance, stray)
    /\ tx.hash = "own"
    /\ signed_by_owner(tx, a2pk)

tx_validate(tx, a2pk, balance, done, stray) ==
    /\ tx.send_addr < Len(a2pk) /\ tx.recv_addr < Len(a2pk)
    /\ affordable(tx, a2pk, balance, stray)
    /\ tx.hash = "own"
    /\ done_key(tx) \notin done
    /\ signed_by_owner(tx, a2pk)

\* Mutant: plain integers, no u32
credit_unbounded(balance, addr, coins) ==
    IF addr < Len(balance)
    THEN [balance EXCEPT ![addr + 1] = @ + coins]
    ELSE balance

\* gms.balance[addr] += coins, in u32.  A write past the end of the vector is
\* not seen in it.
credit(balance, addr, coins) ==
    IF addr < Len(balance)
    THEN [balance EXCEPT ![addr + 1] = Plus(@, coins)]
    ELSE balance

\* tx_apply on the balances.  The debit comes first, so that a transfer to
\* oneself loses the fee only.
tx_apply_balance(tx, balance) ==
    CASE tx.type = 1 -> credit(credit(balance, tx.send_addr,
                                      -(tx.amount + tx_fee)),
                               tx.recv_addr, tx.amount)
      [] tx.type = 2 -> credit(balance, tx.send_addr, -tx_fee)
      [] OTHER -> balance

tx_apply_owner(tx, a2pk) ==
    IF tx.type = 2 /\ tx.recv_addr < Len(a2pk)
    THEN [a2pk EXCEPT ![tx.recv_addr + 1] = tx.bind_pub_key]
    ELSE a2pk

-----------------------------------------------------------------------------
(* Blocks *)

\* The tree covers the signatures, in order, and nothing else.
merkle_tree_calc(tx_list) == [i \in 1 .. Len(tx_list) |-> tx_list[i].sign]

\* The addresses of tx exist: tx_apply stays inside the vectors.
in_range(tx, balance) ==
    tx.send_addr < Len(balance) /\ tx.recv_addr < Len(balance)

\* block_sign; byte is the first byte the header hash happens to get.
block_sign(block, pub, prv, byte) ==
    [block EXCEPT !.merkle_tree = merkle_tree_calc(block.tx_list),
                  !.hash = byte,
                  !.sign = signature(pub, prv)]

\* block_weight_calc, which sets the weight of every transaction
block_weight_calc(block) ==
    [block EXCEPT !.tx_list =
        [i \in 1 .. Len(block.tx_list) |->
            [block.tx_list[i] EXCEPT !.tail = Weighed(@)]]]

\* Computed by block_validate, which then ignores the answer.
block_header_validate(block, chain, a2pk) ==
    /\ chain # <<>> => (block.id - 1) % U32 = chain[Len(chain)].id
    /\ block.issuer_addr < Len(a2pk)
    /\ block.issuer_pub_key = At(a2pk, block.issuer_addr)
    /\ verifies(block.sign, block.issuer_pub_key)

\* Every transaction is checked against the same state: the one before the
\* block.  The header is not checked.
block_validate(block, a2pk, balance, done, stray) ==
    /\ \A i \in 1 .. Len(block.tx_list) :
           tx_validate(block.tx_list[i], a2pk, balance, done, stray)
    /\ block.merkle_tree = merkle_tree_calc(block.tx_list)

\* Mutant: the issuer does not get the fees
reward_flat(block) == mining_reward

reward(block) == Plus(mining_reward, tx_fee * Len(block.tx_list))

\* Mutant: small balances are not spared
penalised_all(balance) ==
    [a \in 1 .. Len(balance) |-> balance[a] - hot_potato_penalty]

\* The loop over gms.balance in block_apply
penalised(balance) ==
    [a \in 1 .. Len(balance) |->
        IF balance[a] > hot_potato_penalty
        THEN balance[a] - hot_potato_penalty
        ELSE 0]

\* proposed_block.hash > block.hash: memcmp over sizeof(...) > 0 bytes, which
\* is one byte, so "greater" is "differs in the first byte".
hash_greater(h1, h2) == h1 # h2

\* tx_to_json then json_to_tx: the hash and the signature are not written, and
\* are zeros in the transaction read back.
tx_over_json(tx) ==
    [tx EXCEPT !.hash = "zero", !.sign = NoSign, !.tail = NoTail]

\* block_to_json then json_to_block
over_json(block) ==
    [block EXCEPT !.tx_list =
        [i \in 1 .. Len(block.tx_list) |-> tx_over_json(block.tx_list[i])]]

=============================================================================
