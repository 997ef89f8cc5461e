----------------------------- MODULE LedgerProofs -----------------------------
(***************************************************************************)
(* Lemmas about the ledger rules: what their operators return, and the     *)
(* arithmetic of u32.                                                      *)
(***************************************************************************)
EXTENDS Ledger, TLAPS

-----------------------------------------------------------------------------
(* Types *)

LEMMA LedgerConstants ==
    /\ U32 \in Nat /\ 0 \in Word /\ 1 \in Word /\ 2 \in Word
    /\ NoKey \in Keys /\ NoSign \in Signs /\ NoTail \in Tails
    /\ EmptyBlock \in Block
<1>1. U32 \in Nat /\ 0 \in Word /\ 1 \in Word /\ 2 \in Word
  BY LedgerAssumption DEF Word
<1>2. NoKey \in Keys /\ NoTail \in Tails
  BY LedgerAssumption DEF Keys
<1>3. NoSign \in Signs
  BY <1>2, LedgerAssumption DEF NoSign, Signs
<1> QED
  BY <1>1, <1>2, <1>3 DEF EmptyBlock, Block

LEMMA PlusType == ASSUME NEW a \in Int, NEW b \in Int PROVE Plus(a, b) \in Word
BY LedgerAssumption DEF Plus, Word

LEMMA CreditType ==
    ASSUME NEW b \in Seq(Word), NEW addr \in Nat, NEW coins \in Int
    PROVE  /\ credit(b, addr, coins) \in Seq(Word)
           /\ Len(credit(b, addr, coins)) = Len(b)
<1>1. ASSUME NEW w \in Word PROVE Plus(w, coins) \in Word
  <2>1. w \in Int
    BY LedgerAssumption DEF Word
  <2> QED
    BY <2>1, PlusType
<1> QED
  BY <1>1 DEF credit

LEMMA ApplyTypes ==
    ASSUME NEW tx \in Tx, NEW b \in Seq(Word), NEW pk \in Seq(Keys)
    PROVE  /\ tx_apply_balance(tx, b) \in Seq(Word)
           /\ Len(tx_apply_balance(tx, b)) = Len(b)
           /\ tx_apply_owner(tx, pk) \in Seq(Keys)
           /\ Len(tx_apply_owner(tx, pk)) = Len(pk)
<1>1. tx.send_addr \in Nat /\ tx.recv_addr \in Nat /\ tx.amount \in Int
      /\ tx_fee \in Int /\ tx.bind_pub_key \in Keys
  BY LedgerAssumption DEF Tx, Word
<1> DEFINE debited == credit(b, tx.send_addr, -(tx.amount + tx_fee))
<1>2. debited \in Seq(Word) /\ Len(debited) = Len(b)
  BY <1>1, CreditType
<1>3. /\ credit(debited, tx.recv_addr, tx.amount) \in Seq(Word)
      /\ Len(credit(debited, tx.recv_addr, tx.amount)) = Len(b)
  <2> HIDE DEF debited
  <2> QED BY <1>1, <1>2, CreditType
<1>4. /\ credit(b, tx.send_addr, -tx_fee) \in Seq(Word)
      /\ Len(credit(b, tx.send_addr, -tx_fee)) = Len(b)
  BY <1>1, CreditType
<1>5. tx_apply_balance(tx, b) \in Seq(Word) /\ Len(tx_apply_balance(tx, b)) = Len(b)
  BY <1>3, <1>4 DEF tx_apply_balance
<1> QED
  BY <1>1, <1>5 DEF tx_apply_owner

LEMMA PenalisedType ==
    ASSUME NEW b \in Seq(Word)
    PROVE  penalised(b) \in Seq(Word) /\ Len(penalised(b)) = Len(b)
BY LedgerAssumption DEF penalised, Word

LEMMA MerkleType ==
    ASSUME NEW list \in Seq(Tx) PROVE merkle_tree_calc(list) \in Seq(Signs)
<1>1. \A i \in 1 .. Len(list) : list[i] \in Tx /\ list[i].sign \in Signs
  <2>1. \A t \in Tx : t.sign \in Signs
    BY DEF Tx
  <2> QED
    BY <2>1
<1>2. Len(list) \in Nat
  OBVIOUS
<1> QED
  BY <1>1, <1>2 DEF merkle_tree_calc

LEMMA SignatureType ==
    ASSUME NEW pub \in Keys, NEW prv \in Keys
    PROVE  signature(pub, prv) \in Signs
BY LedgerConstants, LedgerAssumption DEF signature, Signs

LEMMA SignBlock ==
    ASSUME NEW b \in Block, NEW byte \in HashBytes, NEW pub \in Keys, NEW prv \in Keys
    PROVE  block_sign(b, pub, prv, byte) \in Block
<1>1. signature(pub, prv) \in Signs
  BY SignatureType
<1>2. merkle_tree_calc(b.tx_list) \in Seq(Signs)
  BY MerkleType DEF Block
<1> QED
  BY <1>1, <1>2 DEF block_sign, Block

LEMMA SignTx ==
    ASSUME NEW t \in Tx, NEW pub \in Keys, NEW prv \in Keys
    PROVE  tx_sign(t, pub, prv) \in Tx
<1>1. signature(pub, prv) \in Signs
  BY SignatureType
<1> QED
  BY <1>1 DEF tx_sign, Tx

\* block_weight_calc changes the tails only.
LEMMA WeighBlock ==
    ASSUME NEW b \in Block
    PROVE  /\ block_weight_calc(b) \in Block
           /\ block_weight_calc(b) = [b EXCEPT !.tx_list = block_weight_calc(b).tx_list]
           /\ Len(block_weight_calc(b).tx_list) = Len(b.tx_list)
           /\ \A i \in 1 .. Len(b.tx_list) :
                  block_weight_calc(b).tx_list[i] =
                  [b.tx_list[i] EXCEPT !.tail = Weighed(@)]
<1> DEFINE weigh(t) == [t EXCEPT !.tail = Weighed(@)]
           list == [i \in 1 .. Len(b.tx_list) |-> weigh(b.tx_list[i])]
<1>1. b.tx_list \in Seq(Tx) /\ Len(b.tx_list) \in Nat
  BY DEF Block
<1>2. ASSUME NEW t \in Tx PROVE weigh(t) \in Tx
  <2>1. t.tail \in Tails
    BY DEF Tx
  <2>2. Weighed(t.tail) \in Tails
    BY <2>1, LedgerAssumption
  <2> QED
    BY <2>2 DEF Tx
<1>3. \A i \in 1 .. Len(b.tx_list) : b.tx_list[i] \in Tx
  BY <1>1
<1> HIDE DEF weigh
<1>4. \A i \in 1 .. Len(b.tx_list) : weigh(b.tx_list[i]) \in Tx
  BY <1>2, <1>3
<1>5. list \in Seq(Tx) /\ Len(list) = Len(b.tx_list)
  BY <1>1, <1>4
<1>6. \A i \in 1 .. Len(b.tx_list) : list[i] = weigh(b.tx_list[i])
  OBVIOUS
<1> HIDE DEF list
<1>7. block_weight_calc(b) = [b EXCEPT !.tx_list = list]
  BY DEF block_weight_calc, list, weigh
<1>8. block_weight_calc(b).tx_list = list
  BY <1>7 DEF Block
<1>9. block_weight_calc(b) \in Block
  BY <1>5, <1>7 DEF Block
<1> QED
  BY <1>5, <1>6, <1>7, <1>8, <1>9 DEF weigh

LEMMA JsonType == ASSUME NEW b \in Block PROVE over_json(b) \in Block
<1>1. b.tx_list \in Seq(Tx)
  BY DEF Block
<1>2. ASSUME NEW t \in Tx PROVE tx_over_json(t) \in Tx
  BY LedgerConstants DEF tx_over_json, Tx
<1>3. [i \in 1 .. Len(b.tx_list) |-> tx_over_json(b.tx_list[i])] \in Seq(Tx)
  BY <1>1, <1>2
<1> QED
  BY <1>3 DEF over_json, Block

LEMMA RewardType == ASSUME NEW b \in Block PROVE reward(b) \in Word
<1>1. mining_reward \in Int /\ tx_fee * Len(b.tx_list) \in Int
  BY LedgerAssumption DEF Block, Word
<1> QED
  BY <1>1, PlusType DEF reward

LEMMA BlockFields ==
    ASSUME NEW b \in Block
    PROVE  /\ b.tx_list \in Seq(Tx) /\ Len(b.tx_list) \in Nat
           /\ b.issuer_addr \in Nat /\ b.issuer_pub_key \in Keys
           /\ b.id \in Int
BY LedgerAssumption DEF Block, Word

LEMMA TxFields ==
    ASSUME NEW tx \in Tx
    PROVE  /\ tx.send_addr \in Nat /\ tx.recv_addr \in Nat /\ tx.sign \in Signs
           /\ tx.type \in Word /\ tx.amount \in Nat
BY LedgerAssumption DEF Tx, Word

-----------------------------------------------------------------------------
(* Arithmetic *)

\* Equal modulo U32
Cong(x, y) == \E k \in Int : x = y + U32 * k

LEMMA CongBasics ==
    /\ \A x \in Int : Cong(x, x)
    /\ \A x, y, c \in Int : Cong(x, y) => Cong(x + c, y + c)
    /\ \A x, y, z \in Int : Cong(x, y) /\ Cong(y, z) => Cong(x, z)
<1> USE LedgerAssumption DEF Cong
<1>1. ASSUME NEW x \in Int PROVE Cong(x, x)
  <2>1. x = x + U32 * 0
    OBVIOUS
  <2> QED BY <2>1
<1>2. ASSUME NEW x \in Int, NEW y \in Int, NEW c \in Int, Cong(x, y)
      PROVE  Cong(x + c, y + c)
  BY <1>2
<1>3. ASSUME NEW x \in Int, NEW y \in Int, NEW z \in Int, Cong(x, y), Cong(y, z)
      PROVE  Cong(x, z)
  <2>1. PICK k \in Int : x = y + U32 * k
    BY <1>3
  <2>2. PICK j \in Int : y = z + U32 * j
    BY <1>3
  <2>3. x = z + U32 * (k + j) /\ k + j \in Int
    BY <2>1, <2>2
  <2> QED BY <2>3
<1> QED BY <1>1, <1>2, <1>3

LEMMA CongAdd ==
    ASSUME NEW x \in Int, NEW y \in Int, NEW c \in Int, Cong(x, y)
    PROVE  Cong(x + c, y + c)
BY CongBasics

LEMMA CongPlus == ASSUME NEW a \in Int, NEW b \in Int PROVE Cong(Plus(a, b), a + b)
<1>1. -((a + b) \div U32) \in Int
  BY LedgerAssumption
<1>2. (a + b) % U32 = a + b + U32 * (-((a + b) \div U32))
  BY LedgerAssumption
<1> QED BY <1>1, <1>2 DEF Plus, Cong

\* Words that are equal modulo U32 are equal.
LEMMA CongWord ==
    ASSUME NEW a \in Word, NEW b \in Word, Cong(a, b) PROVE a = b
<1> USE LedgerAssumption DEF Word
<1>1. PICK k \in Int : a = b + U32 * k
  BY DEF Cong
<1>2. CASE k = 0
  BY <1>1, <1>2
<1>3. CASE k >= 1
  <2>1. U32 * k >= U32
    BY <1>3
  <2> QED BY <1>1, <2>1
<1>4. CASE k <= -1
  <2>1. U32 * k <= -U32
    BY <1>4
  <2> QED BY <1>1, <2>1
<1> QED BY <1>2, <1>3, <1>4

LEMMA CongMod ==
    ASSUME NEW x \in Int, NEW y \in Int, Cong(x, y) PROVE x % U32 = y % U32
<1>1. Plus(x, 0) \in Word /\ Plus(y, 0) \in Word /\ Plus(x, 0) \in Int /\ Plus(y, 0) \in Int
  BY PlusType, LedgerAssumption DEF Word
<1>2. Cong(Plus(x, 0), x)
  <2>1. x + 0 = x
    OBVIOUS
  <2> QED BY <2>1, CongPlus
<1>3. Cong(y, Plus(y, 0))
  <2>0. Cong(Plus(y, 0), y + 0)
    BY CongPlus
  <2>1. PICK k \in Int : Plus(y, 0) = (y + 0) + U32 * k
    BY <2>0 DEF Cong
  <2>2. y = Plus(y, 0) + U32 * (-k) /\ -k \in Int
    BY <1>1, <2>1, LedgerAssumption
  <2> QED BY <2>2 DEF Cong
<1>4. Cong(Plus(x, 0), Plus(y, 0))
  BY <1>1, <1>2, <1>3, CongBasics
<1>5. Plus(x, 0) = Plus(y, 0)
  BY <1>1, <1>4, CongWord
<1> QED BY <1>5 DEF Plus

LEMMA WordSeq == ASSUME NEW b \in Seq(Word) PROVE b \in Seq(Int) /\ Len(b) \in Nat
BY LedgerAssumption DEF Word
=============================================================================
