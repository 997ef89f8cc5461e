---------------------------- MODULE NetworkProofs ----------------------------
(***************************************************************************)
(* Proofs about Network for any number of nodes, any transfers, restarts   *)
(* and failures, and any length of the chains.                             *)
(***************************************************************************)
EXTENDS Network, LedgerProofs, Recursion

-----------------------------------------------------------------------------
(* Types.  TypeOK, in the form that the steps of a proof need: whole records *)

DoneKeys == {done_key(tx) : tx \in Tx}

LedgerRecord == [a2pk : Seq(Keys), balance : Seq(Word), done_tx_hash : SUBSET DoneKeys]

MemState ==
    [ready : BOOLEAN, tx_list : Seq(Tx), main_chain_block_list : Seq(Block),
     is_proposal_valid : BOOLEAN, proposed_block : Block,
     done_tx_hash : SUBSET DoneKeys, a2pk : Seq(Keys), balance : Seq(Word)]

Thread ==
    [at : {"loop", "ask", "download", "proposal", "branch", "propose", "subtick", "dead"},
     tick : 0 .. SubTicks, peer : Keys, bh : Nat, remote : Nat, limit : 0 .. DownloadLimit]

TypeInv ==
    /\ gms \in [Nodes -> MemState] /\ main \in [Nodes -> Thread]
    /\ restarts \in 0 .. MaxRestarts

LEMMA NetworkConstants ==
    /\ Seed \in Keys /\ Nodes \subseteq Keys /\ Nodes = PubKeys
    /\ SubTicks \in Nat /\ DownloadLimit \in Nat /\ MaxRestarts \in Nat
    /\ GenesisBalance \in Word /\ U32 \in Nat
BY NetworkAssumption, LedgerAssumption DEF Nodes, Keys

\* One transaction, and a list of them one after the other
LEMMA TxApplyType ==
    ASSUME NEW l \in LedgerRecord, NEW tx \in Tx PROVE tx_apply(l, tx) \in LedgerRecord
<1>1. l.a2pk \in Seq(Keys) /\ l.balance \in Seq(Word) /\ l.done_tx_hash \subseteq DoneKeys
  BY DEF LedgerRecord
<1>2. done_key(tx) \in DoneKeys
  BY DEF DoneKeys
<1> QED BY <1>1, <1>2, ApplyTypes DEF tx_apply, LedgerRecord

LEMMA ListApplyType ==
    ASSUME NEW l \in LedgerRecord, NEW list \in Seq(Tx)
    PROVE  tx_list_apply(l, list) \in LedgerRecord
<1> DEFINE N == Len(list)
           Run(s) == s = [i \in 0 .. N |-> IF i = 0 THEN l ELSE tx_apply(s[i - 1], list[i])]
           chosen == CHOOSE s : Run(s)
<1>1. N \in Nat /\ \A i \in 1 .. N : list[i] \in Tx
  OBVIOUS
<1>2. \E s \in [0 .. N -> LedgerRecord] :
         s[0] = l /\ \A i \in 1 .. N : s[i] = tx_apply(s[i - 1], list[i])
  <2> DEFINE f == [i \in 1 .. N |-> [r \in LedgerRecord |-> tx_apply(r, list[i])]]
  <2>1. IsSteps(f, N, LedgerRecord)
    BY <1>1, TxApplyType DEF IsSteps
  <2>2. \A i \in 1 .. N, r \in LedgerRecord : f[i][r] = tx_apply(r, list[i])
    BY <1>1
  <2> HIDE DEF f, N
  <2>3. PICK s : IsRun(s, f, N, l, LedgerRecord)
    BY <1>1, <2>1, StepsExist
  <2>4. s \in [0 .. N -> LedgerRecord] /\ s[0] = l
    BY <2>3 DEF IsRun
  <2>5. ASSUME NEW i \in 1 .. N PROVE s[i] = tx_apply(s[i - 1], list[i])
    <3>1. i - 1 \in 0 .. N
      BY <1>1
    <3>2. s[i - 1] \in LedgerRecord
      BY <2>4, <3>1
    <3> QED BY <2>2, <2>3, <3>2 DEF IsRun
  <2> QED BY <2>4, <2>5
<1>3. \E s : Run(s)
  <2>1. PICK s \in [0 .. N -> LedgerRecord] :
          s[0] = l /\ \A i \in 1 .. N : s[i] = tx_apply(s[i - 1], list[i])
    BY <1>2
  <2>2. \A i \in 0 .. N : s[i] = IF i = 0 THEN l ELSE tx_apply(s[i - 1], list[i])
    BY <2>1
  <2>3. s = [i \in 0 .. N |-> s[i]]
    OBVIOUS
  <2>4. Run(s)
    BY <2>2, <2>3
  <2> QED BY <2>4
<1>4. Run(chosen)
  <2> HIDE DEF Run
  <2> QED BY <1>3
<1>5. tx_list_apply(l, list) = chosen[N]
  BY DEF tx_list_apply
<1>6. chosen[N] \in LedgerRecord
  <2> HIDE DEF chosen, N
  <2>1. chosen[0] = l /\ \A i \in 1 .. N : chosen[i] = tx_apply(chosen[i - 1], list[i])
    BY <1>1, <1>4
  <2> DEFINE A == {n \in Nat : n <= N => chosen[n] \in LedgerRecord}
  <2>2. 0 \in A
    BY <2>1
  <2>3. ASSUME NEW n \in Nat, n \in A PROVE n + 1 \in A
    <3> SUFFICES ASSUME n + 1 <= N PROVE chosen[n + 1] \in LedgerRecord
      OBVIOUS
    <3>1. n + 1 \in 1 .. N /\ n <= N /\ (n + 1) - 1 = n
      BY <1>1
    <3>2. chosen[n + 1] = tx_apply(chosen[n], list[n + 1])
      BY <2>1, <3>1
    <3>3. chosen[n] \in LedgerRecord /\ list[n + 1] \in Tx
      BY <1>1, <2>3, <3>1
    <3> QED BY <3>2, <3>3, TxApplyType
  <2>4. \A n \in Nat : n \in A
    <3> HIDE DEF A
    <3> QED BY <2>2, <2>3, SetInduction
  <2> QED BY <1>1, <2>4
<1> HIDE DEF chosen
<1> QED BY <1>5, <1>6

\* A block makes one ledger of another, whatever else the node holds.
ledger_after(l, block) ==
    LET spent == tx_list_apply(l, block.tx_list)
    IN  [a2pk |-> Append(spent.a2pk, block.issuer_pub_key),
         balance |-> Append(penalised(credit(spent.balance, block.issuer_addr,
                                             reward(block))), 0),
         done_tx_hash |-> spent.done_tx_hash]

LEMMA BlockApply ==
    ASSUME NEW g \in MemState, NEW block \in Block
    PROVE  /\ block_apply(g, block) \in MemState
           /\ ledger(block_apply(g, block)) = ledger_after(ledger(g), block)
           /\ block_apply(g, block).main_chain_block_list
                = Append(g.main_chain_block_list, block)
           /\ block_apply(g, block).ready = g.ready
           /\ block_apply(g, block).is_proposal_valid = g.is_proposal_valid
<1> DEFINE spent == tx_list_apply(ledger(g), block.tx_list)
<1>1. ledger(g) \in LedgerRecord
  BY DEF ledger, LedgerRecord, MemState
<1>2. spent \in LedgerRecord
  BY <1>1, BlockFields, ListApplyType
<1> DEFINE coins == penalised(credit(spent.balance, block.issuer_addr, reward(block)))
<1>3. coins \in Seq(Word)
  <2>1. spent.balance \in Seq(Word) /\ block.issuer_addr \in Nat /\ reward(block) \in Int
    BY <1>2, BlockFields, RewardType, LedgerAssumption DEF LedgerRecord, Word
  <2> QED BY <2>1, CreditType, PenalisedType
<1>4. block_apply(g, block) =
        [g EXCEPT !.a2pk = Append(spent.a2pk, block.issuer_pub_key),
                  !.balance = Append(coins, 0),
                  !.done_tx_hash = spent.done_tx_hash,
                  !.main_chain_block_list = Append(@, block)]
  BY DEF block_apply, gms_account_new, MemState
<1>5. /\ Append(spent.a2pk, block.issuer_pub_key) \in Seq(Keys)
      /\ Append(coins, 0) \in Seq(Word) /\ spent.done_tx_hash \subseteq DoneKeys
      /\ Append(g.main_chain_block_list, block) \in Seq(Block)
  BY <1>2, <1>3, BlockFields, LedgerConstants DEF LedgerRecord, MemState
<1>6. ledger_after(ledger(g), block) =
        [a2pk |-> Append(spent.a2pk, block.issuer_pub_key),
         balance |-> Append(coins, 0), done_tx_hash |-> spent.done_tx_hash]
  BY DEF ledger_after
<1> HIDE DEF spent, coins
<1> QED BY <1>4, <1>5, <1>6 DEF MemState, ledger
LEMMA GenesisType ==
    ASSUME NEW g \in MemState, NEW key \in Keys
    PROVE  /\ genesis(g, key) \in MemState
           /\ genesis(g, key).main_chain_block_list = g.main_chain_block_list
           /\ genesis(g, key).ready = g.ready
<1>1. genesis(g, key) =
        [g EXCEPT !.a2pk = Append(@, key),
                  !.balance = [Append(@, 0) EXCEPT ![1] = GenesisBalance]]
  BY DEF genesis, gms_account_new, MemState
<1>2. [Append(g.balance, 0) EXCEPT ![1] = GenesisBalance] \in Seq(Word)
  <2>1. g.balance \in Seq(Word)
    BY DEF MemState
  <2>2. Append(g.balance, 0) \in Seq(Word)
    BY <2>1, LedgerConstants
  <2> QED BY <2>2, NetworkConstants
<1>3. Append(g.a2pk, key) \in Seq(Keys)
  BY DEF MemState
<1> QED BY <1>1, <1>2, <1>3 DEF MemState

LEMMA NewStateType == NewState \in MemState
BY LedgerConstants DEF NewState, MemState

\* The genesis block
seed_block(byte) ==
    block_sign([EmptyBlock EXCEPT !.issuer_pub_key = Seed], Seed, Seed, byte)

LEMMA GmsInit ==
    ASSUME NEW byte \in HashBytes
    PROVE  /\ gms_init(byte) \in MemState /\ gms_init(byte).ready
           /\ gms_init(byte).main_chain_block_list = <<seed_block(byte)>>
           /\ ledger(gms_init(byte)) = ledger_after(ledger(genesis(NewState, Seed)), seed_block(byte))
           /\ seed_block(byte) \in Block /\ seed_block(byte).issuer_pub_key = Seed
<1>1. seed_block(byte) \in Block
  <2>1. [EmptyBlock EXCEPT !.issuer_pub_key = Seed] \in Block
    BY LedgerConstants, NetworkConstants DEF Block
  <2> QED BY <2>1, SignBlock, NetworkConstants DEF seed_block
<1>2. seed_block(byte).issuer_pub_key = Seed
  BY DEF seed_block, block_sign, EmptyBlock
<1> DEFINE start == genesis(NewState, Seed)
           g == block_apply(start, seed_block(byte))
<1>3. start \in MemState /\ start.main_chain_block_list = <<>>
  BY NewStateType, GenesisType, NetworkConstants DEF NewState
<1>4. /\ g \in MemState /\ ledger(g) = ledger_after(ledger(start), seed_block(byte))
      /\ g.main_chain_block_list = Append(<<>>, seed_block(byte))
  <2> HIDE DEF start
  <2> QED BY <1>1, <1>3, BlockApply
<1>5. gms_init(byte) = [g EXCEPT !.ready = TRUE]
  BY DEF gms_init, seed_block
<1> HIDE DEF g
<1>6. /\ gms_init(byte) \in MemState /\ gms_init(byte).ready
      /\ gms_init(byte).main_chain_block_list = g.main_chain_block_list
  BY <1>4, <1>5 DEF MemState
<1>7. ledger(gms_init(byte)) = ledger(g)
  BY <1>4, <1>5 DEF MemState, ledger
<1>8. g.main_chain_block_list = <<seed_block(byte)>>
  BY <1>4
<1> QED BY <1>1, <1>2, <1>4, <1>6, <1>7, <1>8

LEMMA StartType == ASSUME NEW n \in Nodes, NEW g \in StartState(n) PROVE g \in MemState
BY GmsInit, NewStateType DEF StartState

LEMMA ReplaceType ==
    ASSUME NEW g \in MemState, NEW block \in Block
    PROVE  /\ proposed_block_replace(g, block) \in MemState
           /\ proposed_block_replace(g, block).main_chain_block_list = g.main_chain_block_list
           /\ proposed_block_replace(g, block).ready = g.ready
           /\ ledger(proposed_block_replace(g, block)) = ledger(g)
BY DEF proposed_block_replace, MemState, ledger

LEMMA OwnBlockType ==
    ASSUME NEW g \in MemState, g.main_chain_block_list # <<>>,
           NEW n \in Nodes, NEW byte \in HashBytes
    PROVE  own_block(g, n, byte) \in Block
<1> DEFINE last == g.main_chain_block_list[Len(g.main_chain_block_list)]
           block == [EmptyBlock EXCEPT !.id = Plus(last.id, 1), !.issuer_pub_key = n,
                                       !.tx_list = g.tx_list]
<1>1. g.main_chain_block_list \in Seq(Block) /\ g.tx_list \in Seq(Tx)
  BY DEF MemState
<1>2. last \in Block
  BY <1>1
<1>3. Plus(last.id, 1) \in Word
  <2>1. last.id \in Int
    BY <1>2, BlockFields
  <2> HIDE DEF last
  <2> QED BY <2>1, PlusType
<1> HIDE DEF last
<1>4. block \in Block /\ n \in Keys
  BY <1>1, <1>3, LedgerConstants, NetworkConstants DEF Block
<1>5. own_block(g, n, byte) = block_weight_calc(block_sign(block, n, n, byte))
  BY DEF own_block, last
<1> HIDE DEF block
<1> QED BY <1>4, <1>5, SignBlock, WeighBlock
-----------------------------------------------------------------------------
(* The ledger is what the chain makes of it: the genesis account and then one *)
(* block after the other, whoever applied them and when.                      *)

first_ledger(key) == ledger(genesis(NewState, key))

IsHistory(h, c) ==
    /\ h[0] = first_ledger(c[1].issuer_pub_key)
    /\ \A i \in 1 .. Len(c) : h[i] = ledger_after(h[i - 1], c[i])

Traced(g) ==
    IF g.main_chain_block_list = <<>>
    THEN ledger(g) = ledger(NewState)
    ELSE \E h : /\ IsHistory(h, g.main_chain_block_list)
                /\ ledger(g) = h[Len(g.main_chain_block_list)]

\* A chain has one history.
LEMMA OneHistory ==
    ASSUME NEW c \in Seq(Block), NEW h, NEW k, IsHistory(h, c), IsHistory(k, c)
    PROVE  h[Len(c)] = k[Len(c)]
<1>1. Len(c) \in Nat
  OBVIOUS
<1> DEFINE A == {n \in Nat : n <= Len(c) => h[n] = k[n]}
<1>2. 0 \in A
  BY DEF IsHistory
<1>3. ASSUME NEW n \in Nat, n \in A PROVE n + 1 \in A
  <2> SUFFICES ASSUME n + 1 <= Len(c) PROVE h[n + 1] = k[n + 1]
    OBVIOUS
  <2>1. n + 1 \in 1 .. Len(c) /\ (n + 1) - 1 = n /\ h[n] = k[n]
    BY <1>1, <1>3
  <2> QED BY <2>1 DEF IsHistory
<1>4. \A n \in Nat : n \in A
  <2> HIDE DEF A
  <2> QED BY <1>2, <1>3, SetInduction
<1> QED BY <1>1, <1>4

LEMMA AppendMeans ==
    ASSUME NEW c \in Seq(Block), NEW block \in Block
    PROVE  /\ Len(c) \in Nat /\ (c # <<>> => Len(c) > 0)
           /\ Append(c, block) \in Seq(Block) /\ Append(c, block) # <<>>
           /\ Len(Append(c, block)) = Len(c) + 1 /\ Append(c, block)[Len(c) + 1] = block
           /\ \A i \in 1 .. Len(c) : Append(c, block)[i] = c[i]
<1>1. Len(c) \in Nat /\ (c # <<>> => Len(c) > 0)
  OBVIOUS
<1>2. Append(c, block) \in Seq(Block) /\ Len(Append(c, block)) = Len(c) + 1
  OBVIOUS
<1>3. Append(c, block)[Len(c) + 1] = block
  OBVIOUS
<1>4. \A i \in 1 .. Len(c) : Append(c, block)[i] = c[i]
  OBVIOUS
<1>5. Append(c, block) # <<>>
  <2> DEFINE e == Append(c, block)
  <2>1. Len(e) = Len(c) + 1
    BY <1>2
  <2> HIDE DEF e
  <2>2. e # <<>>
    BY <1>1, <2>1
  <2> QED BY <2>2 DEF e
<1> QED BY <1>1, <1>2, <1>3, <1>4, <1>5

LEMMA TracedAppend ==
    ASSUME NEW g \in MemState, NEW block \in Block, Traced(g),
           g.main_chain_block_list # <<>>
    PROVE  Traced(block_apply(g, block))
<1> DEFINE c == g.main_chain_block_list
           d == block_apply(g, block).main_chain_block_list
           n == Len(c)
<1>1. PICK h : IsHistory(h, c) /\ ledger(g) = h[n]
  BY DEF Traced
<1>2. /\ c \in Seq(Block) /\ d = Append(c, block)
      /\ ledger(block_apply(g, block)) = ledger_after(h[n], block)
  BY <1>1, BlockApply DEF MemState
<1>3. /\ n \in Nat /\ n > 0 /\ Len(d) = n + 1 /\ d # <<>> /\ d[n + 1] = block
      /\ \A i \in 1 .. n : d[i] = c[i]
  <2>1. c # <<>>
    OBVIOUS
  <2> HIDE DEF c, d
  <2> QED BY <1>2, <2>1, AppendMeans
<1> HIDE DEF c, d, n
<1> DEFINE k == [i \in 0 .. n + 1 |-> IF i = n + 1 THEN ledger_after(h[n], block) ELSE h[i]]
<1>4. k[0] = first_ledger(d[1].issuer_pub_key)
  BY <1>1, <1>3 DEF IsHistory
<1>5. ASSUME NEW i \in 1 .. n + 1 PROVE k[i] = ledger_after(k[i - 1], d[i])
  <2>1. i \in 0 .. n + 1 /\ i - 1 \in 0 .. n + 1 /\ i - 1 # n + 1
    BY <1>3
  <2>2. k[i - 1] = h[i - 1]
    BY <2>1
  <2>3. CASE i = n + 1
    BY <1>3, <2>1, <2>2, <2>3
  <2>4. CASE i # n + 1
    <3>1. i \in 1 .. n
      BY <1>3, <2>4
    <3>2. h[i] = ledger_after(h[i - 1], c[i])
      BY <1>1, <3>1 DEF IsHistory, n
    <3> QED BY <1>3, <2>1, <2>2, <2>4, <3>1, <3>2
  <2> QED BY <2>3, <2>4
<1>6. k[n + 1] = ledger_after(h[n], block)
  BY <1>3
<1> HIDE DEF k
<1>7. IsHistory(k, d)
  BY <1>3, <1>4, <1>5 DEF IsHistory
<1> QED BY <1>2, <1>3, <1>6, <1>7 DEF Traced, d

\* The genesis account is made from an empty ledger only.
LEMMA GenesisLedger ==
    ASSUME NEW g \in MemState, NEW key \in Keys, ledger(g) = ledger(NewState)
    PROVE  ledger(genesis(g, key)) = first_ledger(key)
<1>1. \A s \in MemState : ledger(genesis(s, key)) =
         [a2pk |-> Append(s.a2pk, key),
          balance |-> [Append(s.balance, 0) EXCEPT ![1] = GenesisBalance],
          done_tx_hash |-> s.done_tx_hash]
  BY DEF ledger, genesis, gms_account_new, MemState
<1>2. g.a2pk = NewState.a2pk /\ g.balance = NewState.balance
      /\ g.done_tx_hash = NewState.done_tx_hash
  BY DEF ledger
<1> QED BY <1>1, <1>2, NewStateType DEF first_ledger

LEMMA TracedFirst ==
    ASSUME NEW g \in MemState, NEW block \in Block, Traced(g),
           g.main_chain_block_list = <<>>
    PROVE  Traced(block_apply(genesis(g, block.issuer_pub_key), block))
<1> DEFINE s == genesis(g, block.issuer_pub_key)
           k == [i \in 0 .. 1 |-> IF i = 0 THEN ledger(s) ELSE ledger_after(ledger(s), block)]
<1>1. s \in MemState /\ s.main_chain_block_list = <<>>
  BY GenesisType, BlockFields
<1>2. ledger(s) = first_ledger(block.issuer_pub_key)
  BY GenesisLedger, BlockFields DEF Traced
<1> HIDE DEF s
<1>3. /\ block_apply(s, block).main_chain_block_list = <<block>>
      /\ ledger(block_apply(s, block)) = ledger_after(ledger(s), block)
  BY <1>1, BlockApply
<1>4. k[0] = ledger(s) /\ k[1] = ledger_after(ledger(s), block)
  OBVIOUS
<1> HIDE DEF k
<1>5. Len(<<block>>) = 1 /\ <<block>>[1] = block /\ <<block>> # <<>>
      /\ \A i \in 1 .. 1 : i = 1 /\ i - 1 = 0
  OBVIOUS
<1>6. IsHistory(k, <<block>>)
  BY <1>2, <1>4, <1>5 DEF IsHistory
<1>7. Traced(block_apply(s, block))
  BY <1>3, <1>4, <1>5, <1>6 DEF Traced
<1> QED BY <1>7 DEF s

LEMMA TracedSame ==
    ASSUME NEW g, NEW s, Traced(g), ledger(s) = ledger(g),
           s.main_chain_block_list = g.main_chain_block_list
    PROVE  Traced(s)
BY DEF Traced

LEMMA TracedStart == ASSUME NEW n \in Nodes, NEW g \in StartState(n) PROVE Traced(g)
<1>1. Traced(NewState)
  BY DEF Traced, NewState
<1>2. ASSUME NEW byte \in HashBytes PROVE Traced(gms_init(byte))
  <2> DEFINE b == seed_block(byte)
  <2>1. Traced(block_apply(genesis(NewState, b.issuer_pub_key), b))
    <3>1. NewState.main_chain_block_list = <<>> /\ b \in Block
      BY GmsInit DEF NewState
    <3> HIDE DEF b
    <3> QED BY <1>1, <3>1, NewStateType, TracedFirst
  <2> DEFINE s == block_apply(genesis(NewState, Seed), b)
  <2>2. b.issuer_pub_key = Seed /\ b \in Block
    BY GmsInit
  <2>3. Traced(s)
    BY <2>1, <2>2
  <2>4. genesis(NewState, Seed) \in MemState
        /\ genesis(NewState, Seed).main_chain_block_list = <<>>
    BY NewStateType, GenesisType, NetworkConstants DEF NewState
  <2>5. /\ ledger(s) = ledger(gms_init(byte))
        /\ s.main_chain_block_list = gms_init(byte).main_chain_block_list
    <3> HIDE DEF b
    <3>1. /\ s.main_chain_block_list = <<b>>
          /\ ledger(s) = ledger_after(ledger(genesis(NewState, Seed)), b)
      BY <2>2, <2>4, BlockApply
    <3> HIDE DEF s
    <3> QED BY <3>1, GmsInit DEF b
  <2> HIDE DEF s
  <2> QED BY <2>3, <2>5, TracedSame
<1> QED BY <1>1, <1>2 DEF StartState
-----------------------------------------------------------------------------
(* The inductive invariant, node by node *)

\* Where the main thread of n, in state t, may be when its node holds g
PlaceInv(n, g, t) ==
    /\ t.at \in {"download", "proposal"} => t.peer \in Nodes \ {n}
    /\ t.at = "download" => t.bh = Len(g.main_chain_block_list)
    /\ t.at \in {"proposal", "propose", "subtick"} \/ t.tick # 0 => g.ready
    /\ t.at = "subtick" \/ t.tick # 0 => g.main_chain_block_list # <<>>

NodeInv(n, g, t) == g \in MemState /\ t \in Thread /\ PlaceInv(n, g, t) /\ Traced(g)

NetInv ==
    /\ TypeInv
    /\ \A n \in Nodes : NodeInv(n, gms[n], main[n])

\* A step of one node
LEMMA OneNode ==
    ASSUME NetInv, NEW n \in Nodes, NEW g, NEW t, NodeInv(n, g, t),
           gms' = [gms EXCEPT ![n] = g], main' = [main EXCEPT ![n] = t],
           restarts' \in 0 .. MaxRestarts
    PROVE  NetInv'
BY DEF NetInv, TypeInv, NodeInv

LEMMA LoopType == Loop \in Thread
BY NetworkConstants, LedgerConstants DEF Loop, Thread

LEMMA ReturnedType ==
    ASSUME NEW n \in Nodes, main[n] \in Thread
    PROVE  /\ Returned(n) \in Thread /\ Returned(n).tick = main[n].tick
           /\ Returned(n).at \in {"branch", "subtick"}
           /\ Returned(n).at = "subtick" => main[n].tick # 0
<1>1. main[n].tick \in 0 .. SubTicks /\ 0 \in 0 .. DownloadLimit
  BY NetworkConstants DEF Thread
<1> DEFINE at == IF main[n].tick = 0 THEN "branch" ELSE "subtick"
<1>2. Returned(n) = [Loop EXCEPT !.at = at, !.tick = main[n].tick]
  BY DEF Returned
<1>3. at \in {"branch", "subtick"} /\ (at = "subtick" => main[n].tick # 0)
  OBVIOUS
<1> HIDE DEF at
<1> QED BY <1>1, <1>2, <1>3, LoopType DEF Thread

\* net_tick returns: nothing has changed for the invariant.
LEMMA ReturnInv ==
    ASSUME NetInv, NEW n \in Nodes PROVE NodeInv(n, gms[n], Returned(n))
<1>1. NodeInv(n, gms[n], main[n])
  BY DEF NetInv
<1> QED BY <1>1, ReturnedType DEF NodeInv, PlaceInv
\* A step of the thread alone
LEMMA MoveInv ==
    ASSUME NetInv, NEW n \in Nodes, NEW t, t \in Thread, PlaceInv(n, gms[n], t),
           UNCHANGED <<gms, restarts>>, main' = [main EXCEPT ![n] = t]
    PROVE  NetInv'
<1>1. gms' = [gms EXCEPT ![n] = gms[n]]
  BY DEF NetInv, TypeInv
<1>2. NodeInv(n, gms[n], t)
  BY DEF NetInv, NodeInv
<1>3. restarts' \in 0 .. MaxRestarts
  BY DEF NetInv, TypeInv
<1> QED BY <1>1, <1>2, <1>3, OneNode

\* The steps of n that only its thread takes part in
LEMMA MoveSteps ==
    ASSUME NetInv, NEW n \in Nodes,
           LoopHead(n) \/ AskFails(n) \/ DownloadEnd(n) \/ Branch(n) \/ Subtick(n)
    PROVE  NetInv'
<1>0. NodeInv(n, gms[n], main[n]) /\ n \in DOMAIN main
  BY DEF NetInv, TypeInv
<1>1. CASE LoopHead(n)
  <2>1. main' = [main EXCEPT ![n] = [main[n] EXCEPT !.at = "ask"]]
        /\ UNCHANGED <<gms, restarts>>
    BY <1>1 DEF LoopHead, goto
  <2>2. [main[n] EXCEPT !.at = "ask"] \in Thread
        /\ PlaceInv(n, gms[n], [main[n] EXCEPT !.at = "ask"])
    BY <1>0 DEF NodeInv, PlaceInv, Thread
  <2> QED BY <2>1, <2>2, MoveInv
<1>2. CASE AskFails(n) \/ DownloadEnd(n)
  <2>1. main' = [main EXCEPT ![n] = Returned(n)] /\ UNCHANGED <<gms, restarts>>
    BY <1>2 DEF AskFails, DownloadEnd
  <2> QED BY <2>1, ReturnInv, MoveInv DEF NodeInv
<1>3. CASE Branch(n)
  <2> DEFINE t == [main[n] EXCEPT !.at = IF gms[n].ready THEN "propose" ELSE "loop"]
  <2>1. main' = [main EXCEPT ![n] = t] /\ UNCHANGED <<gms, restarts>>
    BY <1>3 DEF Branch, goto
  <2>2. t \in Thread /\ PlaceInv(n, gms[n], t)
    BY <1>0 DEF NodeInv, PlaceInv, Thread
  <2> HIDE DEF t
  <2> QED BY <2>1, <2>2, MoveInv
<1>4. CASE Subtick(n)
  <2> DEFINE t == [main[n] EXCEPT !.at = "ask", !.tick = @ + 1]
  <2>1. main' = [main EXCEPT ![n] = t] /\ UNCHANGED <<gms, restarts>>
        /\ main[n].at = "subtick" /\ main[n].tick < SubTicks
    BY <1>4 DEF Subtick
  <2>2. main[n].tick + 1 \in 0 .. SubTicks
    BY <1>0, <2>1, NetworkConstants DEF NodeInv, Thread
  <2>3. t \in Thread /\ PlaceInv(n, gms[n], t)
    BY <1>0, <2>1, <2>2 DEF NodeInv, PlaceInv, Thread
  <2> HIDE DEF t
  <2> QED BY <2>1, <2>3, MoveInv
<1> QED BY <1>1, <1>2, <1>3, <1>4

\* A node is asked for its height, or for its proposal.
LEMMA AskHeightInv ==
    ASSUME NetInv, NEW n \in Nodes, NEW m \in Nodes \ {n}, AskHeight(n, m)
    PROVE  NetInv'
<1>0. /\ NodeInv(n, gms[n], main[n]) /\ m \in Keys /\ DownloadLimit \in 0 .. DownloadLimit
      /\ Len(chain(n)) \in Nat /\ Len(chain(m)) \in Nat /\ restarts' \in 0 .. MaxRestarts
  <2>1. chain(n) \in Seq(Block) /\ chain(m) \in Seq(Block)
    BY DEF NetInv, TypeInv, chain, MemState
  <2> QED BY <2>1, NetworkConstants DEF NetInv, TypeInv, AskHeight
<1> DEFINE level == ~gms[n].ready /\ Len(chain(m)) = Len(chain(n))
           g == [gms[n] EXCEPT !.ready = @ \/ level]
           t == [main[n] EXCEPT !.at = IF level THEN "proposal" ELSE "download",
                                !.peer = m, !.bh = Len(chain(n)),
                                !.remote = Len(chain(m)), !.limit = DownloadLimit]
<1>1. gms' = [gms EXCEPT ![n] = g] /\ main' = [main EXCEPT ![n] = t]
  BY DEF AskHeight
<1>2. /\ g \in MemState /\ ledger(g) = ledger(gms[n]) /\ g.ready = (gms[n].ready \/ level)
      /\ g.main_chain_block_list = gms[n].main_chain_block_list
  <2>1. level \in BOOLEAN /\ gms[n] \in MemState
    BY <1>0 DEF NodeInv
  <2>2. (gms[n].ready \/ level) \in BOOLEAN
    OBVIOUS
  <2> HIDE DEF level
  <2> QED BY <2>1, <2>2 DEF MemState, ledger
<1>3. /\ t \in Thread /\ t.tick = main[n].tick /\ t.peer = m /\ t.bh = Len(chain(n))
      /\ t.at = IF level THEN "proposal" ELSE "download"
  <2> HIDE DEF level
  <2> QED BY <1>0 DEF NodeInv, Thread
<1>4. PlaceInv(n, g, t)
  <2> HIDE DEF g, t, level
  <2> QED BY <1>0, <1>2, <1>3 DEF NodeInv, PlaceInv, chain
<1>5. Traced(g)
  <2> HIDE DEF g
  <2> QED BY <1>0, <1>2, TracedSame DEF NodeInv
<1> HIDE DEF g, t
<1> QED BY <1>0, <1>1, <1>2, <1>3, <1>4, <1>5, OneNode DEF NodeInv

LEMMA AskProposalInv ==
    ASSUME NetInv, NEW n \in Nodes, AskProposal(n) PROVE NetInv'
<1> DEFINE tmp == over_json(gms[main[n].peer].proposed_block)
           g == IF valid(gms[n], tmp) THEN proposed_block_replace(gms[n], tmp) ELSE gms[n]
<1>0. NodeInv(n, gms[n], main[n]) /\ main[n].at = "proposal"
  BY DEF NetInv, AskProposal
<1>1. /\ gms' = [gms EXCEPT ![n] = g] /\ main' = [main EXCEPT ![n] = Returned(n)]
      /\ restarts' \in 0 .. MaxRestarts
  BY DEF AskProposal, NetInv, TypeInv
<1>2. tmp \in Block
  <2>1. gms[main[n].peer] \in MemState
    BY <1>0 DEF NetInv, TypeInv, NodeInv, PlaceInv
  <2>2. gms[main[n].peer].proposed_block \in Block
    BY <2>1 DEF MemState
  <2> QED BY <2>2, JsonType
<1> HIDE DEF tmp
<1>3. /\ g \in MemState /\ ledger(g) = ledger(gms[n]) /\ g.ready = gms[n].ready
      /\ g.main_chain_block_list = gms[n].main_chain_block_list
  BY <1>0, <1>2, ReplaceType DEF NodeInv
<1> HIDE DEF g
<1>4. NodeInv(n, gms[n], Returned(n))
  BY ReturnInv
<1>5. NodeInv(n, g, Returned(n))
  BY <1>3, <1>4, TracedSame DEF NodeInv, PlaceInv
<1> QED BY <1>1, <1>5, OneNode

LEMMA EmptyChain == ASSUME NEW c \in Seq(Block), Len(c) = 0 PROVE c = <<>>
OBVIOUS

\* What the peer's block makes of the node, whoever wrote it
LEMMA DownloadInv ==
    ASSUME NetInv, NEW n \in Nodes, Download(n) PROVE NetInv'
<1> DEFINE tmp == over_json(chain(main[n].peer)[main[n].bh + 1])
           s == IF main[n].bh = 0 THEN genesis(gms[n], tmp.issuer_pub_key) ELSE gms[n]
           g == block_apply(s, tmp)
           t == [main[n] EXCEPT !.bh = @ + 1, !.limit = @ - 1]
<1>0. /\ NodeInv(n, gms[n], main[n]) /\ main[n].at = "download" /\ main[n].limit > 0
      /\ main[n].bh < Len(chain(main[n].peer)) /\ restarts' \in 0 .. MaxRestarts
  BY DEF NetInv, TypeInv, Download, missing
<1>1. tmp \in Block
  <2>1. gms[main[n].peer] \in MemState /\ main[n].bh \in Nat
    BY <1>0 DEF NetInv, TypeInv, NodeInv, PlaceInv, Thread
  <2>2. chain(main[n].peer) \in Seq(Block)
    BY <2>1 DEF chain, MemState
  <2>3. chain(main[n].peer)[main[n].bh + 1] \in Block
    BY <1>0, <2>1, <2>2
  <2> QED BY <2>3, JsonType
<1>2. CASE ~valid(gms[n], tmp)
  <2>1. main' = [main EXCEPT ![n] = Returned(n)] /\ UNCHANGED <<gms, restarts>>
    BY <1>2 DEF Download
  <2> QED BY <2>1, ReturnInv, MoveInv DEF NodeInv
<1>3. CASE valid(gms[n], tmp)
  <2>1. gms' = [gms EXCEPT ![n] = g] /\ main' = [main EXCEPT ![n] = t]
    <3> HIDE DEF s
    <3>1. /\ gms' = [gms EXCEPT ![n] = block_apply(s, tmp)]
          /\ main' = [main EXCEPT ![n].bh = @ + 1, ![n].limit = @ - 1]
      BY <1>3 DEF Download, s
    <3> QED BY <3>1 DEF NetInv, TypeInv
  <2> HIDE DEF tmp
  <2>2. main[n].bh = Len(gms[n].main_chain_block_list) /\ gms[n] \in MemState
        /\ gms[n].main_chain_block_list \in Seq(Block) /\ Traced(gms[n])
    BY <1>0 DEF NodeInv, PlaceInv, MemState
  <2>3. s \in MemState /\ s.main_chain_block_list = gms[n].main_chain_block_list
        /\ s.ready = gms[n].ready
    BY <1>1, <2>2, GenesisType, BlockFields
  <2>4. Traced(g)
    <3>1. CASE main[n].bh = 0
      <4>1. gms[n].main_chain_block_list = <<>>
        BY <2>2, <3>1, EmptyChain
      <4> QED BY <1>1, <2>2, <3>1, <4>1, TracedFirst
    <3>2. CASE main[n].bh # 0
      <4>1. gms[n].main_chain_block_list # <<>>
        BY <2>2, <3>2
      <4> QED BY <1>1, <2>2, <3>2, <4>1, TracedAppend
    <3> QED BY <3>1, <3>2
  <2> HIDE DEF s
  <2>5. g \in MemState /\ g.ready = gms[n].ready
        /\ g.main_chain_block_list = Append(gms[n].main_chain_block_list, tmp)
    BY <1>1, <2>3, BlockApply
  <2> HIDE DEF g
  <2>6. g.main_chain_block_list # <<>>
        /\ Len(g.main_chain_block_list) = main[n].bh + 1
    BY <1>1, <2>2, <2>5
  <2>7. /\ t \in Thread /\ t.at = "download" /\ t.tick = main[n].tick /\ t.peer = main[n].peer
        /\ t.bh = main[n].bh + 1
    <3>1. main[n].limit - 1 \in 0 .. DownloadLimit /\ main[n].bh + 1 \in Nat
      BY <1>0, NetworkConstants DEF NodeInv, Thread
    <3> QED BY <1>0, <3>1 DEF NodeInv, Thread
  <2> HIDE DEF t
  <2>8. PlaceInv(n, g, t)
    BY <1>0, <2>5, <2>6, <2>7 DEF NodeInv, PlaceInv
  <2> QED BY <1>0, <2>1, <2>4, <2>5, <2>7, <2>8, OneNode DEF NodeInv
<1> QED BY <1>2, <1>3

LEMMA ProposeInv ==
    ASSUME NetInv, NEW n \in Nodes, Propose(n) PROVE NetInv'
<1>0. /\ NodeInv(n, gms[n], main[n]) /\ main[n].at = "propose" /\ restarts' \in 0 .. MaxRestarts
      /\ gms[n].ready
  BY DEF NetInv, TypeInv, Propose, NodeInv, PlaceInv
<1>1. \A at \in {"subtick", "dead"} :
         [main[n] EXCEPT !.at = at] \in Thread
         /\ [main[n] EXCEPT !.at = at].at = at
         /\ [main[n] EXCEPT !.at = at].tick = main[n].tick
  BY <1>0 DEF NodeInv, Thread
<1>2. \A at : [main EXCEPT ![n].at = at] = [main EXCEPT ![n] = [main[n] EXCEPT !.at = at]]
  OBVIOUS
<1>3. CASE chain(n) = <<>>
  <2> DEFINE t == [main[n] EXCEPT !.at = "dead"]
  <2>1. main' = [main EXCEPT ![n] = t] /\ UNCHANGED <<gms, restarts>>
    BY <1>3 DEF Propose
  <2>2. t \in Thread /\ t.at = "dead" /\ t.tick = main[n].tick
    BY <1>1
  <2> HIDE DEF t
  <2>3. PlaceInv(n, gms[n], t)
    BY <1>0, <2>2 DEF NodeInv, PlaceInv
  <2> QED BY <2>1, <2>2, <2>3, MoveInv
<1>4. CASE chain(n) # <<>>
  <2> DEFINE empty == [gms[n] EXCEPT !.tx_list = <<>>]
  <2>1. PICK byte \in HashBytes :
          LET block == own_block(gms[n], n, byte)
          IN  IF valid(empty, block)
              THEN /\ gms' = [gms EXCEPT ![n] = proposed_block_replace(empty, block)]
                   /\ main' = [main EXCEPT ![n].at = "subtick"]
              ELSE /\ gms' = [gms EXCEPT ![n] = empty]
                   /\ main' = [main EXCEPT ![n].at = "dead"]
    BY <1>4 DEF Propose
  <2> DEFINE block == own_block(gms[n], n, byte)
  <2>2. block \in Block
    BY <1>0, <1>4, OwnBlockType DEF NodeInv, chain
  <2> HIDE DEF block
  <2>3. /\ empty \in MemState /\ ledger(empty) = ledger(gms[n]) /\ empty.ready
        /\ empty.main_chain_block_list = gms[n].main_chain_block_list
    <3>1. gms[n] \in MemState /\ <<>> \in Seq(Tx)
      BY <1>0 DEF NodeInv
    <3> QED BY <1>0, <3>1 DEF MemState, ledger
  <2> HIDE DEF empty
  <2>4. PICK g \in {empty, proposed_block_replace(empty, block)}, at \in {"subtick", "dead"} :
          gms' = [gms EXCEPT ![n] = g] /\ main' = [main EXCEPT ![n].at = at]
    BY <2>1 DEF block
  <2>5. /\ g \in MemState /\ ledger(g) = ledger(gms[n]) /\ g.ready
        /\ g.main_chain_block_list = gms[n].main_chain_block_list
    BY <2>2, <2>3, <2>4, ReplaceType
  <2> DEFINE t == [main[n] EXCEPT !.at = at]
  <2>6. t \in Thread /\ t.at = at /\ t.tick = main[n].tick
    BY <1>1, <2>4
  <2>7. main' = [main EXCEPT ![n] = t]
    BY <1>2, <2>4
  <2> HIDE DEF t
  <2>8. PlaceInv(n, g, t)
    BY <1>0, <1>4, <2>4, <2>5, <2>6 DEF NodeInv, PlaceInv, chain
  <2>9. Traced(g)
    BY <1>0, <2>5, TracedSame DEF NodeInv
  <2> QED BY <1>0, <2>4, <2>5, <2>6, <2>7, <2>8, <2>9, OneNode DEF NodeInv
<1> QED BY <1>3, <1>4

LEMMA CommitInv ==
    ASSUME NetInv, NEW n \in Nodes, Commit(n) PROVE NetInv'
<1> DEFINE s == block_apply(gms[n], gms[n].proposed_block)
           g == [s EXCEPT !.is_proposal_valid = FALSE]
<1>0. /\ NodeInv(n, gms[n], main[n]) /\ main[n].at = "subtick" /\ restarts' \in 0 .. MaxRestarts
      /\ gms[n] \in MemState /\ gms[n].proposed_block \in Block /\ Traced(gms[n])
      /\ gms[n].main_chain_block_list # <<>> /\ n \in DOMAIN gms
  BY DEF NetInv, TypeInv, Commit, NodeInv, PlaceInv, MemState
<1>1. gms' = [gms EXCEPT ![n] = g] /\ main' = [main EXCEPT ![n] = Loop]
  BY <1>0 DEF Commit
<1>2. s \in MemState /\ Traced(s)
  BY <1>0, BlockApply, TracedAppend
<1> HIDE DEF s
<1>3. /\ g \in MemState /\ ledger(g) = ledger(s)
      /\ g.main_chain_block_list = s.main_chain_block_list
  BY <1>2 DEF MemState, ledger
<1> HIDE DEF g
<1>4. Traced(g)
  BY <1>2, <1>3, TracedSame
<1>5. PlaceInv(n, g, Loop)
  BY DEF PlaceInv, Loop
<1> QED BY <1>0, <1>1, <1>3, <1>4, <1>5, LoopType, OneNode DEF NodeInv

LEMMA TransferEffect ==
    ASSUME NEW n \in Nodes, Transfer(n)
    PROVE  \E tx \in Tx : gms' = [gms EXCEPT ![n].tx_list = <<tx>>]
<1> DEFINE plain(r, t) == [type |-> 1, amount |-> r.amount, send_addr |-> r.from,
                           recv_addr |-> r.to, bind_pub_key |-> NoKey,
                           hash |-> "zero", sign |-> NoSign, tail |-> t]
<1>1. PICK r \in Transfers, t \in Garbage :
        gms' = [gms EXCEPT ![n].tx_list = <<tx_sign(plain(r, t), n, n)>>]
  BY DEF Transfer
<1>2. plain(r, t) \in Tx
  <2>1. t \in Tails
    BY LedgerAssumption
  <2> QED BY <2>1, NetworkAssumption, LedgerConstants DEF Tx
<1> HIDE DEF plain
<1>3. tx_sign(plain(r, t), n, n) \in Tx
  BY <1>2, NetworkConstants, SignTx
<1> QED BY <1>1, <1>3

LEMMA TransferInv ==
    ASSUME NetInv, NEW n \in Nodes, Transfer(n) PROVE NetInv'
<1>0. /\ NodeInv(n, gms[n], main[n]) /\ restarts' \in 0 .. MaxRestarts /\ UNCHANGED main
      /\ n \in DOMAIN gms /\ n \in DOMAIN main
  BY DEF NetInv, TypeInv, Transfer
<1>1. PICK tx \in Tx : gms' = [gms EXCEPT ![n].tx_list = <<tx>>]
  BY TransferEffect
<1> DEFINE g == [gms[n] EXCEPT !.tx_list = <<tx>>]
<1>3. gms' = [gms EXCEPT ![n] = g] /\ main' = [main EXCEPT ![n] = main[n]]
  BY <1>0, <1>1 DEF NetInv, TypeInv
<1>4. /\ g \in MemState /\ ledger(g) = ledger(gms[n]) /\ g.ready = gms[n].ready
      /\ g.main_chain_block_list = gms[n].main_chain_block_list
  <2>1. <<tx>> \in Seq(Tx)
    OBVIOUS
  <2> QED BY <1>0, <2>1 DEF NodeInv, MemState, ledger
<1> HIDE DEF g
<1>5. NodeInv(n, g, main[n])
  BY <1>0, <1>4, TracedSame DEF NodeInv, PlaceInv
<1> QED BY <1>0, <1>3, <1>5, OneNode

LEMMA RestartInv ==
    ASSUME NetInv, NEW n \in Nodes, Restart(n) PROVE NetInv'
<1>1. PICK g \in StartState(n) : gms' = [gms EXCEPT ![n] = g]
  BY DEF Restart
<1>2. main' = [main EXCEPT ![n] = Loop]
  BY DEF Restart
<1>3. restarts' \in 0 .. MaxRestarts
  BY NetworkConstants DEF Restart, NetInv, TypeInv
<1>4. NodeInv(n, g, Loop)
  BY StartType, TracedStart, LoopType DEF NodeInv, PlaceInv, Loop
<1> QED BY <1>1, <1>2, <1>3, <1>4, OneNode

THEOREM NetworkInductive == Spec => []NetInv
<1>1. Init => NetInv
  <2> SUFFICES ASSUME Init PROVE NetInv
    OBVIOUS
  <2>1. \A n \in Nodes : gms[n] \in StartState(n) /\ main[n] = Loop
    BY DEF Init
  <2>2. \A n \in Nodes : NodeInv(n, gms[n], main[n])
    BY <2>1, StartType, TracedStart, LoopType DEF NodeInv, PlaceInv, Loop
  <2>3. gms = [n \in Nodes |-> gms[n]] /\ main = [n \in Nodes |-> main[n]]
        /\ restarts \in 0 .. MaxRestarts
    BY NetworkConstants DEF Init
  <2>4. TypeInv
    BY <2>2, <2>3 DEF TypeInv, NodeInv
  <2> QED BY <2>2, <2>4 DEF NetInv
<1>2. NetInv /\ [Next]_vars => NetInv'
  <2> SUFFICES ASSUME NetInv, [Next]_vars PROVE NetInv'
    OBVIOUS
  <2>1. CASE UNCHANGED vars
    BY <2>1 DEF vars, NetInv, TypeInv
  <2>2. ASSUME NEW n \in Nodes, MainThread(n) \/ Transfer(n) \/ Restart(n) PROVE NetInv'
    BY <2>2, MoveSteps, AskHeightInv, AskProposalInv, DownloadInv, ProposeInv, CommitInv,
       TransferInv, RestartInv DEF MainThread
  <2> QED BY <2>1, <2>2 DEF Next
<1> QED BY <1>1, <1>2, PTL DEF Spec

\* Every state of every network has the types that TypeOK names.
THEOREM NetworkTypes == Spec => []TypeOK
<1>1. NetInv => TypeOK
  BY DEF NetInv, TypeInv, TypeOK, MemState, Thread, chain
<1> QED BY <1>1, NetworkInductive, PTL

\* The chain determines the ledger, in a network of any size, although every node
\* applies the blocks on its own, made, downloaded or downloaded again.
THEOREM LedgersAgree == Spec => []SameChainSameLedger
<1>1. ASSUME NetInv, NEW m \in Nodes, NEW n \in Nodes, chain(m) = chain(n)
      PROVE  ledger(gms[m]) = ledger(gms[n])
  <2>1. Traced(gms[m]) /\ Traced(gms[n]) /\ chain(m) \in Seq(Block)
    BY <1>1 DEF NetInv, TypeInv, NodeInv, MemState, chain
  <2>2. CASE chain(m) = <<>>
    BY <1>1, <2>1, <2>2 DEF Traced, chain
  <2>3. CASE chain(m) # <<>>
    <3>1. PICK h : IsHistory(h, chain(m)) /\ ledger(gms[m]) = h[Len(chain(m))]
      BY <2>1, <2>3 DEF Traced, chain
    <3>2. PICK k : IsHistory(k, chain(n)) /\ ledger(gms[n]) = k[Len(chain(n))]
      BY <1>1, <2>1, <2>3 DEF Traced, chain
    <3> QED BY <1>1, <2>1, <3>1, <3>2, OneHistory
  <2> QED BY <2>2, <2>3
<1>2. NetInv => SameChainSameLedger
  BY <1>1 DEF SameChainSameLedger
<1> QED BY <1>2, NetworkInductive, PTL
-----------------------------------------------------------------------------
(* What the chains have to do with one another *)

LEMMA PrefixMeans ==
    ASSUME NEW c \in Seq(Block), NEW d \in Seq(Block)
    PROVE  IsPrefix(c, d) <=> Len(c) <= Len(d) /\ \A i \in 1 .. Len(c) : c[i] = d[i]
<1>1. ASSUME Len(c) <= Len(d)
      PROVE  SubSeq(c, 1, Len(c)) = SubSeq(d, 1, Len(c)) <=> \A i \in 1 .. Len(c) : c[i] = d[i]
  <2>1. /\ SubSeq(c, 1, Len(c)) = [i \in 1 .. Len(c) |-> c[i]]
        /\ SubSeq(d, 1, Len(c)) = [i \in 1 .. Len(c) |-> d[i]]
    BY <1>1
  <2> QED BY <2>1
<1> QED BY <1>1 DEF IsPrefix

LEMMA EmptyPrefix == ASSUME NEW d \in Seq(Block) PROVE IsPrefix(<<>>, d)
<1>1. <<>> \in Seq(Block) /\ Len(<<>>) = 0
  OBVIOUS
<1>2. Len(d) \in Nat /\ Len(<<>>) <= Len(d)
  OBVIOUS
<1>3. ASSUME NEW i \in 1 .. Len(<<>>) PROVE FALSE
  OBVIOUS
<1> QED BY <1>1, <1>2, <1>3, PrefixMeans

\* The other chain may go on, and this one may take its next block.
LEMMA PrefixGrows ==
    ASSUME NEW c \in Seq(Block), NEW d \in Seq(Block), NEW b \in Block, IsPrefix(c, d)
    PROVE  /\ IsPrefix(c, Append(d, b))
           /\ Len(c) < Len(d) => IsPrefix(Append(c, d[Len(c) + 1]), d)
<1>1. Len(c) <= Len(d) /\ \A i \in 1 .. Len(c) : c[i] = d[i]
  BY PrefixMeans
<1>2. IsPrefix(c, Append(d, b))
  <2> DEFINE e == Append(d, b)
  <2>1. e \in Seq(Block) /\ Len(c) <= Len(e) /\ \A i \in 1 .. Len(c) : e[i] = d[i]
    BY <1>1
  <2> HIDE DEF e
  <2> QED BY <1>1, <2>1, PrefixMeans DEF e
<1>3. ASSUME Len(c) < Len(d) PROVE IsPrefix(Append(c, d[Len(c) + 1]), d)
  <2> DEFINE e == Append(c, d[Len(c) + 1])
  <2>1. d[Len(c) + 1] \in Block
    BY <1>3
  <2>2. e \in Seq(Block) /\ Len(e) = Len(c) + 1 /\ e[Len(c) + 1] = d[Len(c) + 1]
        /\ \A i \in 1 .. Len(c) : e[i] = c[i]
    BY <2>1
  <2>3. \A i \in 1 .. Len(c) + 1 : i \in 1 .. Len(c) \/ i = Len(c) + 1
    OBVIOUS
  <2>4. \A i \in 1 .. Len(c) + 1 : e[i] = d[i]
    BY <1>1, <2>2, <2>3
  <2> HIDE DEF e
  <2>5. IsPrefix(e, d)
    BY <1>3, <2>2, <2>4, PrefixMeans
  <2> QED BY <2>5 DEF e
<1> QED BY <1>2, <1>3

\* What validates after the trip through JSON carries no transaction, and is the
\* peer's block: the hash of a transaction is not written.
LEMMA JsonBlock ==
    ASSUME NEW block \in Block, NEW g, valid(g, over_json(block))
    PROVE  over_json(block) = block
<1>1. block.tx_list \in Seq(Tx)
  BY BlockFields
<1> DEFINE read == [i \in 1 .. Len(block.tx_list) |-> tx_over_json(block.tx_list[i])]
<1>2. over_json(block) = [block EXCEPT !.tx_list = read] /\ over_json(block).tx_list = read
  BY DEF over_json, Block
<1>3. Len(read) = Len(block.tx_list) /\ Len(block.tx_list) \in Nat
  BY <1>1
<1>4. ASSUME Len(block.tx_list) # 0 PROVE FALSE
  <2>1. 1 \in 1 .. Len(read) /\ read[1] = tx_over_json(block.tx_list[1])
        /\ block.tx_list[1] \in Tx
    BY <1>1, <1>3, <1>4
  <2>2. tx_validate(read[1], g.a2pk, g.balance, g.done_tx_hash, 0)
    <3> HIDE DEF read
    <3> QED BY <1>2, <2>1 DEF valid, block_validate
  <2>3. read[1].hash = "zero"
    <3>1. tx_over_json(block.tx_list[1]).hash = "zero"
      BY <2>1 DEF tx_over_json, Tx
    <3> QED BY <2>1, <3>1
  <2> HIDE DEF read
  <2> QED BY <2>2, <2>3 DEF tx_validate
<1>5. read = <<>> /\ block.tx_list = <<>>
  BY <1>1, <1>3, <1>4
<1> HIDE DEF read
<1> QED BY <1>2, <1>5 DEF Block

\* The block that n reads from its peer in this step
Fetched(n, b) ==
    /\ ~gms[n].ready /\ main[n].at = "download" /\ main[n].bh < Len(chain(main[n].peer))
    /\ b = over_json(chain(main[n].peer)[main[n].bh + 1]) /\ valid(gms[n], b)

\* g' follows g at node n by a step that is no restart: it stays ready, and its chain
\* grows by one block at most; a node that is not ready takes blocks from its peer only.
Follows(n, g, h) ==
    /\ h \in MemState
    /\ g.ready => h.ready
    /\ \/ h.main_chain_block_list = g.main_chain_block_list
       \/ \E b \in Block : /\ h.main_chain_block_list = Append(g.main_chain_block_list, b)
                           /\ g.ready \/ Fetched(n, b)

LEMMA FollowsSelf ==
    ASSUME NEW n, NEW g \in MemState PROVE Follows(n, g, g)
BY DEF Follows

\* The block of the peer at the place the thread has reached
LEMMA DownloadFollows ==
    ASSUME NetInv, NEW n \in Nodes, Download(n)
    PROVE  \E h : gms' = [gms EXCEPT ![n] = h] /\ Follows(n, gms[n], h)
<1> DEFINE tmp == over_json(chain(main[n].peer)[main[n].bh + 1])
           s == IF main[n].bh = 0 THEN genesis(gms[n], tmp.issuer_pub_key) ELSE gms[n]
<1>0. /\ NodeInv(n, gms[n], main[n]) /\ main[n].at = "download"
      /\ main[n].bh < Len(chain(main[n].peer)) /\ gms[n] \in MemState
  BY DEF NetInv, NodeInv, Download
<1>1. tmp \in Block
  <2>1. gms[main[n].peer] \in MemState /\ main[n].bh \in Nat
    BY <1>0 DEF NetInv, TypeInv, NodeInv, PlaceInv, Thread
  <2>2. chain(main[n].peer) \in Seq(Block)
    BY <2>1 DEF chain, MemState
  <2>3. chain(main[n].peer)[main[n].bh + 1] \in Block
    BY <1>0, <2>1, <2>2
  <2> QED BY <2>3, JsonType
<1>2. CASE ~valid(gms[n], tmp)
  <2>1. gms' = [gms EXCEPT ![n] = gms[n]]
    BY <1>2 DEF Download, NetInv, TypeInv
  <2> QED BY <1>0, <2>1, FollowsSelf
<1>3. CASE valid(gms[n], tmp)
  <2>1. gms' = [gms EXCEPT ![n] = block_apply(s, tmp)]
    <3> HIDE DEF s
    <3> QED BY <1>3 DEF Download, s
  <2>2. gms[n].ready \/ Fetched(n, tmp)
    <3> HIDE DEF tmp
    <3> QED BY <1>0, <1>3 DEF Fetched, tmp
  <2> HIDE DEF tmp
  <2>3. s \in MemState /\ s.main_chain_block_list = gms[n].main_chain_block_list
        /\ s.ready = gms[n].ready
    BY <1>0, <1>1, GenesisType, BlockFields
  <2> HIDE DEF s
  <2>4. Follows(n, gms[n], block_apply(s, tmp))
    BY <1>1, <2>2, <2>3, BlockApply DEF Follows
  <2> QED BY <2>1, <2>4
<1> QED BY <1>2, <1>3

LEMMA StepFollows ==
    ASSUME NetInv, NEW n \in Nodes, MainThread(n) \/ Transfer(n)
    PROVE  \E h : gms' = [gms EXCEPT ![n] = h] /\ Follows(n, gms[n], h)
<1>0. NodeInv(n, gms[n], main[n]) /\ gms[n] \in MemState /\ gms \in [Nodes -> MemState]
  BY DEF NetInv, TypeInv, NodeInv
<1>1. CASE UNCHANGED gms
  <2>1. gms' = [gms EXCEPT ![n] = gms[n]]
    BY <1>0, <1>1
  <2> QED BY <1>0, <2>1, FollowsSelf
<1>2. CASE Download(n)
  BY <1>2, DownloadFollows
<1>3. ASSUME NEW m \in Nodes \ {n}, AskHeight(n, m)
      PROVE  \E h : gms' = [gms EXCEPT ![n] = h] /\ Follows(n, gms[n], h)
  <2>1. PICK level \in BOOLEAN : gms' = [gms EXCEPT ![n].ready = @ \/ level]
    BY <1>3 DEF AskHeight
  <2> DEFINE h == [gms[n] EXCEPT !.ready = @ \/ level]
  <2>2. gms' = [gms EXCEPT ![n] = h]
    BY <2>1
  <2>3. (gms[n].ready \/ level) \in BOOLEAN
    BY <1>0 DEF MemState
  <2>4. h \in MemState /\ (gms[n].ready => h.ready)
        /\ h.main_chain_block_list = gms[n].main_chain_block_list
    BY <1>0, <2>3 DEF MemState
  <2> HIDE DEF h
  <2> QED BY <2>2, <2>4 DEF Follows
<1>4. CASE AskProposal(n)
  <2> DEFINE tmp == over_json(gms[main[n].peer].proposed_block)
             h == IF valid(gms[n], tmp) THEN proposed_block_replace(gms[n], tmp) ELSE gms[n]
  <2>1. gms' = [gms EXCEPT ![n] = h]
    BY <1>4 DEF AskProposal
  <2>2. tmp \in Block
    <3>1. main[n].at = "proposal"
      BY <1>4 DEF AskProposal
    <3>2. gms[main[n].peer] \in MemState
      BY <1>0, <3>1 DEF NodeInv, PlaceInv
    <3>3. gms[main[n].peer].proposed_block \in Block
      BY <3>2 DEF MemState
    <3> QED BY <3>3, JsonType
  <2> HIDE DEF tmp
  <2>3. Follows(n, gms[n], h)
    BY <1>0, <2>2, ReplaceType DEF Follows
  <2> HIDE DEF h
  <2> QED BY <2>1, <2>3
<1>5. CASE Propose(n)
  <2> DEFINE empty == [gms[n] EXCEPT !.tx_list = <<>>]
  <2>1. CASE chain(n) = <<>>
    BY <1>1, <1>5, <2>1 DEF Propose
  <2>2. CASE chain(n) # <<>>
    <3>1. PICK byte \in HashBytes :
            gms' \in {[gms EXCEPT ![n] = empty],
                      [gms EXCEPT ![n] = proposed_block_replace(empty, own_block(gms[n], n, byte))]}
      <4>1. PICK byte \in HashBytes :
              LET block == own_block(gms[n], n, byte)
              IN  IF valid(empty, block)
                  THEN gms' = [gms EXCEPT ![n] = proposed_block_replace(empty, block)]
                  ELSE gms' = [gms EXCEPT ![n] = empty]
        BY <1>5, <2>2 DEF Propose
      <4> HIDE DEF empty
      <4> QED BY <4>1
    <3>2. own_block(gms[n], n, byte) \in Block
      BY <1>0, <2>2, OwnBlockType DEF chain
    <3>3. /\ empty \in MemState /\ empty.ready = gms[n].ready
          /\ empty.main_chain_block_list = gms[n].main_chain_block_list
      <4>1. <<>> \in Seq(Tx)
        OBVIOUS
      <4> QED BY <1>0, <4>1 DEF MemState
    <3> HIDE DEF empty
    <3>4. PICK h \in {empty, proposed_block_replace(empty, own_block(gms[n], n, byte))} :
            gms' = [gms EXCEPT ![n] = h]
      BY <3>1
    <3>5. Follows(n, gms[n], h)
      BY <3>2, <3>3, <3>4, ReplaceType DEF Follows
    <3> QED BY <3>4, <3>5
  <2> QED BY <2>1, <2>2
<1>6. CASE Commit(n)
  <2> DEFINE s == block_apply(gms[n], gms[n].proposed_block)
             h == [s EXCEPT !.is_proposal_valid = FALSE]
  <2>1. gms' = [gms EXCEPT ![n] = h]
    BY <1>6 DEF Commit
  <2>2. gms[n].proposed_block \in Block /\ gms[n].ready
    BY <1>0, <1>6 DEF Commit, MemState, NodeInv, PlaceInv
  <2>3. /\ s \in MemState /\ s.ready = gms[n].ready
        /\ s.main_chain_block_list
             = Append(gms[n].main_chain_block_list, gms[n].proposed_block)
    BY <1>0, <2>2, BlockApply
  <2> HIDE DEF s
  <2>4. /\ h \in MemState /\ h.ready = s.ready
        /\ h.main_chain_block_list = s.main_chain_block_list
    BY <2>3 DEF MemState
  <2> HIDE DEF h
  <2>5. Follows(n, gms[n], h)
    BY <2>2, <2>3, <2>4 DEF Follows
  <2> QED BY <2>1, <2>5
<1>7. CASE Transfer(n)
  <2>1. PICK list : gms' = [gms EXCEPT ![n].tx_list = list] /\ list \in Seq(Tx)
    <3>1. PICK tx \in Tx : gms' = [gms EXCEPT ![n].tx_list = <<tx>>]
      BY <1>7, TransferEffect
    <3>2. <<tx>> \in Seq(Tx)
      OBVIOUS
    <3> QED BY <3>1, <3>2
  <2> DEFINE h == [gms[n] EXCEPT !.tx_list = list]
  <2>2. gms' = [gms EXCEPT ![n] = h]
    BY <2>1
  <2>3. h \in MemState /\ h.ready = gms[n].ready
        /\ h.main_chain_block_list = gms[n].main_chain_block_list
    BY <1>0, <2>1 DEF MemState
  <2> HIDE DEF h
  <2> QED BY <2>2, <2>3 DEF Follows
<1>8. LoopHead(n) \/ AskFails(n) \/ DownloadEnd(n) \/ Branch(n) \/ Subtick(n) => UNCHANGED gms
  BY DEF LoopHead, AskFails, DownloadEnd, Branch, Subtick
<1> QED BY <1>1, <1>2, <1>3, <1>4, <1>5, <1>6, <1>7, <1>8 DEF MainThread

\* The seed is not restarted, and it has the network to itself but for one node.
Pair == Seed \notin Unsteady /\ \E joiner : Nodes = {Seed, joiner}

PrefixInv == gms[Seed].ready /\ PrefixUntilReady

\* With one node only, it can fetch from the seed alone; among more, a node that is
\* ready with another chain may be its peer (the run net_agree shows such chains).
LEMMA PrefixStep ==
    ASSUME Pair, NetInv, PrefixInv, [Next]_vars PROVE PrefixInv'
<1>0. /\ Seed \in Nodes /\ \A n \in Nodes : gms[n] \in MemState /\ chain(n) \in Seq(Block)
      /\ gms \in [Nodes -> MemState]
  BY NetworkAssumption DEF NetInv, TypeInv, NodeInv, MemState, chain
<1>1. CASE UNCHANGED vars
  BY <1>1 DEF vars, PrefixInv, PrefixUntilReady, chain
<1>2. ASSUME NEW n \in Nodes, Restart(n) PROVE PrefixInv'
  <2>1. n # Seed /\ gms' = [gms EXCEPT ![n] = NewState]
    <3>1. n # Seed
      BY <1>2 DEF Pair, Restart
    <3>2. StartState(n) = {NewState}
      BY <3>1 DEF StartState
    <3> QED BY <1>2, <3>1, <3>2 DEF Restart
  <2>2. gms'[n] = NewState /\ \A m \in Nodes \ {n} : gms'[m] = gms[m]
    BY <1>0, <2>1
  <2>3. NewState.main_chain_block_list = <<>>
    BY DEF NewState
  <2>4. IsPrefix(<<>>, chain(Seed))
    BY <1>0, EmptyPrefix
  <2> QED BY <1>0, <2>1, <2>2, <2>3, <2>4 DEF PrefixInv, PrefixUntilReady, chain
<1>3. ASSUME NEW n \in Nodes, MainThread(n) \/ Transfer(n) PROVE PrefixInv'
  <2>1. PICK h : gms' = [gms EXCEPT ![n] = h] /\ Follows(n, gms[n], h)
    BY <1>3, StepFollows
  <2>2. gms'[n] = h /\ \A m \in Nodes \ {n} : gms'[m] = gms[m]
    BY <1>0, <2>1
  <2>3. gms'[Seed].ready
    BY <1>0, <2>1, <2>2 DEF Follows, PrefixInv
  \* The seed goes on while the other node is not ready.
  <2>4. CASE n = Seed
    <3>1. ASSUME NEW m \in Nodes, ~gms'[m].ready
          PROVE  IsPrefix(chain(m)', chain(Seed)')
      <4>1. m # Seed /\ chain(m)' = chain(m) /\ IsPrefix(chain(m), chain(Seed))
            /\ chain(Seed)' = h.main_chain_block_list
        BY <2>2, <2>3, <2>4, <3>1 DEF PrefixInv, PrefixUntilReady, chain
      <4>2. \/ h.main_chain_block_list = chain(Seed)
            \/ \E b \in Block : h.main_chain_block_list = Append(chain(Seed), b)
        BY <2>1, <2>4 DEF Follows, chain
      <4> QED BY <1>0, <4>1, <4>2, PrefixGrows
    <3> QED BY <2>3, <3>1 DEF PrefixInv, PrefixUntilReady
  \* The other node takes the next block of the seed, as it is.
  <2>5. CASE n # Seed
    <3>1. ASSUME NEW m \in Nodes, ~gms'[m].ready
          PROVE  IsPrefix(chain(m)', chain(Seed)')
      <4>1. chain(Seed)' = chain(Seed)
        BY <1>0, <2>2, <2>5 DEF chain
      <4>2. CASE m # n
        BY <2>2, <3>1, <4>1, <4>2 DEF PrefixInv, PrefixUntilReady, chain
      <4>3. CASE m = n
        <5>1. ~gms[n].ready /\ IsPrefix(chain(n), chain(Seed))
              /\ chain(n)' = h.main_chain_block_list
          BY <2>1, <2>2, <3>1, <4>3 DEF Follows, PrefixInv, PrefixUntilReady, chain
        <5>2. CASE h.main_chain_block_list = chain(n)
          BY <4>1, <4>3, <5>1, <5>2
        <5>3. ASSUME NEW b \in Block, Fetched(n, b),
                     h.main_chain_block_list = Append(chain(n), b)
              PROVE  IsPrefix(chain(n)', chain(Seed))
          <6>1. main[n].peer = Seed /\ main[n].bh = Len(chain(n))
            BY <2>5, <5>3 DEF Pair, Fetched, NetInv, NodeInv, PlaceInv, chain
          <6>2. /\ Len(chain(n)) < Len(chain(Seed)) /\ chain(Seed)[Len(chain(n)) + 1] \in Block
                /\ b = over_json(chain(Seed)[Len(chain(n)) + 1]) /\ valid(gms[n], b)
            BY <1>0, <5>3, <6>1 DEF Fetched
          <6>3. b = chain(Seed)[Len(chain(n)) + 1]
            BY <6>2, JsonBlock
          <6> QED BY <1>0, <5>1, <5>3, <6>2, <6>3, PrefixGrows
        <5> QED BY <2>1, <4>1, <4>3, <5>1, <5>2, <5>3 DEF Follows, chain
      <4> QED BY <4>2, <4>3
    <3> QED BY <2>3, <3>1 DEF PrefixInv, PrefixUntilReady
  <2> QED BY <2>4, <2>5
<1> QED BY <1>1, <1>2, <1>3 DEF Next

\* A node that joins holds, at every moment until it is ready, the beginning of the
\* chain of the seed, which goes on meanwhile, whatever restarts and failed calls
\* interrupt the download.
THEOREM JoinerFollowsSeed ==
    ASSUME Pair PROVE Spec => []PrefixUntilReady
<1>1. Init => PrefixInv
  <2> SUFFICES ASSUME Init PROVE PrefixInv
    OBVIOUS
  <2>1. \A n \in Nodes : gms[n] \in StartState(n)
    BY DEF Init
  <2>2. gms[Seed].ready /\ chain(Seed) \in Seq(Block)
    BY <2>1, NetworkAssumption, GmsInit DEF StartState, MemState, chain
  <2>3. ASSUME NEW n \in Nodes, ~gms[n].ready PROVE IsPrefix(chain(n), chain(Seed))
    <3>1. gms[n] = NewState
      BY <2>1, <2>2, <2>3 DEF StartState
    <3>2. chain(n) = <<>>
      BY <3>1 DEF chain, NewState
    <3> QED BY <2>2, <3>2, EmptyPrefix
  <2> QED BY <2>2, <2>3 DEF PrefixInv, PrefixUntilReady
<1>2. NetInv /\ PrefixInv /\ [Next]_vars => PrefixInv'
  BY PrefixStep
<1>3. PrefixInv => PrefixUntilReady
  BY DEF PrefixInv
<1> QED BY <1>1, <1>2, <1>3, NetworkInductive, PTL DEF Spec
=============================================================================
