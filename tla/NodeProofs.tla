----------------------------- MODULE NodeProofs -----------------------------
(***************************************************************************)
(* Proofs about Node for all values of its constants: any number of        *)
(* handler threads, any requests, any peers, any bounds.                   *)
(***************************************************************************)
EXTENDS NodeAudit, LedgerProofs, Recursion

-----------------------------------------------------------------------------
(* What block_apply writes *)

LEMMA ConstantTypes ==
    /\ U32 \in Nat /\ 0 \in Word /\ 1 \in Word /\ 2 \in Word
    /\ NoKey \in Keys /\ MyKey \in Keys
    /\ SubTicks \in Nat /\ DownloadLimit \in Nat
    /\ EmptyBlock \in Block /\ NullTx \in Tx
<1>1. NoSign \in Signs /\ NoTail \in Tails
  BY LedgerConstants
<1>2. NullTx \in Tx
  BY <1>1, LedgerConstants DEF NullTx, Tx
<1> QED
  BY <1>2, LedgerConstants, NodeAssumption DEF Keys

LEMMA AppliedType == TypeOK => applied \in Block
BY DEF TypeOK, applied

LEMMA ForgetType ==
    Forget => /\ {bh', remote', limit'} \subseteq Nat /\ tmp' \in Block
              /\ txs' \in Seq(Tx) /\ pos' \in Nat \ {0}
BY ConstantTypes DEF Forget

\* The balances and owners that applying a block writes
LEMMA ApplyTxEffect ==
    ASSUME TypeOK, ApplyTx
    PROVE  /\ balance' \in Seq(Word) /\ Len(balance') = Len(balance)
           /\ a2pk' \in Seq(Keys) /\ Len(a2pk') = Len(a2pk)
<1>1. PICK tx \in {txs[pos]} \cup
             {applied.tx_list[i] : i \in {pos} \cap DOMAIN applied.tx_list} :
        \/ balance' = tx_apply_balance(tx, balance) /\ a2pk' = tx_apply_owner(tx, a2pk)
        \/ UNCHANGED <<balance, a2pk>>
  BY DEF ApplyTx
<1>2. applied.tx_list \in Seq(Tx) /\ txs[pos] \in Tx
  BY AppliedType, BlockFields DEF ApplyTx, TypeOK
<1>3. tx \in Tx
  BY <1>1, <1>2
<1> QED
  BY <1>1, <1>3, ApplyTypes DEF TypeOK

LEMMA ApplyRewardEffect ==
    ASSUME TypeOK, ApplyReward
    PROVE  balance' \in Seq(Word) /\ Len(balance') = Len(balance)
<1>1. reward(applied) \in Int /\ applied.issuer_addr \in Nat
  BY AppliedType, BlockFields, RewardType, LedgerAssumption DEF Word
<1> QED
  BY <1>1, CreditType DEF ApplyReward, TypeOK

-----------------------------------------------------------------------------
(* Type correctness, action by action *)

LEMMA InitType == Init => TypeOK
<1> SUFFICES ASSUME Init PROVE TypeOK
  OBVIOUS
<1>1. a2pk \in Seq(Keys) /\ balance \in Seq(Word)
  <2>1. GenesisBalance \in Int /\ mining_reward \in Int
    BY LedgerAssumption, NodeAssumption DEF Word
  <2>2. Plus(GenesisBalance, mining_reward) \in Word
    BY <2>1, PlusType
  <2>3. <<Plus(GenesisBalance, mining_reward)>> \in Seq(Word)
    BY <2>2
  <2>4. penalised(<<Plus(GenesisBalance, mining_reward)>>) \in Seq(Word)
    BY <2>3, PenalisedType
  <2>5. Append(penalised(<<Plus(GenesisBalance, mining_reward)>>), 0) \in Seq(Word)
    BY <2>4, ConstantTypes
  <2>6. <<MyKey, MyKey>> \in Seq(Keys)
    BY ConstantTypes
  <2>7. CASE Seed
    BY <2>5, <2>6, <2>7 DEF Init
  <2>8. CASE ~Seed
    BY <2>8 DEF Init
  <2> QED
    BY <2>7, <2>8
<1>2. main_chain_block_list \in Seq(Block)
  <2>1. [EmptyBlock EXCEPT !.issuer_pub_key = MyKey] \in Block
    BY ConstantTypes DEF Block
  <2>2. \A byte \in HashBytes : GenesisBlock(byte) \in Block
    BY <2>1, SignBlock, ConstantTypes DEF GenesisBlock
  <2>3. CASE Seed
    <3>1. PICK byte \in HashBytes : main_chain_block_list = <<GenesisBlock(byte)>>
      BY <2>3 DEF Init
    <3> QED
      BY <2>2, <3>1
  <2>4. CASE ~Seed
    BY <2>4 DEF Init
  <2> QED
    BY <2>3, <2>4
<1>3. thread \in [Handlers -> [at : {"idle", "load", "store", "set_flag",
                                   "set_block", "set_pub", "set_prv"},
                              tx : Tx, seen : Seq(Tx), block : Block,
                              address : Word, key : Keys, prv : Keys]]
  BY ConstantTypes DEF Init, Resting
<1>4. {ready, is_proposal_valid, work} \subseteq BOOLEAN
  BY NodeAssumption DEF Init
<1> QED
  BY <1>1, <1>2, <1>3, <1>4, ConstantTypes DEF Init, TypeOK

\* The own block, signed and weighed, is a block with the same issuer and id,
\* and its transactions differ in what follows them only.
LEMMA SealedBlock ==
    ASSUME NEW block \in Block, NEW byte \in HashBytes,
           NEW pub \in Keys, NEW prv \in Keys, NEW sealed,
           sealed = block_weight_calc(block_sign(block, pub, prv, byte))
    PROVE  /\ sealed \in Block
           /\ sealed.issuer_addr = block.issuer_addr
           /\ sealed.issuer_pub_key = block.issuer_pub_key
           /\ sealed.id = block.id
           /\ sealed.sign = signature(pub, prv)
           /\ Len(sealed.tx_list) = Len(block.tx_list)
           /\ \A i \in 1 .. Len(block.tx_list) :
                  sealed.tx_list[i] = [block.tx_list[i] EXCEPT !.tail = Weighed(@)]
<1> DEFINE signed == block_sign(block, pub, prv, byte)
<1>1. signed \in Block
  BY SignBlock
<1>2. /\ signed.issuer_addr = block.issuer_addr
      /\ signed.issuer_pub_key = block.issuer_pub_key
      /\ signed.id = block.id /\ signed.sign = signature(pub, prv)
      /\ signed.tx_list = block.tx_list
  BY DEF block_sign, Block
<1> HIDE DEF signed
<1>3. /\ sealed \in Block
      /\ sealed = [signed EXCEPT !.tx_list = sealed.tx_list]
      /\ Len(sealed.tx_list) = Len(signed.tx_list)
      /\ \A i \in 1 .. Len(signed.tx_list) :
             sealed.tx_list[i] = [signed.tx_list[i] EXCEPT !.tail = Weighed(@)]
  BY <1>1, WeighBlock DEF signed
<1>4. /\ sealed.issuer_addr = signed.issuer_addr
      /\ sealed.issuer_pub_key = signed.issuer_pub_key
      /\ sealed.id = signed.id /\ sealed.sign = signed.sign
  BY <1>1, <1>3 DEF Block
<1> QED
  BY <1>2, <1>3, <1>4

LEMMA SealType == ASSUME TypeOK, Seal PROVE tmp' \in Block
BY SealedBlock DEF Seal, TypeOK

LEMMA SealFields ==
    ASSUME TypeOK, Seal
    PROVE  /\ tmp'.issuer_addr = tmp.issuer_addr
           /\ tmp'.issuer_pub_key = tmp.issuer_pub_key
           /\ tmp'.id = tmp.id
           /\ tmp'.sign = signature(my_pub_key, my_prv_key)
           /\ Len(tmp'.tx_list) = Len(tmp.tx_list)
           /\ \A i \in 1 .. Len(tmp.tx_list) :
                  tmp'.tx_list[i] = [tmp.tx_list[i] EXCEPT !.tail = Weighed(@)]
<1>1. PICK byte \in HashBytes :
        tmp' = block_weight_calc(block_sign(tmp, my_pub_key, my_prv_key, byte))
  BY DEF Seal
<1>2. tmp \in Block /\ my_pub_key \in Keys /\ my_prv_key \in Keys
  BY DEF TypeOK
<1> QED
  BY <1>1, <1>2, SealedBlock

LEMMA MainType == TypeOK /\ MainThread => TypeOK'
<1> SUFFICES ASSUME TypeOK, MainThread PROVE TypeOK'
  OBVIOUS
<1> USE DEF TypeOK, MainThread, ledger, proposal, identity, locals, goto, after,
            Downloading, Applying
<1>1. CASE LoopHead
  BY <1>1, ConstantTypes, ForgetType DEF LoopHead
<1>2. CASE Branch
  BY <1>2, ConstantTypes, ForgetType DEF Branch
<1>3. CASE Tick
  BY <1>3, ConstantTypes DEF Tick
<1>4. CASE Commit
  <2>1. proposed_block.tx_list \in Seq(Tx)
    BY BlockFields
  <2> QED
    BY <1>4, <2>1 DEF Commit
<1>5. CASE Reset
  BY <1>5, ConstantTypes, ForgetType DEF Reset
<1>6. CASE AskNobody
  BY <1>6, ConstantTypes, ForgetType DEF AskNobody
<1>7. CASE AskHeight
  <2>1. {bh', remote', limit'} \subseteq Nat
    BY <1>7, ConstantTypes, NodeAssumption DEF AskHeight
  <2>2. ready' \in BOOLEAN /\ pc' \in {"ask_proposal", "download"}
    BY <1>7 DEF AskHeight
  <2> QED
    BY <1>7, <2>1, <2>2 DEF AskHeight
<1>8. CASE DownloadEnd
  BY <1>8, ConstantTypes, ForgetType DEF DownloadEnd
<1>9. CASE Download
  <2>1. tmp' \in Block /\ txs' \in Seq(Tx)
    <3>1. PICK block \in PeerBlocks : tmp' = over_json(block) /\ txs' = tmp'.tx_list
      BY <1>9 DEF Download
    <3>2. tmp' \in Block
      BY <3>1, JsonType, NodeAssumption
    <3> QED
      BY <3>1, <3>2, BlockFields
  <2>2. limit' \in Nat
    BY <1>9 DEF Download
  <2> QED
    BY <1>9, <2>1, <2>2 DEF Download
<1>10. CASE GenesisKey
  <2>1. a2pk' \in Seq(Keys)
    BY <1>10, BlockFields DEF GenesisKey
  <2> QED
    BY <1>10, <2>1 DEF GenesisKey
<1>11. CASE GenesisCoins
  <2>1. balance' \in Seq(Word)
    BY <1>11, ConstantTypes, NodeAssumption DEF GenesisCoins
  <2> QED
    BY <1>11, <2>1 DEF GenesisCoins
<1>12. CASE AskProposal
  <2>1. CASE UNCHANGED <<bh, remote, limit, txs, pos>> /\ pc' = "test"
             /\ \E block \in PeerProposals : tmp' = over_json(block)
    <3>1. tmp' \in Block
      BY <2>1, JsonType, NodeAssumption
    <3> QED
      BY <1>12, <2>1, <3>1 DEF AskProposal
  <2>2. CASE pc' = after /\ Forget
    BY <1>12, <2>2, ForgetType DEF AskProposal
  <2> QED
    BY <1>12, <2>1, <2>2 DEF AskProposal
<1>13. CASE Propose
  <2>1. tmp' \in Block
    <3>1. CASE main_chain_block_list = <<>>
      BY <1>13, <3>1 DEF Propose
    <3>2. CASE main_chain_block_list # <<>>
      <4>1. last_block \in Block
        BY <3>2 DEF last_block
      <4>2. Plus(last_block.id, 1) \in Word
        BY <4>1, BlockFields, PlusType
      <4> QED
        BY <1>13, <3>2, <4>2, ConstantTypes DEF Propose, Block
    <3> QED
      BY <3>1, <3>2
  <2> QED
    BY <1>13, <2>1 DEF Propose
<1>14. CASE CopyQueue
  <2>1. tmp' \in Block
    BY <1>14 DEF CopyQueue, Block
  <2> QED
    BY <1>14, <2>1 DEF CopyQueue
<1>15. CASE ClearQueue
  BY <1>15, ConstantTypes, ForgetType DEF ClearQueue
<1>16. CASE Seal
  <2>1. tmp' \in Block
    BY <1>16, SealType
  <2> QED
    BY <1>16, <2>1 DEF Seal
<1>17. CASE ReplaceTest
  BY <1>17, ConstantTypes, ForgetType DEF ReplaceTest
<1>18. CASE ReplaceFlag
  BY <1>18, ConstantTypes, ForgetType DEF ReplaceFlag
<1>19. CASE ReplaceBlock
  BY <1>19, ConstantTypes, ForgetType DEF ReplaceBlock
<1>20. CASE ApplyTx
  <2>1. pos' \in Nat \ {0} /\ pc' \in {"apply_tx", "crashed"}
    BY <1>20 DEF ApplyTx
  <2> QED
    BY <1>20, <2>1, ApplyTxEffect DEF ApplyTx
<1>21. CASE ApplyReward
  BY <1>21, ApplyRewardEffect DEF ApplyReward
<1>22. CASE ApplyPenalty
  BY <1>22, PenalisedType DEF ApplyPenalty
<1>23. CASE IssueKey
  <2>1. a2pk' \in Seq(Keys)
    BY <1>23, AppliedType, BlockFields DEF IssueKey
  <2> QED
    BY <1>23, <2>1 DEF IssueKey
<1>24. CASE IssueBalance
  BY <1>24, ConstantTypes, ForgetType DEF IssueBalance
<1>25. CASE AppendBlock
  <2>1. main_chain_block_list' \in Seq(Block)
    BY <1>25, AppliedType DEF AppendBlock
  <2>2. bh' \in Nat
    BY <1>25 DEF AppendBlock
  <2> QED
    BY <1>25, <2>1, <2>2 DEF AppendBlock
<1> QED
  BY <1>1, <1>2, <1>3, <1>4, <1>5, <1>6, <1>7, <1>8, <1>9, <1>10, <1>11, <1>12, <1>13, <1>14, <1>15, <1>16, <1>17, <1>18, <1>19, <1>20, <1>21, <1>22, <1>23, <1>24, <1>25 DEF Ask, ProposeBlock, Replace, ApplyBlock

\* What a handler thread holds between two of its steps
LEMMA ThreadFields ==
    TypeOK => \A h \in Handlers :
                /\ thread[h].tx \in Tx /\ thread[h].seen \in Seq(Tx)
                /\ thread[h].block \in Block /\ thread[h].key \in Keys
                /\ thread[h].prv \in Keys
BY DEF TypeOK

LEMMA HandlerType ==
    ASSUME TypeOK, NEW h \in Handlers, Request(h) \/ Finish(h) PROVE TypeOK'
<1> DEFINE Thread == [at : {"idle", "load", "store", "set_flag", "set_block",
                            "set_pub", "set_prv"},
                      tx : Tx, seen : Seq(Tx), block : Block,
                      address : Word, key : Keys, prv : Keys]
<1>1. thread \in [Handlers -> Thread] /\ Resting \in Thread
  BY ConstantTypes DEF TypeOK, Resting
<1>2. ASSUME thread' \in [Handlers -> Thread], tx_list' \in Seq(Tx),
             is_proposal_valid' \in BOOLEAN, proposed_block' \in Block,
             my_primary_address' \in Word, {my_pub_key', my_prv_key'} \subseteq Keys
      PROVE  TypeOK'
  BY <1>2 DEF TypeOK, Request, Finish, locals, ledger, Downloading, Applying
<1>3. ASSUME NEW signed \in Tx, accept(h, signed) PROVE TypeOK'
  <2>1. thread' \in [Handlers -> Thread]
    <3>1. PICK tail \in Garbage :
            thread' = [thread EXCEPT ![h] =
                [@ EXCEPT !.at = "load", !.tx = [signed EXCEPT !.tail = tail]]]
      BY <1>3 DEF accept
    <3>2. [signed EXCEPT !.tail = tail] \in Tx
      BY LedgerAssumption DEF Tx
    <3> QED
      BY <1>1, <3>1, <3>2
  <2> QED
    BY <1>2, <1>3, <2>1 DEF accept, TypeOK, proposal, identity
<1>4. CASE Transfer(h)
  <2>1. PICK req \in Transfers :
          accept(h, tx_sign([NullTx EXCEPT !.type = 1, !.amount = req.amount,
                                           !.send_addr = req.from,
                                           !.recv_addr = req.to],
                            my_pub_key, my_prv_key))
    BY <1>4 DEF Transfer
  <2>2. [NullTx EXCEPT !.type = 1, !.amount = req.amount,
                       !.send_addr = req.from, !.recv_addr = req.to] \in Tx
    BY ConstantTypes, NodeAssumption DEF Tx
  <2> QED
    BY <1>3, <2>1, <2>2, SignTx, ConstantTypes, LedgerAssumption DEF TypeOK
<1>5. CASE AddressTransfer(h)
  <2>1. PICK req \in AddrTransfers :
          accept(h, tx_sign([NullTx EXCEPT !.type = 2,
                                           !.send_addr = my_primary_address,
                                           !.recv_addr = req.address,
                                           !.bind_pub_key = req.pub_key],
                            my_pub_key, my_prv_key))
    BY <1>5 DEF AddressTransfer
  <2>2. [NullTx EXCEPT !.type = 2, !.send_addr = my_primary_address,
                       !.recv_addr = req.address,
                       !.bind_pub_key = req.pub_key] \in Tx
    BY ConstantTypes, NodeAssumption DEF Tx, TypeOK
  <2> QED
    BY <1>3, <2>1, <2>2, SignTx, ConstantTypes, LedgerAssumption DEF TypeOK
<1>6. CASE TxPush(h)
  BY <1>3, <1>6, NodeAssumption DEF TxPush
<1>7. CASE ProposedBlockPush(h)
  <2>1. PICK block \in PushedBlocks :
          thread' = [thread EXCEPT ![h] =
                        [@ EXCEPT !.at = "set_flag", !.block = over_json(block)]]
    BY <1>7 DEF ProposedBlockPush
  <2>2. over_json(block) \in Block
    BY NodeAssumption, JsonType
  <2>3. thread' \in [Handlers -> Thread]
    BY <1>1, <2>1, <2>2
  <2> QED
    BY <1>2, <1>7, <2>3 DEF ProposedBlockPush, TypeOK, proposal, identity
<1>8. CASE DebugSetKey(h)
  <2>1. PICK req \in KeySwitches :
          /\ thread' = [thread EXCEPT ![h] =
                [@ EXCEPT !.at = "set_pub", !.address = req.address,
                          !.key = req.key, !.prv = req.prv]]
          /\ my_primary_address' = req.address
    BY <1>8 DEF DebugSetKey
  <2>2. req.address \in Word /\ req.key \in Keys /\ req.prv \in Keys
    BY NodeAssumption
  <2>3. thread' \in [Handlers -> Thread]
    BY <1>1, <2>1, <2>2
  <2> QED
    BY <1>2, <1>8, <2>1, <2>2, <2>3 DEF DebugSetKey, TypeOK, proposal
<1>9. CASE PushLoad(h)
  <2>1. thread' \in [Handlers -> Thread]
    BY <1>1, <1>9 DEF PushLoad, TypeOK
  <2> QED
    BY <1>2, <1>9, <2>1 DEF PushLoad, TypeOK, proposal, identity
<1>10. CASE PushStore(h)
  <2>1. tx_list' \in Seq(Tx)
    BY <1>10, ThreadFields DEF PushStore
  <2>2. thread' \in [Handlers -> Thread]
    BY <1>1, <1>10 DEF PushStore
  <2> QED
    BY <1>2, <1>10, <2>1, <2>2 DEF PushStore, TypeOK, proposal, identity
<1>11. CASE PushFlag(h)
  <2>1. thread' \in [Handlers -> Thread]
    BY <1>1, <1>11 DEF PushFlag
  <2> QED
    BY <1>2, <1>11, <2>1 DEF PushFlag, TypeOK, identity
<1>12. CASE PushBlock(h)
  <2>1. thread' \in [Handlers -> Thread]
    BY <1>1, <1>12 DEF PushBlock
  <2>2. proposed_block' \in Block
    BY <1>12, ThreadFields DEF PushBlock
  <2> QED
    BY <1>2, <1>12, <2>1, <2>2 DEF PushBlock, TypeOK, identity
<1>13. CASE SetPubKey(h)
  <2>1. thread' \in [Handlers -> Thread]
    BY <1>1, <1>13 DEF SetPubKey
  <2> QED
    BY <1>2, <1>13, <2>1, ThreadFields DEF SetPubKey, TypeOK, proposal
<1>14. CASE SetPrvKey(h)
  <2>1. thread' \in [Handlers -> Thread]
    BY <1>1, <1>14 DEF SetPrvKey
  <2> QED
    BY <1>2, <1>14, <2>1, ThreadFields DEF SetPrvKey, TypeOK, proposal
<1> QED
  BY <1>4, <1>5, <1>6, <1>7, <1>8, <1>9, <1>10, <1>11, <1>12, <1>13, <1>14
     DEF Request, Finish

LEMMA ShutdownType == TypeOK /\ ShutdownCall => TypeOK'
BY DEF TypeOK, ShutdownCall, ledger, proposal, identity, locals, Downloading,
       Applying

LEMMA StutterType == TypeOK /\ UNCHANGED vars => TypeOK'
BY DEF TypeOK, vars, ledger, proposal, identity, locals, Downloading, Applying

\* Every state of every instance of Node has the types that TypeOK names.
THEOREM TypeCorrect == Spec => []TypeOK
<1>1. TypeOK /\ [Next]_vars => TypeOK'
  BY MainType, HandlerType, ShutdownType, StutterType DEF Next
<1> QED
  BY InitType, <1>1, PTL DEF Spec

-----------------------------------------------------------------------------
(* The inductive invariant.  CommitHasProposal and AccountsMatchChain follow  *)
(* from it, but are not inductive: both depend on whose call the main thread  *)
(* is in, and the second one on the height that net_ask_con read.             *)

\* In net_ask_con before the proposal, and in proposed_block_replace
Asking == {"ask", "download", "ask_proposal"} \cup Downloading
Replacing == {"test", "set_flag", "set_block"}

\* Which calls lead where
CallerInv ==
    /\ pc \in Asking => caller \in {"loop", "tick"}
    /\ pc \in Replacing => caller \in {"loop", "tick", "propose"}
    /\ pc \in {"copy", "clear", "seal"} => caller = "propose"
    /\ pc \in Applying => caller \in {"loop", "tick", "commit"}
    /\ pc = "tick" => caller \in {"tick", "propose"}
    /\ pc = "assert" => caller \in {"tick", "propose"}
    /\ pc = "branch" => caller = "loop"

\* From the own proposal to the reset, the flag is up.
ProposalInv ==
    \/ pc \in {"tick", "assert"}
    \/ caller = "tick" /\ pc \in Asking \cup Replacing \cup Applying
    \/ caller = "propose" /\ pc = "set_block"
    \/ caller = "commit" /\ pc \in Applying
    => is_proposal_valid

\* A call other than the one of the loop head comes from a node with blocks.
ChainInv == caller # "loop" => main_chain_block_list # <<>>

\* bh of net_ask_con is the height until the block fetched is appended, and
\* the genesis account is made before there is a block.
HeightInv ==
  /\ pc \in Downloading => main_chain_block_list = <<>>
  /\ \/ pc \in {"download"} \cup Downloading
     \/ pc \in Applying /\ caller # "commit"
     => bh = Len(main_chain_block_list)

IInv == /\ TypeOK /\ CallerInv /\ ProposalInv /\ ChainInv /\ HeightInv
        /\ AccountsMatchChain

\* The call structure and the flag survive every step of the main thread.
LEMMA MainControl ==
    ASSUME IInv, MainThread PROVE CallerInv' /\ ProposalInv' /\ ChainInv'
<1> USE DEF IInv, CallerInv, ProposalInv, ChainInv, Asking, Replacing, Applying,
            Downloading, MainThread, ledger, proposal, locals, goto, after
<1>1. CASE LoopHead
  BY <1>1 DEF LoopHead
<1>2. CASE Branch
  BY <1>2 DEF Branch
<1>3. CASE Tick
  BY <1>3 DEF Tick
<1>4. CASE Commit
  BY <1>4 DEF Commit
<1>5. CASE Reset
  BY <1>5 DEF Reset
<1>6. CASE AskNobody
  BY <1>6 DEF AskNobody
<1>7. CASE AskHeight
  BY <1>7 DEF AskHeight
<1>8. CASE DownloadEnd
  BY <1>8 DEF DownloadEnd
<1>9. CASE Download
  BY <1>9 DEF Download
<1>10. CASE GenesisKey
  BY <1>10 DEF GenesisKey
<1>11. CASE GenesisCoins
  BY <1>11 DEF GenesisCoins
<1>12. CASE AskProposal
  BY <1>12 DEF AskProposal
<1>13. CASE Propose
  BY <1>13 DEF Propose
<1>14. CASE CopyQueue
  BY <1>14 DEF CopyQueue
<1>15. CASE ClearQueue
  BY <1>15 DEF ClearQueue
<1>16. CASE Seal
  BY <1>16 DEF Seal
<1>17. CASE ReplaceTest
  BY <1>17 DEF ReplaceTest, beats
<1>18. CASE ReplaceFlag
  BY <1>18 DEF ReplaceFlag
<1>19. CASE ReplaceBlock
  BY <1>19 DEF ReplaceBlock
<1>20. CASE ApplyTx
  BY <1>20 DEF ApplyTx
<1>21. CASE ApplyReward
  BY <1>21 DEF ApplyReward
<1>22. CASE ApplyPenalty
  BY <1>22 DEF ApplyPenalty
<1>23. CASE IssueKey
  BY <1>23 DEF IssueKey
<1>24. CASE IssueBalance
  BY <1>24 DEF IssueBalance
<1>25. CASE AppendBlock
  <2>1. main_chain_block_list' # <<>>
    BY <1>25 DEF AppendBlock, TypeOK
  <2> QED
    BY <1>25, <2>1 DEF AppendBlock
<1> QED
  BY <1>1, <1>2, <1>3, <1>4, <1>5, <1>6, <1>7, <1>8, <1>9, <1>10, <1>11, <1>12, <1>13,
     <1>14, <1>15, <1>16, <1>17, <1>18, <1>19, <1>20, <1>21, <1>22, <1>23, <1>24, <1>25
     DEF Ask, ProposeBlock, Replace, ApplyBlock

\* So does the count of accounts, whatever the block.
LEMMA MainAccounts ==
    ASSUME IInv, MainThread PROVE HeightInv' /\ AccountsMatchChain'
<1> USE DEF IInv, CallerInv, ChainInv, HeightInv, AccountsMatchChain, Issued,
            Asking, Replacing, Applying, Downloading, MainThread, ledger,
            proposal, locals, goto, after
<1>0. /\ a2pk \in Seq(Keys) /\ balance \in Seq(Word)
      /\ main_chain_block_list \in Seq(Block)
  BY DEF TypeOK
<1>1. CASE LoopHead
  BY <1>0, <1>1 DEF LoopHead
<1>2. CASE Branch
  BY <1>0, <1>2 DEF Branch
<1>3. CASE Tick
  BY <1>0, <1>3 DEF Tick
<1>4. CASE Commit
  BY <1>0, <1>4 DEF Commit
<1>5. CASE Reset
  BY <1>0, <1>5 DEF Reset
<1>6. CASE AskNobody
  BY <1>0, <1>6 DEF AskNobody
<1>7. CASE AskHeight
  BY <1>0, <1>7 DEF AskHeight
<1>8. CASE DownloadEnd
  BY <1>0, <1>8 DEF DownloadEnd
<1>9. CASE Download
  <2>1. bh = Len(main_chain_block_list)
    BY <1>9 DEF Download
  <2>2. bh = 0 <=> main_chain_block_list = <<>>
    BY <1>0, <2>1
  <2> QED
    BY <1>0, <1>9, <2>2 DEF Download
<1>10. CASE GenesisKey
  BY <1>0, <1>10 DEF GenesisKey
<1>11. CASE GenesisCoins
  <2>1. Len(balance') = Len(balance) + 1
    BY <1>0, <1>11 DEF GenesisCoins
  <2>2. main_chain_block_list = <<>>
    BY <1>11 DEF GenesisCoins
  <2> QED
    BY <1>0, <1>11, <2>1, <2>2 DEF GenesisCoins
<1>12. CASE AskProposal
  BY <1>0, <1>12 DEF AskProposal
<1>13. CASE Propose
  BY <1>0, <1>13 DEF Propose
<1>14. CASE CopyQueue
  BY <1>0, <1>14 DEF CopyQueue
<1>15. CASE ClearQueue
  BY <1>0, <1>15 DEF ClearQueue
<1>16. CASE Seal
  BY <1>0, <1>16 DEF Seal
<1>17. CASE ReplaceTest
  BY <1>0, <1>17 DEF ReplaceTest
<1>18. CASE ReplaceFlag
  BY <1>0, <1>18 DEF ReplaceFlag
<1>19. CASE ReplaceBlock
  BY <1>0, <1>19 DEF ReplaceBlock
<1>20. CASE ApplyTx
  <2>1. Len(balance') = Len(balance) /\ Len(a2pk') = Len(a2pk)
    BY <1>20, ApplyTxEffect
  <2> QED
    BY <1>0, <1>20, <2>1 DEF ApplyTx
<1>21. CASE ApplyReward
  <2>1. Len(balance') = Len(balance)
    BY <1>21, ApplyRewardEffect
  <2> QED
    BY <1>0, <1>21, <2>1 DEF ApplyReward
<1>22. CASE ApplyPenalty
  <2>1. Len(balance') = Len(balance)
    BY <1>0, <1>22, PenalisedType DEF ApplyPenalty
  <2> QED
    BY <1>0, <1>22, <2>1 DEF ApplyPenalty
<1>23. CASE IssueKey
  BY <1>0, <1>23 DEF IssueKey
<1>24. CASE IssueBalance
  <2>1. Len(balance') = Len(balance) + 1
    BY <1>0, <1>24, ConstantTypes DEF IssueBalance
  <2> QED
    BY <1>0, <1>24, <2>1, SMTT(30) DEF IssueBalance
<1>25. CASE AppendBlock
  <2>1. Len(main_chain_block_list') = Len(main_chain_block_list) + 1
        /\ main_chain_block_list' # <<>>
    BY <1>0, <1>25 DEF AppendBlock
  <2>2. main_chain_block_list = <<>> <=> Len(main_chain_block_list) = 0
    BY <1>0
  <2>3. UNCHANGED <<a2pk, balance>>
    BY <1>25 DEF AppendBlock
  <2>4. CASE caller = "commit"
    BY <1>25, <2>1, <2>3, <2>4 DEF AppendBlock
  <2>5. CASE caller # "commit"
    <3>1. CASE main_chain_block_list = <<>>
      BY <1>25, <2>1, <2>2, <2>3, <2>5, <3>1 DEF AppendBlock
    <3>2. CASE main_chain_block_list # <<>>
      BY <1>25, <2>1, <2>2, <2>3, <2>5, <3>2 DEF AppendBlock
    <3> QED
      BY <3>1, <3>2
  <2> QED
    BY <2>4, <2>5
<1> QED
  BY <1>1, <1>2, <1>3, <1>4, <1>5, <1>6, <1>7, <1>8, <1>9, <1>10, <1>11, <1>12, <1>13,
     <1>14, <1>15, <1>16, <1>17, <1>18, <1>19, <1>20, <1>21, <1>22, <1>23, <1>24, <1>25
     DEF Ask, ProposeBlock, Replace, ApplyBlock

\* A handler does not take the flag down.
LEMMA HandlerFlag ==
    ASSUME NEW h \in Handlers, Request(h) \/ Finish(h)
    PROVE  is_proposal_valid' = is_proposal_valid \/ is_proposal_valid' = TRUE
<1>1. CASE PushFlag(h)
  BY <1>1 DEF PushFlag
<1>2. CASE PushBlock(h)
  BY <1>2 DEF PushBlock
<1>3. ASSUME NEW tx, accept(h, tx) PROVE UNCHANGED proposal
  BY <1>3 DEF accept
<1>4. Request(h) => UNCHANGED proposal
  BY <1>3 DEF Request, Transfer, AddressTransfer, TxPush,
              ProposedBlockPush, DebugSetKey
<1>5. PushLoad(h) \/ PushStore(h) \/ SetPubKey(h) \/ SetPrvKey(h)
      => UNCHANGED proposal
  BY DEF PushLoad, PushStore, SetPubKey, SetPrvKey
<1>6. UNCHANGED proposal => is_proposal_valid' = is_proposal_valid
  BY DEF proposal
<1> QED
  BY <1>1, <1>2, <1>4, <1>5, <1>6 DEF Finish

\* The handlers, the shutdown call and stuttering leave all this alone; they
\* can only raise the flag.
LEMMA OtherSteps ==
    ASSUME IInv,
           \/ \E h \in Handlers : Request(h) \/ Finish(h)
           \/ ShutdownCall
           \/ UNCHANGED vars
    PROVE  CallerInv' /\ ProposalInv' /\ ChainInv' /\ HeightInv' /\ AccountsMatchChain'
<1>1. /\ UNCHANGED <<pc, caller, bh, main_chain_block_list, a2pk, balance>>
      /\ is_proposal_valid => is_proposal_valid'
  <2>1. ASSUME NEW h \in Handlers, Request(h) \/ Finish(h)
        PROVE  /\ UNCHANGED <<pc, caller, bh, main_chain_block_list, a2pk, balance>>
               /\ is_proposal_valid => is_proposal_valid'
    <3>1. UNCHANGED <<pc, caller, bh, main_chain_block_list, a2pk, balance>>
      BY <2>1 DEF Request, Finish, locals, ledger
    <3>2. is_proposal_valid' = is_proposal_valid \/ is_proposal_valid' = TRUE
      BY <2>1, HandlerFlag
    <3>3. is_proposal_valid => is_proposal_valid'
      BY <3>2
    <3> QED
      BY <3>1, <3>3
  <2>2. CASE ShutdownCall
    BY <2>2 DEF ShutdownCall, locals, ledger, proposal
  <2>3. CASE UNCHANGED vars
    BY <2>3 DEF vars, locals, ledger, proposal
  <2> QED
    BY <2>1, <2>2, <2>3
<1> QED
  BY <1>1 DEF IInv, CallerInv, ProposalInv, ChainInv, HeightInv,
              AccountsMatchChain, Issued

LEMMA InitInv == Init => IInv
<1> SUFFICES ASSUME Init PROVE IInv
  OBVIOUS
<1>1. TypeOK /\ CallerInv /\ ProposalInv /\ ChainInv /\ HeightInv
  BY InitType DEF Init, CallerInv, ProposalInv, ChainInv, HeightInv, Asking,
                  Replacing, Applying, Downloading
<1>2. AccountsMatchChain
  <2>1. CASE Seed
    <3>1. PICK byte \in HashBytes :
            /\ main_chain_block_list = <<GenesisBlock(byte)>>
            /\ a2pk = <<MyKey, MyKey>>
            /\ balance = Append(penalised(<<Plus(GenesisBalance, mining_reward)>>), 0)
      BY <2>1 DEF Init
    <3>2. GenesisBalance \in Int /\ mining_reward \in Int
      BY LedgerAssumption, NodeAssumption DEF Word
    <3>3. Len(balance) = 2
      <4>1. <<Plus(GenesisBalance, mining_reward)>> \in Seq(Word)
        BY <3>2, PlusType
      <4>2. /\ penalised(<<Plus(GenesisBalance, mining_reward)>>) \in Seq(Word)
            /\ Len(penalised(<<Plus(GenesisBalance, mining_reward)>>)) = 1
        BY <4>1, PenalisedType
      <4> QED
        BY <3>1, <4>2, ConstantTypes
    <3>4. Len(a2pk) = 2 /\ Len(main_chain_block_list) = 1
          /\ main_chain_block_list # <<>>
      BY <3>1
    <3> QED
      BY <3>3, <3>4 DEF AccountsMatchChain, Issued, Init, Applying
  <2>2. CASE ~Seed
    BY <2>2 DEF Init, AccountsMatchChain, Issued, Applying
  <2> QED
    BY <2>1, <2>2
<1> QED
  BY <1>1, <1>2 DEF IInv

LEMMA InductiveStep == ASSUME IInv, [Next]_vars PROVE IInv'
<1>1. TypeOK'
  BY MainType, HandlerType, ShutdownType, StutterType DEF IInv, Next
<1>2. CASE MainThread
  BY <1>1, <1>2, MainControl, MainAccounts DEF IInv
<1>3. CASE ~MainThread
  BY <1>1, <1>3, OtherSteps DEF IInv, Next
<1> QED
  BY <1>2, <1>3

THEOREM Inductive == Spec => []IInv
BY InitInv, InductiveStep, PTL DEF Spec

\* The assertion of main.cpp before the commit holds in every instance.
THEOREM AssertionHolds == Spec => []CommitHasProposal
<1>1. IInv => CommitHasProposal
  BY DEF IInv, ProposalInv, CommitHasProposal
<1> QED
  BY <1>1, Inductive, PTL

\* a2pk and balance have exactly the accounts that the chain has issued, and
\* drift apart only while a block is being applied.
THEOREM AccountsInStep == Spec => []AccountsMatchChain
<1>1. IInv => AccountsMatchChain
  BY DEF IInv
<1> QED
  BY <1>1, Inductive, PTL

-----------------------------------------------------------------------------
(* Refinement: a node implements the append-only log. *)

\* Only Reset takes the flag down.
LEMMA FlagStays ==
    ASSUME [Next]_vars, ~Reset, is_proposal_valid PROVE is_proposal_valid'
<1>1. is_proposal_valid' = is_proposal_valid \/ is_proposal_valid' = TRUE
  <2>1. CASE MainThread
    BY <2>1 DEF MainThread, LoopHead, Branch, Tick, Commit, Ask, AskNobody,
         AskHeight, DownloadEnd, Download, GenesisKey, GenesisCoins, AskProposal,
         ProposeBlock, Propose, CopyQueue, ClearQueue, Seal, Replace,
         ReplaceTest, ReplaceFlag, ReplaceBlock, ApplyBlock, ApplyTx,
         ApplyReward, ApplyPenalty, IssueKey, IssueBalance,
         AppendBlock, proposal
  <2>2. CASE ShutdownCall \/ UNCHANGED vars
    BY <2>2 DEF ShutdownCall, vars, proposal
  <2>3. ASSUME NEW h \in Handlers, Request(h) \/ Finish(h)
        PROVE  is_proposal_valid' = is_proposal_valid \/ is_proposal_valid' = TRUE
    BY <2>3, HandlerFlag
  <2> QED
    BY <2>1, <2>2, <2>3 DEF Next
<1> QED
  BY <1>1

\* Only AppendBlock leads to the reset.
LEMMA ResetComes ==
    ASSUME [Next]_vars, ~AppendBlock, pc' = "reset" PROVE pc = "reset"
<1>1. CASE MainThread
  BY <1>1 DEF MainThread, LoopHead, Branch, Tick, Commit, Reset, Ask, AskNobody,
         AskHeight, DownloadEnd, Download, GenesisKey, GenesisCoins, AskProposal,
         ProposeBlock, Propose, CopyQueue, ClearQueue, Seal, Replace,
         ReplaceTest, ReplaceFlag, ReplaceBlock, ApplyBlock, ApplyTx,
         ApplyReward, ApplyPenalty, IssueKey, IssueBalance,
       goto, after
<1>2. CASE ~MainThread
  BY <1>2 DEF Next, Request, Finish, ShutdownCall, vars
<1> QED
  BY <1>1, <1>2

\* Every other step leaves the log as it is and, if it touches the proposal at
\* all, is a Propose of the log.
LEMMA StandingSteps ==
    ASSUME IInv, [Next]_vars, ~AppendBlock
    PROVE  /\ UNCHANGED main_chain_block_list
           /\ UNCHANGED standing \/ Log!Propose
<1>1. TypeOK'
  BY MainType, HandlerType, ShutdownType, StutterType DEF IInv, Next
<1>2. UNCHANGED main_chain_block_list
  <2>1. CASE MainThread
    BY <2>1 DEF MainThread, LoopHead, Branch, Tick, Commit, Reset, Ask, AskNobody,
         AskHeight, DownloadEnd, Download, GenesisKey, GenesisCoins, AskProposal,
         ProposeBlock, Propose, CopyQueue, ClearQueue, Seal, Replace,
         ReplaceTest, ReplaceFlag, ReplaceBlock, ApplyBlock, ApplyTx,
         ApplyReward, ApplyPenalty, IssueKey, IssueBalance, ledger
  <2>2. CASE ~MainThread
    BY <2>2 DEF Next, Request, Finish, ShutdownCall, vars, ledger
  <2> QED
    BY <2>1, <2>2
<1>3. standing' = <<>> \/ standing' = <<proposed_block'>>
  BY DEF standing
<1>4. <<proposed_block'>> \in Seq(Block) /\ Len(<<proposed_block'>>) = 1
  BY <1>1 DEF TypeOK
<1>5. standing' = <<>> => standing = <<>>
  <2>1. CASE Reset
    BY <2>1 DEF Reset, goto, standing
  <2>2. CASE ~Reset
    <3>1. is_proposal_valid => is_proposal_valid'
      BY <2>2, FlagStays
    <3>2. pc' = "reset" => pc = "reset"
      BY <2>2, ResetComes
    <3> QED
      BY <3>1, <3>2 DEF standing
  <2> QED
    BY <2>1, <2>2
<1> QED
  BY <1>2, <1>3, <1>4, <1>5 DEF Log!Propose

LEMMA AppendStep ==
    ASSUME IInv, AppendBlock PROVE Log!Commit \/ Log!Import
<1>1. /\ pc = "append" /\ UNCHANGED proposal
      /\ main_chain_block_list' = Append(main_chain_block_list, applied)
      /\ pc' = IF caller = "commit" THEN "reset" ELSE "download"
      /\ main_chain_block_list \in Seq(Block) /\ applied \in Block
  BY AppliedType DEF AppendBlock, goto, IInv, TypeOK
<1>2. CASE caller = "commit"
  <2>1. is_proposal_valid
    BY <1>1, <1>2 DEF IInv, ProposalInv, Applying
  <2>2. standing = <<proposed_block>> /\ standing' = <<>>
    BY <1>1, <1>2, <2>1 DEF standing
  <2>3. applied = proposed_block
    BY <1>2 DEF applied
  <2>4. main_chain_block_list' = main_chain_block_list \o standing
    BY <1>1, <2>2, <2>3
  <2> QED
    BY <2>2, <2>4 DEF Log!Commit
<1>3. CASE caller # "commit"
  <2>1. UNCHANGED standing
    BY <1>1, <1>3 DEF standing, proposal
  <2>2. /\ main_chain_block_list' \in Seq(Block)
        /\ Len(main_chain_block_list') = Len(main_chain_block_list) + 1
        /\ SubSeq(main_chain_block_list', 1, Len(main_chain_block_list))
             = main_chain_block_list
    BY <1>1
  <2> QED
    BY <2>1, <2>2 DEF Log!Import
<1> QED
  BY <1>2, <1>3

\* The chain only grows, one block at a time, and a round ends with the
\* proposal standing when it ends, once.
THEOREM NodeImplementsLog == Spec => ImplementsLog
<1>1. Init => Log!Init
  <2> SUFFICES ASSUME Init PROVE Log!Init
    OBVIOUS
  <2>1. main_chain_block_list \in Seq(Block)
    BY InitType DEF TypeOK
  <2>2. Len(main_chain_block_list) <= 1
    <3>1. CASE main_chain_block_list = <<>>
      BY <3>1
    <3>2. ASSUME NEW byte \in HashBytes,
                 main_chain_block_list = <<GenesisBlock(byte)>>
          PROVE  Len(main_chain_block_list) <= 1
      BY <3>2
    <3> QED
      BY <3>1, <3>2 DEF Init
  <2> QED
    BY <2>1, <2>2 DEF Log!Init, Init, standing
<1>2. IInv /\ [Next]_vars => [Log!Next]_<<main_chain_block_list, standing>>
  BY AppendStep, StandingSteps DEF Log!Next
<1> QED
  BY <1>1, <1>2, Inductive, PTL DEF Spec, ImplementsLog, Log!Spec

-----------------------------------------------------------------------------
(***************************************************************************)
(* What the auditor claims of a node that nobody else sends blocks to.     *)
(***************************************************************************)

(* Sums over the accounts *)

\* total adds up the accounts one after the other.
LEMMA TotalSteps ==
    ASSUME NEW b \in Seq(Int)
    PROVE  \E s \in [0 .. Len(b) -> Int] :
              /\ s[0] = 0 /\ total(b) = s[Len(b)]
              /\ \A a \in 1 .. Len(b) : s[a] = s[a - 1] + b[a]
<1> DEFINE N == Len(b)
           Sum(s) == s = [a \in 0 .. N |-> IF a = 0 THEN 0 ELSE s[a - 1] + b[a]]
           chosen == CHOOSE s : Sum(s)
<1>1. N \in Nat /\ \A a \in 1 .. N : b[a] \in Int
  OBVIOUS
<1>2. \E s \in [0 .. N -> Int] : s[0] = 0 /\ \A a \in 1 .. N : s[a] = s[a - 1] + b[a]
  <2> DEFINE f == [a \in 1 .. N |-> [i \in Int |-> i + b[a]]]
  <2>1. IsSteps(f, N, Int) /\ 0 \in Int
    BY <1>1 DEF IsSteps
  <2>2. \A a \in 1 .. N, i \in Int : f[a][i] = i + b[a]
    BY <1>1
  <2> HIDE DEF f, N
  <2>3. PICK s : IsRun(s, f, N, 0, Int)
    BY <1>1, <2>1, StepsExist
  <2>4. s \in [0 .. N -> Int] /\ s[0] = 0
    BY <2>3 DEF IsRun
  <2>5. ASSUME NEW a \in 1 .. N PROVE s[a] = s[a - 1] + b[a]
    <3>1. a - 1 \in 0 .. N
      BY <1>1
    <3>2. s[a - 1] \in Int
      BY <2>4, <3>1
    <3> QED BY <2>2, <2>3, <3>2 DEF IsRun
  <2> QED BY <2>4, <2>5
<1>3. \E s : Sum(s)
  <2>1. PICK s \in [0 .. N -> Int] : s[0] = 0 /\ \A a \in 1 .. N : s[a] = s[a - 1] + b[a]
    BY <1>2
  <2>2. \A a \in 0 .. N : s[a] = IF a = 0 THEN 0 ELSE s[a - 1] + b[a]
    BY <2>1
  <2>3. s = [a \in 0 .. N |-> s[a]]
    OBVIOUS
  <2>4. Sum(s)
    BY <2>2, <2>3
  <2> QED BY <2>4
<1>4. Sum(chosen)
  <2> HIDE DEF Sum
  <2> QED BY <1>3
<1>5. total(b) = chosen[N]
  BY DEF total
<1>6. \E s \in [0 .. N -> Int] :
         s[0] = 0 /\ chosen[N] = s[N] /\ \A a \in 1 .. N : s[a] = s[a - 1] + b[a]
  <2> HIDE DEF chosen, N
  <2>1. chosen[0] = 0 /\ \A a \in 1 .. N : chosen[a] = chosen[a - 1] + b[a]
    BY <1>1, <1>4
  <2> DEFINE A == {n \in Nat : n <= N => chosen[n] \in Int}
  <2>2. 0 \in A
    BY <2>1
  <2>3. ASSUME NEW n \in Nat, n \in A PROVE n + 1 \in A
    <3> SUFFICES ASSUME n + 1 <= N PROVE chosen[n + 1] \in Int
      OBVIOUS
    <3>1. n + 1 \in 1 .. N /\ n <= N
      BY <1>1
    <3>2. chosen[n + 1] = chosen[n] + b[n + 1]
      BY <2>1, <3>1
    <3> QED BY <1>1, <2>3, <3>1, <3>2
  <2>4. \A n \in Nat : n \in A
    <3> HIDE DEF A
    <3> QED BY <2>2, <2>3, SetInduction
  <2>5. \A a \in 0 .. N : chosen[a] \in Int
    BY <1>1, <2>4
  <2>6. chosen = [a \in 0 .. N |-> chosen[a]]
    <3>1. DOMAIN chosen = 0 .. N
      BY <1>4
    <3> QED BY <1>4
  <2>7. chosen \in [0 .. N -> Int]
    BY <2>5, <2>6
  <2> QED BY <2>1, <2>7
<1> HIDE DEF chosen
<1> QED BY <1>5, <1>6

\* The sum of an Append, and of two vectors added up.
LEMMA TotalAppend ==
    ASSUME NEW b \in Seq(Int), NEW coins \in Int
    PROVE  total(Append(b, coins)) = total(b) + coins
<1> DEFINE c == Append(b, coins)
<1>1. /\ c \in Seq(Int) /\ Len(b) \in Nat /\ Len(c) = Len(b) + 1
      /\ c[Len(c)] = coins /\ \A a \in 1 .. Len(b) : c[a] = b[a] /\ b[a] \in Int
  OBVIOUS
<1> HIDE DEF c
<1>2. PICK s \in [0 .. Len(b) -> Int] :
        /\ s[0] = 0 /\ total(b) = s[Len(b)]
        /\ \A a \in 1 .. Len(b) : s[a] = s[a - 1] + b[a]
  BY TotalSteps
<1>3. PICK t \in [0 .. Len(c) -> Int] :
        /\ t[0] = 0 /\ total(c) = t[Len(c)]
        /\ \A a \in 1 .. Len(c) : t[a] = t[a - 1] + c[a]
  BY <1>1, TotalSteps
<1> DEFINE A == {n \in Nat : n <= Len(b) => t[n] = s[n]}
<1>4. 0 \in A
  BY <1>2, <1>3
<1>5. ASSUME NEW n \in Nat, n \in A PROVE n + 1 \in A
  <2> SUFFICES ASSUME n + 1 <= Len(b) PROVE t[n + 1] = s[n + 1]
    OBVIOUS
  <2>1. n + 1 \in 1 .. Len(b) /\ n + 1 \in 1 .. Len(c) /\ t[n] = s[n]
    BY <1>1, <1>5
  <2>2. s[n + 1] = s[n] + b[n + 1]
    BY <1>2, <2>1
  <2>3. t[n + 1] = t[n] + c[n + 1]
    BY <1>3, <2>1
  <2> QED BY <1>1, <2>1, <2>2, <2>3
<1>6. Len(b) \in A
  <2> HIDE DEF A
  <2> QED BY <1>1, <1>4, <1>5, SetInduction
<1>7. t[Len(c)] = t[Len(b)] + coins
  <2>1. Len(c) \in 1 .. Len(c) /\ Len(c) - 1 = Len(b)
    BY <1>1
  <2> QED BY <1>1, <1>3, <2>1
<1>8. total(c) = total(b) + coins
  BY <1>1, <1>2, <1>3, <1>6, <1>7
<1> QED BY <1>8 DEF c

LEMMA TotalSum ==
    ASSUME NEW b \in Seq(Int), NEW c \in Seq(Int), NEW d \in Seq(Int),
           Len(c) = Len(b), Len(d) = Len(b),
           \A a \in 1 .. Len(b) : d[a] = b[a] + c[a]
    PROVE  total(d) = total(b) + total(c)
<1>1. Len(b) \in Nat /\ \A a \in 1 .. Len(b) : b[a] \in Int /\ c[a] \in Int
  OBVIOUS
<1>0. \A e \in Seq(Int) : \E s \in [0 .. Len(e) -> Int] :
         /\ s[0] = 0 /\ total(e) = s[Len(e)]
         /\ \A a \in 1 .. Len(e) : s[a] = s[a - 1] + e[a]
  BY TotalSteps
<1>2. PICK s \in [0 .. Len(b) -> Int] :
        /\ s[0] = 0 /\ total(b) = s[Len(b)]
        /\ \A a \in 1 .. Len(b) : s[a] = s[a - 1] + b[a]
  BY <1>0
<1>3. PICK t \in [0 .. Len(b) -> Int] :
        /\ t[0] = 0 /\ total(c) = t[Len(b)]
        /\ \A a \in 1 .. Len(b) : t[a] = t[a - 1] + c[a]
  BY <1>0
<1>4. PICK u \in [0 .. Len(b) -> Int] :
        /\ u[0] = 0 /\ total(d) = u[Len(b)]
        /\ \A a \in 1 .. Len(b) : u[a] = u[a - 1] + d[a]
  BY <1>0
<1> DEFINE A == {n \in Nat : n <= Len(b) => u[n] = s[n] + t[n]}
<1>5. 0 \in A
  BY <1>2, <1>3, <1>4
<1>6. ASSUME NEW n \in Nat, n \in A PROVE n + 1 \in A
  <2> SUFFICES ASSUME n + 1 <= Len(b) PROVE u[n + 1] = s[n + 1] + t[n + 1]
    OBVIOUS
  <2>1. n + 1 \in 1 .. Len(b) /\ n \in 0 .. Len(b) /\ u[n] = s[n] + t[n]
    BY <1>1, <1>6
  <2>2. s[n + 1] = s[n] + b[n + 1] /\ t[n + 1] = t[n] + c[n + 1]
        /\ u[n + 1] = u[n] + d[n + 1]
    BY <1>2, <1>3, <1>4, <2>1
  <2>3. s[n] \in Int /\ t[n] \in Int /\ b[n + 1] \in Int /\ c[n + 1] \in Int
        /\ d[n + 1] = b[n + 1] + c[n + 1]
    BY <1>1, <2>1
  <2> QED BY <2>1, <2>2, <2>3
<1>7. Len(b) \in A
  <2> HIDE DEF A
  <2> QED BY <1>1, <1>5, <1>6, SetInduction
<1> QED BY <1>1, <1>2, <1>3, <1>4, <1>7

\* A vector that is 0 but for one account
LEMMA TotalSingle ==
    ASSUME NEW b \in Seq(Int), NEW k \in 1 .. Len(b),
           \A a \in 1 .. Len(b) : a # k => b[a] = 0
    PROVE  total(b) = b[k]
<1>1. Len(b) \in Nat /\ \A a \in 1 .. Len(b) : b[a] \in Int
  OBVIOUS
<1>2. PICK s \in [0 .. Len(b) -> Int] :
        /\ s[0] = 0 /\ total(b) = s[Len(b)]
        /\ \A a \in 1 .. Len(b) : s[a] = s[a - 1] + b[a]
  BY TotalSteps
<1> DEFINE A == {n \in Nat : n <= Len(b) => s[n] = IF n < k THEN 0 ELSE b[k]}
<1>3. 0 \in A
  BY <1>2
<1>4. ASSUME NEW n \in Nat, n \in A PROVE n + 1 \in A
  <2> SUFFICES ASSUME n + 1 <= Len(b)
               PROVE  s[n + 1] = IF n + 1 < k THEN 0 ELSE b[k]
    OBVIOUS
  <2>1. n + 1 \in 1 .. Len(b) /\ s[n] = IF n < k THEN 0 ELSE b[k]
    BY <1>1, <1>4
  <2>2. s[n + 1] = s[n] + b[n + 1]
    BY <1>2, <2>1
  <2>3. CASE n + 1 = k
    BY <1>1, <2>1, <2>2, <2>3
  <2>4. CASE n + 1 # k
    BY <1>1, <2>1, <2>2, <2>4
  <2> QED BY <2>3, <2>4
<1>5. Len(b) \in A
  <2> HIDE DEF A
  <2> QED BY <1>1, <1>3, <1>4, SetInduction
<1> QED BY <1>1, <1>2, <1>5

-----------------------------------------------------------------------------
(* The node alone: nobody answers bc_height, nobody sends proposals.  The   *)
(* invariant follows the own block from the queue to the end of the chain.  *)

Lone == Seed /\ PeerHeights = {} /\ PushedBlocks = {}

\* The calls that are made
AloneInv ==
    /\ main_chain_block_list # <<>>
    /\ pc \notin Downloading \cup {"download", "ask_proposal"}
    /\ pc \in Replacing => caller = "propose"
    /\ pc \in Applying \cup {"reset"} => caller = "commit"
    /\ \A h \in Handlers : thread[h].at \notin {"set_flag", "set_block"}

\* The own block is in the slot.
Proposed == pc \in {"tick", "assert"} \/ (pc = "ask" /\ caller = "tick")

\* The flag is up for nothing else, so the own block always wins.
FlagInv ==
    is_proposal_valid => Proposed \/ pc \in Applying \cup {"set_block", "reset", "crashed"}

validates(block) ==
    \E stray \in Stray : block_validate(block, a2pk, balance, done_tx_hash, stray)

\* The issuer has an account, also if debug_set_key replaces the identity.
IssuerInv ==
    /\ my_primary_address < Len(balance)
    /\ pc \in {"copy", "clear", "seal"} \cup Replacing => tmp.issuer_addr < Len(balance)
    /\ Proposed \/ pc \in Applying => proposed_block.issuer_addr < Len(balance)

\* What was validated stays valid until it is applied: nothing else moves the
\* ledger.
SealedInv ==
    /\ pc \in Replacing => validates(tmp)
    /\ Proposed => validates(proposed_block)

\* What tx_apply needs to take the fee and nothing else
Sound(tx, b) == in_range(tx, b) /\ tx.type \in {1, 2} /\ tx.hash = "own"

doneKeys(block) == {done_key(block.tx_list[i]) : i \in DOMAIN block.tx_list}

Hashed(block) == \A i \in DOMAIN block.tx_list : block.tx_list[i].hash = "own"

\* No two blocks share a key.
Separate ==
    \A i, j \in DOMAIN main_chain_block_list : i # j =>
        doneKeys(main_chain_block_list[i]) \cap doneKeys(main_chain_block_list[j]) = {}

\* The keys of the transactions applied are in done_tx_hash, and no block of the
\* chain shares one with another block or with the block being applied.
KeysInv ==
    /\ \A i \in DOMAIN main_chain_block_list :
           /\ doneKeys(main_chain_block_list[i]) \subseteq done_tx_hash
           /\ Hashed(main_chain_block_list[i])
    /\ Separate
    /\ pc \in Applying =>
           /\ txs = proposed_block.tx_list
           /\ \A i \in DOMAIN txs : Sound(txs[i], balance)
           /\ \A i \in 1 .. Len(txs) : i < pos => done_key(txs[i]) \in done_tx_hash
           /\ pc # "apply_tx" => pos > Len(txs)
           /\ pos <= Len(txs) + 1
           /\ \A i \in DOMAIN main_chain_block_list :
                  doneKeys(main_chain_block_list[i]) \cap doneKeys(proposed_block) = {}

LoneInv == AloneInv /\ FlagInv /\ IssuerInv /\ SealedInv /\ KeysInv

\* What the main thread of a lone node may do at all
LEMMA LoneActions ==
    ASSUME Lone, LoneInv, MainThread
    PROVE  ~(AskHeight \/ DownloadEnd \/ Download \/ GenesisKey \/ GenesisCoins
             \/ AskProposal)
BY DEF Lone, LoneInv, AloneInv, Downloading, AskHeight, DownloadEnd, Download,
       GenesisKey, GenesisCoins, AskProposal, goto

\* The calls and the flag
LEMMA AloneMain ==
    ASSUME Lone, IInv, LoneInv, MainThread PROVE AloneInv' /\ FlagInv'
<1> USE DEF LoneInv, AloneInv, FlagInv, Proposed, IInv, CallerInv, Asking, Replacing,
            Applying, Downloading, MainThread, ledger, proposal, locals, goto, after
<1>1. ~(AskHeight \/ DownloadEnd \/ Download \/ GenesisKey \/ GenesisCoins
        \/ AskProposal)
  BY LoneActions
<1>2. CASE LoopHead
  BY <1>2 DEF LoopHead
<1>3. CASE Branch
  BY <1>3 DEF Branch
<1>4. CASE Tick
  BY <1>4 DEF Tick, Proposed
<1>5. CASE Commit
  BY <1>5 DEF Commit
<1>6. CASE Reset
  BY <1>6 DEF Reset
<1>7. CASE AskNobody
  BY <1>7 DEF AskNobody
<1>8. CASE Propose
  BY <1>8 DEF Propose
<1>9. CASE CopyQueue
  BY <1>9 DEF CopyQueue
<1>10. CASE ClearQueue
  BY <1>10 DEF ClearQueue
<1>11. CASE Seal
  BY <1>11 DEF Seal
<1>12. CASE ReplaceTest
  BY <1>12 DEF ReplaceTest, beats
<1>13. CASE ReplaceFlag
  BY <1>13 DEF ReplaceFlag
<1>14. CASE ReplaceBlock
  BY <1>14 DEF ReplaceBlock
<1>15. CASE ApplyTx
  BY <1>15 DEF ApplyTx
<1>16. CASE ApplyReward
  BY <1>16 DEF ApplyReward
<1>17. CASE ApplyPenalty
  BY <1>17 DEF ApplyPenalty
<1>18. CASE IssueKey
  BY <1>18 DEF IssueKey
<1>19. CASE IssueBalance
  BY <1>19 DEF IssueBalance
<1>20. CASE AppendBlock
  <2>1. main_chain_block_list' # <<>>
    BY <1>20 DEF AppendBlock, TypeOK
  <2> QED BY <1>20, <2>1 DEF AppendBlock
<1> QED
  BY <1>1, <1>2, <1>3, <1>4, <1>5, <1>6, <1>7, <1>8, <1>9, <1>10, <1>11, <1>12, <1>13, <1>14, <1>15, <1>16, <1>17, <1>18, <1>19, <1>20
     DEF Ask, ProposeBlock, Replace, ApplyBlock

\* The issuer of the own block
LEMMA IssuerMain ==
    ASSUME Lone, IInv, LoneInv, MainThread PROVE IssuerInv'
<1> USE DEF LoneInv, IssuerInv, Proposed, IInv, CallerInv, AloneInv, Asking, Replacing,
            Applying, Downloading, MainThread, ledger, proposal, locals, identity,
            goto, after
<1>1. ~(AskHeight \/ DownloadEnd \/ Download \/ GenesisKey \/ GenesisCoins
        \/ AskProposal)
  BY LoneActions
<1>2. CASE LoopHead
  BY <1>2 DEF LoopHead
<1>3. CASE Branch
  BY <1>3 DEF Branch
<1>4. CASE Tick
  BY <1>4 DEF Tick
<1>5. CASE Commit
  BY <1>5 DEF Commit
<1>6. CASE Reset
  BY <1>6 DEF Reset
<1>7. CASE AskNobody
  BY <1>7 DEF AskNobody
<1>8. CASE Propose
  <2>1. main_chain_block_list # <<>>
    BY DEF AloneInv
  <2>2. tmp'.issuer_addr = my_primary_address
    BY <1>8, <2>1 DEF Propose, EmptyBlock
  <2> QED BY <1>8, <2>1, <2>2 DEF Propose
<1>9. CASE CopyQueue
  <2>1. tmp'.issuer_addr = tmp.issuer_addr
    BY <1>9 DEF CopyQueue, TypeOK, Block
  <2> QED BY <1>9, <2>1 DEF CopyQueue
<1>10. CASE ClearQueue
  BY <1>10 DEF ClearQueue
<1>11. CASE Seal
  <2>1. tmp'.issuer_addr = tmp.issuer_addr
    BY <1>11, SealFields
  <2> QED BY <1>11, <2>1 DEF Seal
<1>12. CASE ReplaceTest
  BY <1>12 DEF ReplaceTest, beats, FlagInv
<1>13. CASE ReplaceFlag
  BY <1>13 DEF ReplaceFlag
<1>14. CASE ReplaceBlock
  BY <1>14 DEF ReplaceBlock
<1>15. CASE ApplyTx
  <2>1. Len(balance') = Len(balance)
    BY <1>15, ApplyTxEffect
  <2> QED BY <1>15, <2>1 DEF ApplyTx
<1>16. CASE ApplyReward
  <2>1. Len(balance') = Len(balance)
    BY <1>16, ApplyRewardEffect
  <2> QED BY <1>16, <2>1 DEF ApplyReward
<1>17. CASE ApplyPenalty
  <2>1. Len(balance') = Len(balance)
    BY <1>17, PenalisedType DEF ApplyPenalty, TypeOK
  <2> QED BY <1>17, <2>1 DEF ApplyPenalty
<1>18. CASE IssueKey
  BY <1>18 DEF IssueKey
<1>19. CASE IssueBalance
  <2>1. Len(balance) \in Nat /\ Len(balance') = Len(balance) + 1
    BY <1>19, ConstantTypes DEF IssueBalance, TypeOK
  <2>2. proposed_block.issuer_addr \in Nat /\ my_primary_address \in Nat
    BY BlockFields, LedgerAssumption DEF TypeOK, Word
  <2> QED BY <1>19, <2>1, <2>2 DEF IssueBalance
<1>20. CASE AppendBlock
  BY <1>20 DEF AppendBlock
<1> QED
  BY <1>1, <1>2, <1>3, <1>4, <1>5, <1>6, <1>7, <1>8, <1>9, <1>10, <1>11, <1>12, <1>13, <1>14, <1>15, <1>16, <1>17, <1>18, <1>19, <1>20
     DEF Ask, ProposeBlock, Replace, ApplyBlock

\* What Seal validated is in the slot, and valid, up to the commit.
LEMMA SealedMain ==
    ASSUME Lone, IInv, LoneInv, MainThread PROVE SealedInv'
<1> USE DEF LoneInv, SealedInv, validates, Proposed, IInv, CallerInv, AloneInv, Asking,
            Replacing, Applying, Downloading, MainThread, ledger, proposal, locals,
            goto, after
<1>1. ~(AskHeight \/ DownloadEnd \/ Download \/ GenesisKey \/ GenesisCoins
        \/ AskProposal)
  BY LoneActions
<1>2. CASE LoopHead
  BY <1>2 DEF LoopHead
<1>3. CASE Branch
  BY <1>3 DEF Branch
<1>4. CASE Tick
  BY <1>4 DEF Tick
<1>5. CASE Commit
  BY <1>5 DEF Commit
<1>6. CASE Reset
  BY <1>6 DEF Reset
<1>7. CASE AskNobody
  BY <1>7 DEF AskNobody
<1>8. CASE Propose
  BY <1>8 DEF Propose
<1>9. CASE CopyQueue
  BY <1>9 DEF CopyQueue
<1>10. CASE ClearQueue
  BY <1>10 DEF ClearQueue
<1>11. CASE Seal
  BY <1>11 DEF Seal
<1>12. CASE ReplaceTest
  BY <1>12 DEF ReplaceTest, beats, FlagInv
<1>13. CASE ReplaceFlag
  BY <1>13 DEF ReplaceFlag
<1>14. CASE ReplaceBlock
  BY <1>14 DEF ReplaceBlock
<1>15. CASE ApplyTx
  BY <1>15 DEF ApplyTx
<1>16. CASE ApplyReward
  BY <1>16 DEF ApplyReward
<1>17. CASE ApplyPenalty
  BY <1>17 DEF ApplyPenalty
<1>18. CASE IssueKey
  BY <1>18 DEF IssueKey
<1>19. CASE IssueBalance
  BY <1>19 DEF IssueBalance
<1>20. CASE AppendBlock
  BY <1>20 DEF AppendBlock
<1> QED
  BY <1>1, <1>2, <1>3, <1>4, <1>5, <1>6, <1>7, <1>8, <1>9, <1>10, <1>11, <1>12, <1>13, <1>14, <1>15, <1>16, <1>17, <1>18, <1>19, <1>20
     DEF Ask, ProposeBlock, Replace, ApplyBlock

\* Committing adds the keys of a block that shares none with the chain.
LEMMA KeysMain ==
    ASSUME Lone, IInv, LoneInv, MainThread PROVE KeysInv'
<1> USE DEF LoneInv, KeysInv, Separate, IInv, CallerInv, AloneInv, Asking,
            Replacing, Applying, Downloading, MainThread, ledger, proposal, locals,
            goto, after
<1>1. ~(AskHeight \/ DownloadEnd \/ Download \/ GenesisKey \/ GenesisCoins
        \/ AskProposal)
  BY LoneActions
<1>2. CASE LoopHead
  BY <1>2 DEF LoopHead
<1>3. CASE Branch
  BY <1>3 DEF Branch
<1>4. CASE Tick
  BY <1>4 DEF Tick
<1>5. CASE Commit
  <2>1. PICK stray \in Stray :
          block_validate(proposed_block, a2pk, balance, done_tx_hash, stray)
    BY <1>5 DEF Commit, SealedInv, Proposed, validates
  <2>2. Len(a2pk) = Len(balance)
    BY <1>5 DEF Commit, AccountsMatchChain, Issued
  <2>3. \A i \in 1 .. Len(proposed_block.tx_list) :
          tx_validate(proposed_block.tx_list[i], a2pk, balance, done_tx_hash, stray)
    BY <2>1 DEF block_validate
  <2>4. DOMAIN proposed_block.tx_list = 1 .. Len(proposed_block.tx_list)
        /\ Len(proposed_block.tx_list) \in Nat
    BY BlockFields DEF TypeOK
  <2>5. \A i \in DOMAIN proposed_block.tx_list :
           /\ Sound(proposed_block.tx_list[i], balance)
           /\ done_key(proposed_block.tx_list[i]) \notin done_tx_hash
    BY <2>2, <2>3, <2>4 DEF tx_validate, affordable, Sound, in_range
  <2>6. \A i \in DOMAIN main_chain_block_list :
           doneKeys(main_chain_block_list[i]) \cap doneKeys(proposed_block) = {}
    BY <2>5 DEF doneKeys
  <2>7. /\ UNCHANGED <<main_chain_block_list, done_tx_hash, balance, proposed_block>>
        /\ pc' = "apply_tx" /\ txs' = proposed_block.tx_list /\ pos' = 1
    BY <1>5 DEF Commit, ProposalInv
  <2> QED BY <2>4, <2>5, <2>6, <2>7
<1>6. CASE Reset
  BY <1>6 DEF Reset
<1>7. CASE AskNobody
  BY <1>7 DEF AskNobody
<1>8. CASE Propose
  BY <1>8 DEF Propose
<1>9. CASE CopyQueue
  BY <1>9 DEF CopyQueue
<1>10. CASE ClearQueue
  BY <1>10 DEF ClearQueue
<1>11. CASE Seal
  BY <1>11 DEF Seal
<1>12. CASE ReplaceTest
  BY <1>12 DEF ReplaceTest
<1>13. CASE ReplaceFlag
  BY <1>13 DEF ReplaceFlag
<1>14. CASE ReplaceBlock
  BY <1>14 DEF ReplaceBlock
<1>15. CASE ApplyTx
  <2>1. pc = "apply_tx" /\ caller = "commit" /\ applied = proposed_block
        /\ pos \in 1 .. Len(txs) /\ DOMAIN txs = 1 .. Len(txs)
    BY <1>15 DEF ApplyTx, applied, TypeOK
  <2>2. txs[pos] \in Tx /\ Sound(txs[pos], balance)
    BY <2>1 DEF TypeOK
  <2>3. /\ balance' = tx_apply_balance(txs[pos], balance) /\ pc' = "apply_tx"
        /\ done_tx_hash' = done_tx_hash \cup {done_key(txs[pos])} /\ pos' = pos + 1
        /\ UNCHANGED <<main_chain_block_list, proposed_block, txs>>
    BY <1>15, <2>1, <2>2 DEF ApplyTx, Sound
  <2>4. Len(balance') = Len(balance)
    BY <1>15, ApplyTxEffect
  <2>5. \A tx \in Tx : Sound(tx, balance) => Sound(tx, balance')
    BY <2>4 DEF Sound, in_range
  <2>6. \A i \in DOMAIN txs : Sound(txs[i], balance')
    <3>1. \A i \in DOMAIN txs : txs[i] \in Tx /\ Sound(txs[i], balance)
      BY <2>1 DEF TypeOK
    <3> QED BY <2>5, <3>1
  <2>7. \A i \in 1 .. Len(txs) : i < pos + 1 => done_key(txs[i]) \in done_tx_hash'
    <3>1. \A i \in 1 .. Len(txs) : i < pos + 1 => i < pos \/ i = pos
      BY <2>1
    <3> QED BY <2>1, <2>3, <3>1
  <2>8. pos + 1 <= Len(txs) + 1
    BY <2>1
  <2>9. \A i \in DOMAIN main_chain_block_list :
           /\ doneKeys(main_chain_block_list[i]) \subseteq done_tx_hash'
           /\ Hashed(main_chain_block_list[i])
    BY <2>3
  <2> QED BY <2>1, <2>3, <2>6, <2>7, <2>8, <2>9
<1>16. CASE ApplyReward
  <2>1. Len(balance') = Len(balance)
    BY <1>16, ApplyRewardEffect
  <2>2. \A tx \in Tx : Sound(tx, balance) => Sound(tx, balance')
    BY <2>1 DEF Sound, in_range
  <2>3. \A i \in DOMAIN txs : pc \in Applying => Sound(txs[i], balance')
    BY <2>2 DEF TypeOK
  <2> QED BY <1>16, <2>3 DEF ApplyReward, TypeOK
<1>17. CASE ApplyPenalty
  <2>1. Len(balance') = Len(balance)
    BY <1>17, PenalisedType DEF ApplyPenalty, TypeOK
  <2>2. \A tx \in Tx : Sound(tx, balance) => Sound(tx, balance')
    BY <2>1 DEF Sound, in_range
  <2>3. \A i \in DOMAIN txs : pc \in Applying => Sound(txs[i], balance')
    BY <2>2 DEF TypeOK
  <2> QED BY <1>17, <2>3 DEF ApplyPenalty, TypeOK
<1>18. CASE IssueKey
  BY <1>18 DEF IssueKey
<1>19. CASE IssueBalance
  <2>1. Len(balance) \in Nat /\ Len(balance') = Len(balance) + 1
    BY <1>19, ConstantTypes DEF IssueBalance, TypeOK
  <2>2. \A tx \in Tx : Sound(tx, balance) => Sound(tx, balance')
    BY <2>1, TxFields DEF Sound, in_range
  <2>3. \A i \in DOMAIN txs : pc \in Applying => Sound(txs[i], balance')
    BY <2>2 DEF TypeOK
  <2> QED BY <1>19, <2>3 DEF IssueBalance
<1>20. CASE AppendBlock
  <2>1. /\ pc = "append" /\ pc' = "reset" /\ applied = proposed_block
        /\ main_chain_block_list' = Append(main_chain_block_list, proposed_block)
        /\ UNCHANGED <<done_tx_hash, balance>>
    BY <1>20 DEF AppendBlock, applied
  <2>2. doneKeys(proposed_block) \subseteq done_tx_hash
    <3>1. \A i \in DOMAIN txs : i \in 1 .. Len(txs) /\ i < pos
      BY <2>1 DEF TypeOK
    <3> QED BY <2>1, <3>1 DEF doneKeys
  <2>8. Hashed(proposed_block)
    BY <2>1 DEF Hashed, Sound
  <2> DEFINE n == Len(main_chain_block_list)
  <2>3. /\ n \in Nat /\ DOMAIN main_chain_block_list = 1 .. n
        /\ DOMAIN main_chain_block_list' = 1 .. n + 1
        /\ main_chain_block_list'[n + 1] = proposed_block
        /\ \A i \in 1 .. n : main_chain_block_list'[i] = main_chain_block_list[i]
    BY <2>1 DEF TypeOK
  <2> HIDE DEF n
  <2>4. \A i \in DOMAIN main_chain_block_list' :
          /\ doneKeys(main_chain_block_list'[i]) \subseteq done_tx_hash
          /\ Hashed(main_chain_block_list'[i])
    BY <2>2, <2>3, <2>8
  <2>5. \A i \in 1 .. n + 1 : i \in 1 .. n \/ i = n + 1
    BY <2>3
  <2>6. \A i \in DOMAIN main_chain_block_list :
           doneKeys(main_chain_block_list[i]) \cap doneKeys(proposed_block) = {}
    BY <2>1
  <2>7. Separate'
    BY <2>3, <2>5, <2>6
  <2> QED BY <2>1, <2>4, <2>7
<1> QED
  BY <1>1, <1>1, <1>2, <1>3, <1>4, <1>5, <1>6, <1>7, <1>8, <1>9, <1>10, <1>11, <1>12, <1>13, <1>14, <1>15, <1>16, <1>17, <1>18, <1>19, <1>20
     DEF Ask, ProposeBlock, Replace, ApplyBlock
\* The handlers push no block, and debug_set_key takes an address that exists.
LEMMA LoneHandler ==
    ASSUME Lone, IInv, LoneInv, NEW h \in Handlers, Request(h) \/ Finish(h)
    PROVE  LoneInv'
<1>1. /\ UNCHANGED <<pc, caller, tmp, txs, pos, main_chain_block_list, done_tx_hash,
                     a2pk, balance>>
  BY DEF Request, Finish, locals, ledger
<1>2. DOMAIN thread = Handlers
  BY DEF IInv, TypeOK
<1>3. ASSUME UNCHANGED <<is_proposal_valid, proposed_block>>,
             my_primary_address' < Len(balance),
             \A g \in Handlers : thread'[g].at \notin {"set_flag", "set_block"}
      PROVE  LoneInv'
  BY <1>1, <1>3 DEF LoneInv, AloneInv, FlagInv, IssuerInv, SealedInv, KeysInv,
       Proposed, validates, Separate
<1>4. /\ \A g \in Handlers : thread[g].at \notin {"set_flag", "set_block"}
      /\ my_primary_address < Len(balance)
  BY DEF LoneInv, AloneInv, IssuerInv
<1>5. ASSUME NEW signed, accept(h, signed) PROVE LoneInv'
  BY <1>2, <1>3, <1>4, <1>5 DEF accept, proposal, identity, IInv, TypeOK
<1>6. CASE Transfer(h) \/ AddressTransfer(h) \/ TxPush(h)
  BY <1>5, <1>6 DEF Transfer, AddressTransfer, TxPush
<1>7. ~ProposedBlockPush(h)
  BY DEF ProposedBlockPush, Lone
<1>8. CASE DebugSetKey(h)
  BY <1>2, <1>3, <1>4, <1>8 DEF DebugSetKey, proposal, IInv, TypeOK
<1>9. CASE PushLoad(h)
  BY <1>2, <1>3, <1>4, <1>9 DEF PushLoad, proposal, identity, IInv, TypeOK
<1>10. CASE PushStore(h)
  BY <1>2, <1>3, <1>4, <1>10 DEF PushStore, proposal, identity, Resting
<1>11. ~PushFlag(h) /\ ~PushBlock(h)
  BY <1>4 DEF PushFlag, PushBlock
<1>12. CASE SetPubKey(h)
  BY <1>2, <1>3, <1>4, <1>12 DEF SetPubKey, proposal, IInv, TypeOK
<1>13. CASE SetPrvKey(h)
  BY <1>2, <1>3, <1>4, <1>13 DEF SetPrvKey, proposal, Resting
<1> QED
  BY <1>6, <1>7, <1>8, <1>9, <1>10, <1>11, <1>12, <1>13 DEF Request, Finish

LEMMA LoneInit == ASSUME Lone, Init PROVE LoneInv
<1>1. PICK byte \in HashBytes : main_chain_block_list = <<GenesisBlock(byte)>>
  BY DEF Init, Lone
<1>2. doneKeys(GenesisBlock(byte)) = {} /\ Hashed(GenesisBlock(byte))
  BY DEF GenesisBlock, EmptyBlock, block_sign, doneKeys, Hashed
<1>3. KeysInv
  BY <1>1, <1>2 DEF KeysInv, Separate, Init, Applying
<1>4. Len(balance) > 0
  BY InitInv DEF IInv, AccountsMatchChain, Issued, Init, Lone, Applying
<1>5. AloneInv /\ FlagInv /\ SealedInv
  BY <1>1 DEF Init, AloneInv, FlagInv, SealedInv, Proposed, Downloading, Replacing,
              Applying, Resting
<1>6. IssuerInv
  BY <1>4 DEF Init, IssuerInv, Proposed, Replacing, Applying
<1> QED
  BY <1>3, <1>5, <1>6 DEF LoneInv

LEMMA LoneStep == ASSUME Lone, IInv, LoneInv, [Next]_vars PROVE LoneInv'
<1>1. CASE MainThread
  BY <1>1, AloneMain, IssuerMain, SealedMain, KeysMain DEF LoneInv
<1>2. CASE ShutdownCall \/ UNCHANGED vars
  BY <1>2 DEF ShutdownCall, vars, ledger, proposal, identity, locals, LoneInv,
       AloneInv, FlagInv, IssuerInv, SealedInv, KeysInv, Proposed, validates, Separate
<1> QED
  BY <1>1, <1>2, LoneHandler DEF Next

LEMMA LoneInductive == ASSUME Lone PROVE Spec => [](IInv /\ LoneInv)
<1>1. Init => IInv /\ LoneInv
  BY InitInv, LoneInit
<1>2. (IInv /\ LoneInv) /\ [Next]_vars => (IInv /\ LoneInv)'
  BY InductiveStep, LoneStep
<1> QED
  BY <1>1, <1>2, PTL DEF Spec

\* The auditor only watches.
LEMMA AuditSteps ==
    /\ AuditInit => Init
    /\ [AuditNext]_auditVars => [Next]_vars
BY DEF AuditInit, AuditNext, auditVars

\* Blocks that share no key may share a transaction only as ReplayFree says.
LEMMA KeysDiffer == ASSUME KeysInv PROVE ReplayFree
<1> SUFFICES ASSUME NEW p \in Committed, NEW q \in Committed, p[1] # q[1],
                    tx_hash(tx_at(p)) = tx_hash(tx_at(q))
             PROVE  /\ NulAt(tx_hash(tx_at(p))) \notin {"first", "inside"}
                    /\ \/ tx_at(p).sign # tx_at(q).sign
                       \/ /\ tx_at(p).tail # tx_at(q).tail
                          /\ UpToNul(tx_at(p).sign) = tx_at(p).sign
  BY DEF ReplayFree
<1> DEFINE chain == main_chain_block_list
<1>1. ASSUME NEW r \in Committed
      PROVE  /\ r[1] \in DOMAIN chain /\ tx_at(r).hash = "own"
             /\ done_key(tx_at(r)) \in doneKeys(chain[r[1]])
  <2>1. PICK i \in DOMAIN chain : r \in {<<i, a>> : a \in DOMAIN chain[i].tx_list}
    BY DEF Committed
  <2>2. PICK a \in DOMAIN chain[i].tx_list : r = <<i, a>>
    BY <2>1
  <2>3. r[1] = i /\ tx_at(r) = chain[i].tx_list[a]
    BY <2>2 DEF tx_at
  <2> QED
    BY <2>2, <2>3 DEF KeysInv, Hashed, doneKeys
<1>2. done_key(tx_at(p)) # done_key(tx_at(q))
  <2>1. doneKeys(chain[p[1]]) \cap doneKeys(chain[q[1]]) = {}
    BY <1>1 DEF KeysInv, Separate
  <2> QED
    BY <1>1, <2>1
<1>3. tx_at(p).hash = "own" /\ tx_at(q).hash = "own"
  BY <1>1
<1> QED
  BY <1>2, <1>3 DEF done_key

\* What block_propose validated is still valid when the round ends and it is
\* committed: on a lone node nothing moves the ledger in between.
THEOREM ProposalStaysValid == ASSUME Lone PROVE AuditSpec => []ProposalStillValid
<1>1. IInv /\ LoneInv => ProposalStillValid
  BY DEF LoneInv, SealedInv, Proposed, validates, ProposalStillValid
<1> QED
  BY <1>1, AuditSteps, LoneInductive, PTL DEF AuditSpec, Spec

\* A lone node commits a transaction in a second block only under a key of
\* done_tx_hash that is new (a second signature, or other bytes behind one that
\* has no zero byte), whatever its requests and however the handlers' push_backs
\* and the main thread's copy and clear interleave.
THEOREM NoReplay == ASSUME Lone PROVE AuditSpec => []ReplayFree
<1>1. IInv /\ LoneInv => ReplayFree
  BY KeysDiffer DEF LoneInv
<1> QED
  BY <1>1, AuditSteps, LoneInductive, PTL DEF AuditSpec, Spec

-----------------------------------------------------------------------------
(* The supply of coins *)

LEMMA TotalType == ASSUME NEW b \in Seq(Int) PROVE total(b) \in Int
BY TotalSteps

\* What credit does to the sum
LEMMA CreditTotal ==
    ASSUME NEW b \in Seq(Word), NEW addr \in Nat, addr < Len(b), NEW coins \in Int
    PROVE  Cong(total(credit(b, addr, coins)), total(b) + coins)
<1> DEFINE c == credit(b, addr, coins)
           w == b[addr + 1]
           d == [a \in 1 .. Len(b) |-> IF a = addr + 1 THEN Plus(w, coins) - w ELSE 0]
<1>1. Len(b) \in Nat /\ addr + 1 \in 1 .. Len(b) /\ w \in Int /\ Plus(w, coins) \in Int
  <2>1. Len(b) \in Nat /\ addr + 1 \in 1 .. Len(b) /\ w \in Int
    BY WordSeq
  <2> HIDE DEF w
  <2> QED BY <2>1, PlusType, LedgerAssumption DEF Word
<1>2. c = [a \in 1 .. Len(b) |-> IF a = addr + 1 THEN Plus(w, coins) ELSE b[a]]
  BY <1>1 DEF credit
<1>3. b \in Seq(Int) /\ c \in Seq(Int) /\ d \in Seq(Int) /\ Len(c) = Len(b) /\ Len(d) = Len(b)
  BY <1>1, WordSeq, CreditType
<1>4. \A a \in 1 .. Len(b) : c[a] = b[a] + d[a]
  BY <1>1, <1>2, <1>3
<1>5. total(c) = total(b) + total(d)
  <2> HIDE DEF c, d
  <2> QED BY <1>3, <1>4, TotalSum
<1>6. total(d) = Plus(w, coins) - w
  <2>1. /\ d[addr + 1] = Plus(w, coins) - w
        /\ \A a \in 1 .. Len(d) : a # addr + 1 => d[a] = 0
    BY <1>1, <1>3
  <2> HIDE DEF d
  <2> QED BY <1>1, <1>3, <2>1, TotalSingle
<1>7. PICK k \in Int : Plus(w, coins) = w + coins + U32 * k
  BY <1>1, CongPlus DEF Cong
<1>8. total(c) = total(b) + coins + U32 * k
  <2> HIDE DEF c, d, w
  <2> QED BY <1>1, <1>3, <1>5, <1>6, <1>7, TotalType, LedgerAssumption
<1> QED BY <1>8 DEF Cong

\* A transaction that is applied costs its fee.
LEMMA ApplyTotal ==
    ASSUME NEW tx \in Tx, NEW b \in Seq(Word), Sound(tx, b)
    PROVE  Cong(total(tx_apply_balance(tx, b)), total(b) - tx_fee)
<1>1. /\ tx.send_addr \in Nat /\ tx.recv_addr \in Nat /\ tx.amount \in Int /\ tx_fee \in Int
      /\ tx.send_addr < Len(b) /\ tx.recv_addr < Len(b)
  BY TxFields, LedgerAssumption DEF Sound, in_range, Word
<1>2. CASE tx.type = 1
  <2> DEFINE debited == credit(b, tx.send_addr, -(tx.amount + tx_fee))
             paid == credit(debited, tx.recv_addr, tx.amount)
  <2>1. debited \in Seq(Word) /\ Len(debited) = Len(b)
    BY <1>1, CreditType
  <2>2. Cong(total(debited), total(b) + -(tx.amount + tx_fee))
    BY <1>1, CreditTotal
  <2>3. tx_apply_balance(tx, b) = paid
    BY <1>2 DEF tx_apply_balance
  <2> HIDE DEF debited
  <2>4. Cong(total(paid), total(debited) + tx.amount) /\ paid \in Seq(Word)
    BY <1>1, <2>1, CreditTotal, CreditType
  <2> HIDE DEF paid
  <2>5. total(b) \in Int /\ total(debited) \in Int /\ total(paid) \in Int
    BY <2>1, <2>4, WordSeq, TotalType
  <2>6. Cong(total(debited) + tx.amount, total(b) - tx_fee)
    <3>1. (total(b) + -(tx.amount + tx_fee)) + tx.amount = total(b) - tx_fee
      BY <1>1, <2>5
    <3>2. total(b) + -(tx.amount + tx_fee) \in Int
      BY <1>1, <2>5
    <3> QED BY <1>1, <2>2, <2>5, <3>1, <3>2, CongBasics
  <2> QED
    <3>1. total(debited) + tx.amount \in Int /\ total(b) - tx_fee \in Int
      BY <1>1, <2>5
    <3> QED BY <2>3, <2>4, <2>5, <2>6, <3>1, CongBasics
<1>3. CASE tx.type = 2
  <2>1. Cong(total(credit(b, tx.send_addr, -tx_fee)), total(b) + -tx_fee)
    BY <1>1, CreditTotal
  <2>2. total(b) + -tx_fee = total(b) - tx_fee
    BY <1>1, WordSeq, TotalType
  <2> QED BY <1>3, <2>1, <2>2 DEF tx_apply_balance
<1> QED BY <1>2, <1>3 DEF Sound

\* The penalty takes what the auditor notes.
LEMMA PenaltyTotal ==
    ASSUME NEW b \in Seq(Word)
    PROVE  total(b) = total(penalised(b)) + taken(b) /\ taken(b) \in Int
<1>1. /\ b \in Seq(Int) /\ Len(b) \in Nat /\ hot_potato_penalty \in Nat
      /\ \A a \in 1 .. Len(b) : b[a] \in Nat
  BY WordSeq, LedgerAssumption DEF Word
<1>2. /\ penalised(b) \in Seq(Int) /\ Len(penalised(b)) = Len(b)
      /\ penalties(b) \in Seq(Int) /\ Len(penalties(b)) = Len(b)
      /\ \A a \in 1 .. Len(b) : b[a] = penalised(b)[a] + penalties(b)[a]
  BY <1>1 DEF penalised, penalties
<1>3. total(b) = total(penalised(b)) + total(penalties(b))
  BY <1>1, <1>2, TotalSum
<1> QED BY <1>2, <1>3, TotalType DEF taken

\* The coins that the rules have made by now
Minted == GenesisBalance + mining_reward * Len(main_chain_block_list)

\* While a block is applied, its fees are out of the accounts until its issuer
\* gets them with the reward.
SupplyInv ==
    /\ burned \in Int
    /\ pc \notin Applying => Cong(total(balance) + burned, Minted)
    /\ pc = "apply_tx" => Cong(total(balance) + burned + tx_fee * (pos - 1), Minted)
    /\ pc \in Applying \ {"apply_tx"} =>
           Cong(total(balance) + burned, Minted + mining_reward)

LEMMA SupplyTypes ==
    ASSUME TypeOK, SupplyInv
    PROVE  /\ balance \in Seq(Word) /\ total(balance) \in Int
           /\ burned \in Int /\ Minted \in Int /\ pos \in Nat
           /\ tx_fee \in Int /\ mining_reward \in Int
<1>1. /\ balance \in Seq(Word) /\ main_chain_block_list \in Seq(Block)
      /\ burned \in Int /\ pos \in Nat
  BY DEF TypeOK, SupplyInv
<1>2. tx_fee \in Int /\ mining_reward \in Int /\ GenesisBalance \in Int
  BY LedgerAssumption, NodeAssumption DEF Word
<1>3. total(balance) \in Int
  BY <1>1, WordSeq, TotalType
<1>4. Minted \in Int
  <2>1. Len(main_chain_block_list) \in Int
    BY <1>1
  <2> QED BY <1>2, <2>1 DEF Minted
<1> QED BY <1>1, <1>2, <1>3, <1>4

LEMMA SupplyMain ==
    ASSUME Lone, IInv, LoneInv, SupplyInv, MainThread, AuditNext PROVE SupplyInv'
<1> USE DEF SupplyInv, Minted, IInv, CallerInv, Asking, Replacing, Applying,
            Downloading, MainThread, AuditNext, ledger, proposal, locals, goto, after
<1>0. /\ balance \in Seq(Word) /\ total(balance) \in Int
      /\ burned \in Int /\ Minted \in Int /\ pos \in Nat
      /\ tx_fee \in Int /\ mining_reward \in Int
  BY SupplyTypes
<1>1. ~(AskHeight \/ DownloadEnd \/ Download \/ GenesisKey \/ GenesisCoins
        \/ AskProposal)
  BY LoneActions
<1>2. CASE LoopHead
  BY <1>0, <1>2 DEF LoopHead, ApplyPenalty
<1>3. CASE Branch
  BY <1>0, <1>3 DEF Branch, ApplyPenalty
<1>4. CASE Tick
  BY <1>0, <1>4 DEF Tick, ApplyPenalty
<1>5. CASE Commit
  <2>1. CASE pc' = "apply_tx"
    <3>1. pos' = 1 /\ UNCHANGED <<balance, main_chain_block_list, burned>> /\ pc = "assert"
      BY <1>5, <2>1 DEF Commit, ApplyPenalty
    <3>2. tx_fee * (pos' - 1) = 0 /\ tx_fee * (pos' - 1) \in Int
      BY <3>1, <1>0
    <3> HIDE DEF AuditNext, ledger, locals, proposal
    <3>3. total(balance) + burned + tx_fee * (pos' - 1) = total(balance) + burned
      BY <1>0, <3>2
    <3> QED BY <1>0, <2>1, <3>1, <3>2, <3>3
  <2>2. CASE pc' # "apply_tx"
    BY <1>5, <2>2 DEF Commit, ApplyPenalty
  <2> QED BY <2>1, <2>2
<1>6. CASE Reset
  BY <1>0, <1>6 DEF Reset, ApplyPenalty
<1>7. CASE AskNobody
  BY <1>0, <1>7 DEF AskNobody, ApplyPenalty
<1>8. CASE Propose
  BY <1>0, <1>8 DEF Propose, ApplyPenalty
<1>9. CASE CopyQueue
  BY <1>0, <1>9 DEF CopyQueue, ApplyPenalty
<1>10. CASE ClearQueue
  BY <1>0, <1>10 DEF ClearQueue, ApplyPenalty
<1>11. CASE Seal
  BY <1>0, <1>11 DEF Seal, ApplyPenalty
<1>12. CASE ReplaceTest
  BY <1>0, <1>12 DEF ReplaceTest, ApplyPenalty
<1>13. CASE ReplaceFlag
  BY <1>0, <1>13 DEF ReplaceFlag, ApplyPenalty
<1>14. CASE ReplaceBlock
  BY <1>0, <1>14 DEF ReplaceBlock, ApplyPenalty
<1>15. CASE ApplyTx
  <2>1. pc = "apply_tx" /\ caller = "commit" /\ applied = proposed_block
        /\ pos \in 1 .. Len(txs) /\ DOMAIN txs = 1 .. Len(txs)
    BY <1>15 DEF ApplyTx, applied, TypeOK, LoneInv, AloneInv, Applying
  <2>2. txs[pos] \in Tx /\ Sound(txs[pos], balance)
    <3>1. txs \in Seq(Tx) /\ \A i \in DOMAIN txs : Sound(txs[i], balance)
      BY <2>1 DEF TypeOK, LoneInv, KeysInv
    <3> QED BY <2>1, <3>1
  <2>3. /\ balance' = tx_apply_balance(txs[pos], balance) /\ pc' = "apply_tx"
        /\ pos' = pos + 1 /\ UNCHANGED <<main_chain_block_list, burned>>
    BY <1>15, <2>1, <2>2 DEF ApplyTx, Sound, ApplyPenalty, LoneInv, KeysInv
  <2>4. /\ balance' \in Seq(Word) /\ total(balance') \in Int
        /\ Cong(total(balance'), total(balance) - tx_fee)
    BY <1>0, <1>15, <2>2, <2>3, ApplyTxEffect, ApplyTotal, WordSeq, TotalType
  <2> DEFINE rest == burned + tx_fee * pos
             old == total(balance) + burned + tx_fee * (pos - 1)
             new == total(balance') + burned + tx_fee * pos
  <2>5. rest \in Int /\ old \in Int /\ new \in Int /\ tx_fee * pos \in Int
    BY <1>0, <2>4
  <2>6. new = total(balance') + rest /\ old = (total(balance) - tx_fee) + rest
    <3>1. tx_fee * (pos - 1) = tx_fee * pos - tx_fee
      BY <1>0
    <3> QED BY <1>0, <2>4, <2>5, <3>1
  <2>7. Cong(new, old)
    <3>1. total(balance) - tx_fee \in Int
      BY <1>0
    <3> HIDE DEF new, old, rest
    <3> QED BY <2>4, <2>5, <2>6, <3>1, CongBasics
  <2>8. Cong(old, Minted)
    BY <2>1
  <2>9. Cong(new, Minted)
    <3> HIDE DEF new, old
    <3> QED BY <1>0, <2>5, <2>7, <2>8, CongBasics
  <2>10. pos' - 1 = pos
    BY <1>0, <2>3
  <2> QED BY <1>0, <2>3, <2>9, <2>10
<1>16. CASE ApplyReward
  <2>1. /\ pc = "apply_tx" /\ applied = proposed_block /\ pos > Len(txs)
        /\ txs = proposed_block.tx_list /\ pos <= Len(txs) + 1 /\ Len(txs) \in Nat
        /\ proposed_block.issuer_addr < Len(balance)
        /\ proposed_block.issuer_addr \in Nat
    BY <1>16, BlockFields DEF ApplyReward, applied, TypeOK, LoneInv, AloneInv, KeysInv, IssuerInv
  <2>2. pos - 1 = Len(proposed_block.tx_list)
    BY <1>0, <2>1
  <2>3. /\ balance' = credit(balance, proposed_block.issuer_addr, reward(proposed_block))
        /\ pc' = "apply_penalty" /\ UNCHANGED <<main_chain_block_list, burned>>
    BY <1>16, <2>1, WordSeq DEF ApplyReward, ApplyPenalty, TypeOK
  <2> DEFINE fees == tx_fee * (pos - 1)
             paid == reward(proposed_block)
  <2>4. fees \in Int /\ paid \in Int /\ Cong(paid, mining_reward + fees)
    <3>1. fees \in Int
      BY <1>0
    <3>2. paid = Plus(mining_reward, fees)
      BY <2>2 DEF reward
    <3> HIDE DEF fees, paid
    <3> QED BY <1>0, <3>1, <3>2, CongPlus, PlusType, LedgerAssumption DEF Word
  <2> HIDE DEF paid
  <2>5. total(balance') \in Int /\ Cong(total(balance'), total(balance) + paid)
    BY <1>0, <2>1, <2>3, <2>4, CreditTotal, CreditType, WordSeq, TotalType DEF paid, TypeOK
  <2> DEFINE old == total(balance) + burned + fees
  <2>6. Cong(old, Minted) /\ old \in Int
    BY <1>0, <2>1, <2>4
  <2> HIDE DEF fees
  <2>7. Cong(total(balance') + burned, (total(balance) + paid) + burned)
    <3>1. total(balance) + paid \in Int
      BY <1>0, <2>4
    <3> QED BY <1>0, <2>5, <3>1, CongAdd
  <2>8. Cong((total(balance) + paid) + burned, old + mining_reward)
    <3>1. Cong(paid + (total(balance) + burned),
               (mining_reward + fees) + (total(balance) + burned))
      <4>1. mining_reward + fees \in Int /\ total(balance) + burned \in Int
        BY <1>0, <2>4
      <4> QED BY <2>4, <4>1, CongAdd
    <3>2. /\ (total(balance) + paid) + burned = paid + (total(balance) + burned)
          /\ old + mining_reward = (mining_reward + fees) + (total(balance) + burned)
      BY <1>0, <2>4
    <3> QED BY <3>1, <3>2
  <2> HIDE DEF old
  <2>9. Cong(old + mining_reward, Minted + mining_reward)
    BY <1>0, <2>6, CongBasics
  <2>10. /\ total(balance') + burned \in Int /\ (total(balance) + paid) + burned \in Int
         /\ old + mining_reward \in Int /\ Minted + mining_reward \in Int
    BY <1>0, <2>4, <2>5, <2>6
  <2>11. Cong(total(balance') + burned, Minted + mining_reward)
    BY <2>7, <2>8, <2>9, <2>10, CongBasics
  <2> QED BY <1>0, <2>3, <2>11
<1>17. CASE ApplyPenalty
  <2>1. /\ pc = "apply_penalty" /\ pc' = "issue_key" /\ balance' = penalised(balance)
        /\ burned' = Plus(burned, taken(balance)) /\ UNCHANGED main_chain_block_list
    BY <1>17 DEF ApplyPenalty
  <2>2. /\ total(balance) = total(balance') + taken(balance)
        /\ taken(balance) \in Int /\ total(balance') \in Int /\ burned' \in Int
    BY <1>0, <2>1, PenaltyTotal, PenalisedType, WordSeq, TotalType, PlusType,
       LedgerAssumption DEF Word
  <2>3. Cong(burned', burned + taken(balance))
    BY <1>0, <2>1, <2>2, CongPlus
  <2>4. Cong(burned' + total(balance'), (burned + taken(balance)) + total(balance'))
    <3>1. burned + taken(balance) \in Int
      BY <1>0, <2>2
    <3> QED BY <2>2, <2>3, <3>1, CongAdd
  <2>5. /\ burned' + total(balance') = total(balance') + burned'
        /\ (burned + taken(balance)) + total(balance') = total(balance) + burned
    BY <1>0, <2>2
  <2>6. Cong(total(balance') + burned', Minted + mining_reward)
    <3>1. Cong(total(balance) + burned, Minted + mining_reward)
      BY <2>1
    <3>2. /\ total(balance') + burned' \in Int /\ total(balance) + burned \in Int
          /\ Minted + mining_reward \in Int
      BY <1>0, <2>2
    <3> QED BY <2>4, <2>5, <3>1, <3>2, CongBasics
  <2> QED BY <1>0, <2>1, <2>2, <2>6
<1>18. CASE IssueKey
  BY <1>0, <1>18 DEF IssueKey, ApplyPenalty
<1>19. CASE IssueBalance
  <2>1. /\ pc = "issue_balance" /\ pc' = "append" /\ balance' = Append(balance, 0)
        /\ UNCHANGED <<main_chain_block_list, burned>>
    BY <1>19 DEF IssueBalance, ApplyPenalty
  <2>2. total(balance') = total(balance)
    BY <1>0, <2>1, TotalAppend, WordSeq
  <2> QED BY <1>0, <2>1, <2>2
<1>20. CASE AppendBlock
  <2>1. /\ pc = "append" /\ pc' = "reset" /\ UNCHANGED <<balance, burned>>
        /\ main_chain_block_list' = Append(main_chain_block_list, applied)
    BY <1>20 DEF AppendBlock, ApplyPenalty, LoneInv, AloneInv
  <2>2. Len(main_chain_block_list') = Len(main_chain_block_list) + 1
    BY <2>1 DEF TypeOK
  <2>3. GenesisBalance + mining_reward * Len(main_chain_block_list')
          = Minted + mining_reward
    <3> DEFINE n == Len(main_chain_block_list)
    <3>1. n \in Nat /\ GenesisBalance \in Int
      BY NodeAssumption, LedgerAssumption DEF TypeOK, Word
    <3> HIDE DEF n
    <3>2. mining_reward * (n + 1) = mining_reward * n + mining_reward
          /\ mining_reward * n \in Int
      BY <1>0, <3>1
    <3> QED BY <1>0, <2>2, <3>1, <3>2 DEF n
  <2> QED BY <1>0, <2>1, <2>3
<1> QED
  BY <1>1, <1>1, <1>2, <1>3, <1>4, <1>5, <1>6, <1>7, <1>8, <1>9, <1>10, <1>11, <1>12, <1>13, <1>14, <1>15, <1>16, <1>17, <1>18, <1>19, <1>20
     DEF Ask, ProposeBlock, Replace, ApplyBlock
LEMMA SupplyOther ==
    ASSUME SupplyInv, \/ \E h \in Handlers : Request(h) \/ Finish(h)
                      \/ ShutdownCall
                      \/ UNCHANGED vars,
           burned' = IF ApplyPenalty THEN Plus(burned, taken(balance)) ELSE burned
    PROVE  SupplyInv'
<1>1. UNCHANGED <<pc, pos, balance, main_chain_block_list>>
  BY DEF Request, Finish, ShutdownCall, vars, locals, ledger
<1>2. ~ApplyPenalty
  BY <1>1 DEF ApplyPenalty, goto
<1> QED
  BY <1>1, <1>2 DEF SupplyInv, Minted

LEMMA SupplyInit == ASSUME Lone, AuditInit PROVE SupplyInv
<1> DEFINE coins == Plus(GenesisBalance, mining_reward)
           paid == penalised(<<coins>>)
<1>1. PICK byte \in HashBytes :
        /\ main_chain_block_list = <<GenesisBlock(byte)>>
        /\ balance = Append(paid, 0) /\ burned = taken(<<coins>>) /\ pc = "loop"
  BY DEF AuditInit, Init, Lone
<1>2. GenesisBalance \in Int /\ mining_reward \in Int /\ coins \in Word /\ coins \in Int
  <2>1. GenesisBalance \in Int /\ mining_reward \in Int
    BY LedgerAssumption, NodeAssumption DEF Word
  <2>2. coins \in Word
    BY <2>1, PlusType
  <2> HIDE DEF coins
  <2> QED BY <2>1, <2>2, LedgerAssumption DEF Word
<1>3. Cong(coins, GenesisBalance + mining_reward)
  BY <1>2, CongPlus
<1> HIDE DEF coins
<1>4. <<coins>> \in Seq(Word) /\ <<coins>> \in Seq(Int) /\ Len(<<coins>>) = 1
      /\ <<coins>>[1] = coins
  BY <1>2
<1>5. total(<<coins>>) = coins
  <2>1. 1 \in 1 .. Len(<<coins>>) /\ \A a \in 1 .. Len(<<coins>>) : a # 1 => <<coins>>[a] = 0
    BY <1>4
  <2> QED BY <1>4, <2>1, TotalSingle
<1>6. total(<<coins>>) = total(paid) + taken(<<coins>>) /\ taken(<<coins>>) \in Int
  BY <1>4, PenaltyTotal
<1>7. paid \in Seq(Int)
  BY <1>4, PenalisedType, WordSeq
<1> HIDE DEF paid
<1>8. total(balance) = total(paid) /\ total(paid) \in Int
  BY <1>1, <1>7, TotalAppend, TotalType
<1>9. total(balance) + burned = coins
  BY <1>1, <1>5, <1>6, <1>8
<1>10. Minted = GenesisBalance + mining_reward
  BY <1>1, <1>2 DEF Minted
<1> QED
  BY <1>1, <1>3, <1>6, <1>9, <1>10 DEF SupplyInv, Applying

\* Between two blocks the balances and the burned coins add up to the genesis
\* coins and one reward per block, modulo U32, for any transactions: fees go to
\* the issuer, an overdraft wraps around, and neither makes or loses a coin.
THEOREM SupplyKept == ASSUME Lone PROVE AuditSpec => []Supply
<1>1. AuditInit => SupplyInv
  BY SupplyInit
<1>2. IInv /\ LoneInv /\ SupplyInv /\ [AuditNext]_auditVars => SupplyInv'
  <2> SUFFICES ASSUME IInv, LoneInv, SupplyInv, [AuditNext]_auditVars PROVE SupplyInv'
    OBVIOUS
  <2>1. CASE AuditNext
    <3>1. CASE MainThread
      BY <2>1, <3>1, SupplyMain
    <3>2. CASE ~MainThread
      BY <2>1, <3>2, SupplyOther DEF AuditNext, Next
    <3> QED BY <3>1, <3>2
  <2>2. CASE UNCHANGED auditVars
    BY <2>2 DEF auditVars, vars, locals, ledger, SupplyInv, Minted
  <2> QED BY <2>1, <2>2
<1>3. IInv /\ LoneInv /\ SupplyInv => Supply
  <2> SUFFICES ASSUME IInv, SupplyInv, pc \notin Applying
               PROVE  (total(balance) + burned) % U32 = Minted % U32
    BY DEF Supply, Minted
  <2>1. total(balance) + burned \in Int /\ Minted \in Int
    BY SupplyTypes DEF IInv
  <2> QED BY <2>1, CongMod DEF SupplyInv
<1> QED
  BY <1>1, <1>2, <1>3, AuditSteps, LoneInductive, PTL DEF AuditSpec, Spec
-----------------------------------------------------------------------------
(* The headers *)

\* Nobody gives address 0, the one that the node mines under, to somebody else,
\* neither by a request nor by a signed transaction, and debug_set_key is not
\* used: each of them may change the keys between Propose and Commit.
KeysStay ==
    /\ KeySwitches = {}
    /\ \A req \in AddrTransfers : req.address = 0 => req.pub_key = MyKey
    /\ \A tx \in PushedTxs : tx.type = 2 /\ tx.recv_addr = 0 => tx.bind_pub_key = MyKey

\* Leaves address 0 to its owner
Harmless(list) ==
    \A i \in DOMAIN list :
        list[i].type = 2 /\ list[i].recv_addr = 0 => list[i].bind_pub_key = MyKey

\* The owner of address 0, wherever a transaction may come from
OwnerInv ==
    /\ my_primary_address = 0 /\ my_pub_key = MyKey /\ my_prv_key = MyKey
    /\ a2pk # <<>> /\ a2pk[1] = MyKey
    /\ Harmless(tx_list) /\ Harmless(tmp.tx_list) /\ Harmless(proposed_block.tx_list)
    /\ Harmless(txs)
    /\ \A h \in Handlers :
          /\ thread[h].at \notin {"set_pub", "set_prv"}
          /\ Harmless(<<thread[h].tx>>) /\ Harmless(thread[h].seen)

\* The number of the own block
NumberInv ==
    /\ pc \in {"copy", "clear", "seal"} \cup Replacing => tmp.id = Plus(last_block.id, 1)
    /\ Proposed \/ pc \in Applying => proposed_block.id = Plus(last_block.id, 1)

\* Its issuer
IssuedByMe ==
    /\ pc \in {"copy", "clear", "seal"} \cup Replacing => tmp.issuer_addr = 0
    /\ pc \in {"clear", "seal"} \cup Replacing => tmp.issuer_pub_key = MyKey
    /\ pc \in Replacing => verifies(tmp.sign, MyKey)
    /\ Proposed => /\ proposed_block.issuer_addr = 0
                   /\ proposed_block.issuer_pub_key = MyKey
                   /\ verifies(proposed_block.sign, MyKey)

\* Blocks are numbered one after the other, as far as the numbers go, and a
\* round starts below the bound.
NumbersInv ==
    /\ ChainIds
    /\ pc \notin {"loop", "reset", "done", "crashed"} =>
           Len(main_chain_block_list) < MaxHeight
\* Outside the main thread nothing happens to the ledger and the proposal.
LEMMA LoneQuiet ==
    ASSUME Lone, IInv, LoneInv, \/ \E h \in Handlers : Request(h) \/ Finish(h)
                                \/ ShutdownCall
                                \/ UNCHANGED vars
    PROVE  UNCHANGED <<pc, caller, tmp, txs, pos, main_chain_block_list, done_tx_hash,
                       a2pk, balance, is_proposal_valid, proposed_block>>
<1>1. UNCHANGED <<pc, caller, tmp, txs, pos, main_chain_block_list, done_tx_hash,
                  a2pk, balance>>
  BY DEF Request, Finish, ShutdownCall, vars, locals, ledger
<1>2. ASSUME NEW h \in Handlers, Request(h) \/ Finish(h)
      PROVE  UNCHANGED <<is_proposal_valid, proposed_block>>
  <2>1. ~ProposedBlockPush(h) /\ ~PushFlag(h) /\ ~PushBlock(h)
    BY DEF ProposedBlockPush, PushFlag, PushBlock, Lone, LoneInv, AloneInv
  <2>2. \A tx : accept(h, tx) => UNCHANGED proposal
    BY DEF accept
  <2> QED
    BY <1>2, <2>1, <2>2 DEF Request, Finish, Transfer, AddressTransfer, TxPush,
       DebugSetKey, PushLoad, PushStore, SetPubKey, SetPrvKey, proposal
<1> QED
  BY <1>1, <1>2 DEF ShutdownCall, vars, proposal

\* The own block is the next one.
LEMMA NumberMain ==
    ASSUME Lone, IInv, LoneInv, NumberInv, MainThread PROVE NumberInv'
<1> USE DEF NumberInv, LoneInv, Proposed, IInv, CallerInv, AloneInv, Asking, Replacing,
            Applying, Downloading, MainThread, ledger, proposal, locals, goto, after,
            last_block
<1>1. ~(AskHeight \/ DownloadEnd \/ Download \/ GenesisKey \/ GenesisCoins
        \/ AskProposal)
  BY LoneActions
<1>2. CASE LoopHead
  BY <1>2 DEF LoopHead
<1>3. CASE Branch
  BY <1>3 DEF Branch
<1>4. CASE Tick
  BY <1>4 DEF Tick
<1>5. CASE Commit
  BY <1>5 DEF Commit
<1>6. CASE Reset
  BY <1>6 DEF Reset
<1>7. CASE AskNobody
  BY <1>7 DEF AskNobody
<1>8. CASE Propose
  <2>1. tmp'.id = Plus(last_block.id, 1) /\ pc' = "copy" /\ UNCHANGED main_chain_block_list
    BY <1>8 DEF Propose, EmptyBlock, AloneInv
  <2> QED BY <2>1
<1>9. CASE CopyQueue
  <2>1. tmp'.id = tmp.id
    BY <1>9 DEF CopyQueue, TypeOK, Block
  <2> QED BY <1>9, <2>1 DEF CopyQueue
<1>10. CASE ClearQueue
  BY <1>10 DEF ClearQueue
<1>11. CASE Seal
  <2>1. tmp'.id = tmp.id
    BY <1>11, SealFields
  <2> QED BY <1>11, <2>1 DEF Seal
<1>12. CASE ReplaceTest
  BY <1>12 DEF ReplaceTest, beats, FlagInv
<1>13. CASE ReplaceFlag
  BY <1>13 DEF ReplaceFlag
<1>14. CASE ReplaceBlock
  BY <1>14 DEF ReplaceBlock
<1>15. CASE ApplyTx
  BY <1>15 DEF ApplyTx
<1>16. CASE ApplyReward
  BY <1>16 DEF ApplyReward
<1>17. CASE ApplyPenalty
  BY <1>17 DEF ApplyPenalty
<1>18. CASE IssueKey
  BY <1>18 DEF IssueKey
<1>19. CASE IssueBalance
  BY <1>19 DEF IssueBalance
<1>20. CASE AppendBlock
  BY <1>20 DEF AppendBlock
<1> QED
  BY <1>1, <1>1, <1>2, <1>3, <1>4, <1>5, <1>6, <1>7, <1>8, <1>9, <1>10, <1>11, <1>12, <1>13, <1>14, <1>15, <1>16, <1>17, <1>18, <1>19, <1>20
     DEF Ask, ProposeBlock, Replace, ApplyBlock

LEMMA NumberStep ==
    ASSUME Lone, IInv, LoneInv, NumberInv, [Next]_vars PROVE NumberInv'
<1>1. CASE MainThread
  BY <1>1, NumberMain
<1>2. CASE ~MainThread
  <2>1. UNCHANGED <<pc, caller, tmp, main_chain_block_list, proposed_block>>
    BY <1>2, LoneQuiet DEF Next
  <2> QED BY <2>1 DEF NumberInv, Proposed, last_block
<1> QED BY <1>1, <1>2

LEMMA NumbersMain ==
    ASSUME Lone, MaxHeight <= U32, IInv, LoneInv, NumberInv, NumbersInv, MainThread
    PROVE  NumbersInv'
<1> USE DEF NumbersInv, ChainIds, LoneInv, IInv, CallerInv, AloneInv, Asking,
            Replacing, Applying, Downloading, MainThread, ledger, proposal, locals,
            goto, after
<1>1. ~(AskHeight \/ DownloadEnd \/ Download \/ GenesisKey \/ GenesisCoins
        \/ AskProposal)
  BY LoneActions
<1>2. CASE LoopHead
  BY <1>2 DEF LoopHead
<1>3. CASE Branch
  BY <1>3 DEF Branch
<1>4. CASE Tick
  BY <1>4 DEF Tick
<1>5. CASE Commit
  BY <1>5 DEF Commit
<1>6. CASE Reset
  BY <1>6 DEF Reset
<1>7. CASE AskNobody
  BY <1>7 DEF AskNobody
<1>8. CASE Propose
  BY <1>8 DEF Propose
<1>9. CASE CopyQueue
  BY <1>9 DEF CopyQueue
<1>10. CASE ClearQueue
  BY <1>10 DEF ClearQueue
<1>11. CASE Seal
  BY <1>11 DEF Seal
<1>12. CASE ReplaceTest
  BY <1>12 DEF ReplaceTest
<1>13. CASE ReplaceFlag
  BY <1>13 DEF ReplaceFlag
<1>14. CASE ReplaceBlock
  BY <1>14 DEF ReplaceBlock
<1>15. CASE ApplyTx
  BY <1>15 DEF ApplyTx
<1>16. CASE ApplyReward
  BY <1>16 DEF ApplyReward
<1>17. CASE ApplyPenalty
  BY <1>17 DEF ApplyPenalty
<1>18. CASE IssueKey
  BY <1>18 DEF IssueKey
<1>19. CASE IssueBalance
  BY <1>19 DEF IssueBalance
<1>20. CASE AppendBlock
  <2> DEFINE n == Len(main_chain_block_list)
  <2>1. /\ applied = proposed_block /\ pc' = "reset" /\ n < MaxHeight
        /\ main_chain_block_list' = Append(main_chain_block_list, proposed_block)
    BY <1>20 DEF AppendBlock, applied
  <2>2. /\ n \in Nat /\ n > 0 /\ DOMAIN main_chain_block_list = 1 .. n
        /\ DOMAIN main_chain_block_list' = 1 .. n + 1
        /\ main_chain_block_list'[n + 1] = proposed_block
        /\ \A i \in 1 .. n : main_chain_block_list'[i] = main_chain_block_list[i]
    BY <2>1 DEF TypeOK
  <2>3. last_block.id = n - 1 /\ proposed_block.id = Plus(last_block.id, 1)
    BY <1>20, <2>2 DEF last_block, NumberInv, AppendBlock
  <2> HIDE DEF n
  <2>4. (n - 1) + 1 = n /\ n \in 0 .. U32 - 1
    BY <2>1, <2>2, LedgerAssumption, NodeAssumption
  <2>5. proposed_block.id = n
    BY <2>3, <2>4, LedgerAssumption DEF Plus
  <2>6. \A i \in 1 .. n + 1 : i \in 1 .. n \/ i = n + 1
    BY <2>2
  <2>7. \A i \in 1 .. n : main_chain_block_list'[i].id = i - 1
    BY <2>2
  <2>8. (n + 1) - 1 = n
    BY <2>2
  <2>9. \A i \in 1 .. n + 1 : main_chain_block_list'[i].id = i - 1
    BY <2>2, <2>5, <2>6, <2>7, <2>8
  <2> QED BY <2>1, <2>2, <2>9
<1> QED
  BY <1>1, <1>2, <1>3, <1>4, <1>5, <1>6, <1>7, <1>8, <1>9, <1>10, <1>11, <1>12, <1>13, <1>14, <1>15, <1>16, <1>17, <1>18, <1>19, <1>20
     DEF Ask, ProposeBlock, Replace, ApplyBlock

\* Block number i has id i: the blocks of a lone node are numbered without a gap,
\* in a chain of at most U32 blocks.
THEOREM IdsFollow == ASSUME Lone, MaxHeight <= U32 PROVE AuditSpec => []ChainIds
<1>1. ASSUME Init PROVE NumberInv /\ NumbersInv
  <2>1. PICK byte \in HashBytes : main_chain_block_list = <<GenesisBlock(byte)>>
    BY <1>1 DEF Init, Lone
  <2>2. GenesisBlock(byte).id = 0
    BY DEF GenesisBlock, block_sign, EmptyBlock
  <2> QED
    BY <1>1, <2>1, <2>2 DEF Init, NumberInv, NumbersInv, ChainIds, Proposed, Applying,
       Replacing
<1>2. ASSUME IInv, LoneInv, NumberInv, NumbersInv, [Next]_vars
      PROVE  NumbersInv'
  <2>1. CASE MainThread
    BY <1>2, <2>1, NumbersMain
  <2>2. CASE ~MainThread
    <3>1. UNCHANGED <<pc, main_chain_block_list>>
      BY <1>2, <2>2, LoneQuiet DEF Next
    <3> QED BY <1>2, <3>1 DEF NumbersInv, ChainIds
  <2> QED BY <2>1, <2>2
<1>3. NumbersInv => ChainIds
  BY DEF NumbersInv
<1> QED
  BY <1>1, <1>2, <1>3, NumberStep, AuditSteps, LoneInductive, PTL DEF AuditSpec, Spec
\* Weighing leaves addresses and keys alone.
LEMMA WeighedHarmless ==
    ASSUME NEW old \in Seq(Tx), NEW new \in Seq(Tx), Len(new) = Len(old),
           \A i \in 1 .. Len(old) : new[i] = [old[i] EXCEPT !.tail = Weighed(@)],
           Harmless(old)
    PROVE  Harmless(new)
<1>1. DOMAIN old = 1 .. Len(old) /\ DOMAIN new = 1 .. Len(old)
  OBVIOUS
<1> SUFFICES ASSUME NEW i \in 1 .. Len(old), new[i].type = 2, new[i].recv_addr = 0
             PROVE  new[i].bind_pub_key = MyKey
  BY <1>1 DEF Harmless
<1>2. old[i] \in Tx
  BY <1>1
<1>3. /\ new[i].type = old[i].type /\ new[i].recv_addr = old[i].recv_addr
      /\ new[i].bind_pub_key = old[i].bind_pub_key
  BY <1>2 DEF Tx
<1> QED
  BY <1>1, <1>3 DEF Harmless

LEMMA OwnerMain ==
    ASSUME Lone, IInv, LoneInv, OwnerInv, MainThread PROVE OwnerInv'
<1> USE DEF OwnerInv, IInv, MainThread, ledger, proposal, locals, identity, goto
<1>0. Harmless(<<>>)
  BY DEF Harmless
<1>1. ~(AskHeight \/ DownloadEnd \/ Download \/ GenesisKey \/ GenesisCoins
        \/ AskProposal)
  BY LoneActions
<1>2. CASE LoopHead
  BY <1>2 DEF LoopHead
<1>3. CASE Branch
  BY <1>3 DEF Branch
<1>4. CASE Tick
  BY <1>4 DEF Tick
<1>5. CASE Commit
  BY <1>5 DEF Commit
<1>6. CASE Reset
  BY <1>0, <1>6 DEF Reset, Forget, EmptyBlock
<1>7. CASE AskNobody
  BY <1>7 DEF AskNobody
<1>8. CASE Propose
  <2>1. tmp'.tx_list = <<>>
    BY <1>8 DEF Propose, EmptyBlock, LoneInv, AloneInv
  <2> QED BY <1>0, <1>8, <2>1 DEF Propose
<1>9. CASE CopyQueue
  <2>1. tmp'.tx_list = tx_list
    BY <1>9 DEF CopyQueue, TypeOK, Block
  <2> QED BY <1>9, <2>1 DEF CopyQueue
<1>10. CASE ClearQueue
  BY <1>0, <1>10 DEF ClearQueue
<1>11. CASE Seal
  <2>1. tmp.tx_list \in Seq(Tx) /\ tmp'.tx_list \in Seq(Tx)
    <3>1. tmp \in Block /\ tmp' \in Block
      BY <1>11, SealType DEF TypeOK
    <3> QED BY <3>1, BlockFields
  <2>2. /\ Len(tmp'.tx_list) = Len(tmp.tx_list)
        /\ \A i \in 1 .. Len(tmp.tx_list) :
               tmp'.tx_list[i] = [tmp.tx_list[i] EXCEPT !.tail = Weighed(@)]
    BY <1>11, SealFields
  <2>3. Harmless(tmp.tx_list)
    OBVIOUS
  <2>4. Harmless(tmp'.tx_list)
    BY <2>1, <2>2, <2>3, WeighedHarmless
  <2> QED BY <1>11, <2>4 DEF Seal
<1>12. CASE ReplaceTest
  BY <1>0, <1>12 DEF ReplaceTest, Forget, EmptyBlock
<1>13. CASE ReplaceFlag
  BY <1>13 DEF ReplaceFlag
<1>14. CASE ReplaceBlock
  BY <1>0, <1>14 DEF ReplaceBlock, Forget, EmptyBlock
<1>15. CASE ApplyTx
  <2>1. pc = "apply_tx" /\ applied = proposed_block /\ pos \in 1 .. Len(txs)
        /\ DOMAIN txs = 1 .. Len(txs) /\ txs = proposed_block.tx_list
    BY <1>15 DEF ApplyTx, applied, TypeOK, LoneInv, AloneInv, KeysInv, Applying
  <2>2. a2pk' = tx_apply_owner(txs[pos], a2pk) \/ UNCHANGED a2pk
    BY <1>15, <2>1 DEF ApplyTx
  <2>3. txs[pos].type = 2 /\ txs[pos].recv_addr = 0 => txs[pos].bind_pub_key = MyKey
    BY <2>1 DEF Harmless
  <2>4. txs[pos] \in Tx
    BY <2>1 DEF TypeOK
  <2>5. a2pk \in Seq(Keys) /\ 1 \in DOMAIN a2pk
    BY DEF TypeOK
  <2>6. tx_apply_owner(txs[pos], a2pk) # <<>> /\ tx_apply_owner(txs[pos], a2pk)[1] = MyKey
    <3>1. txs[pos].recv_addr \in Nat
      BY <2>4, TxFields
    <3> QED BY <2>3, <2>5, <3>1 DEF tx_apply_owner
  <2>7. a2pk' # <<>> /\ a2pk'[1] = MyKey
    BY <2>2, <2>6
  <2> QED BY <1>15, <2>7 DEF ApplyTx
<1>16. CASE ApplyReward
  BY <1>16 DEF ApplyReward
<1>17. CASE ApplyPenalty
  BY <1>17 DEF ApplyPenalty
<1>18. CASE IssueKey
  <2>1. a2pk' # <<>> /\ a2pk'[1] = MyKey
    BY <1>18 DEF IssueKey, TypeOK
  <2> QED BY <1>18, <2>1 DEF IssueKey
<1>19. CASE IssueBalance
  BY <1>19 DEF IssueBalance
<1>20. CASE AppendBlock
  BY <1>20 DEF AppendBlock
<1> QED
  BY <1>1, <1>1, <1>2, <1>3, <1>4, <1>5, <1>6, <1>7, <1>8, <1>9, <1>10, <1>11, <1>12, <1>13, <1>14, <1>15, <1>16, <1>17, <1>18, <1>19, <1>20
     DEF Ask, ProposeBlock, Replace, ApplyBlock

LEMMA OwnerHandler ==
    ASSUME Lone, KeysStay, IInv, LoneInv, OwnerInv, NEW h \in Handlers,
           Request(h) \/ Finish(h)
    PROVE  OwnerInv'
<1>0. my_primary_address \in Word /\ my_pub_key \in Keys /\ my_prv_key \in Keys
  BY DEF IInv, TypeOK
<1>1. UNCHANGED <<a2pk, tmp, proposed_block, txs>>
  BY LoneQuiet
<1>2. DOMAIN thread = Handlers
  BY DEF IInv, TypeOK
<1>3. ASSUME UNCHANGED identity, Harmless(tx_list'),
             \A g \in Handlers : /\ thread'[g].at \notin {"set_pub", "set_prv"}
                                 /\ Harmless(<<thread'[g].tx>>) /\ Harmless(thread'[g].seen)
      PROVE  OwnerInv'
  BY <1>1, <1>3 DEF OwnerInv, identity
<1>4. /\ Harmless(tx_list)
      /\ \A g \in Handlers : /\ thread[g].at \notin {"set_pub", "set_prv"}
                             /\ Harmless(<<thread[g].tx>>) /\ Harmless(thread[g].seen)
  BY DEF OwnerInv
<1>5. ASSUME NEW signed \in Tx, accept(h, signed),
             signed.type = 2 /\ signed.recv_addr = 0 => signed.bind_pub_key = MyKey
      PROVE  OwnerInv'
  <2>0. PICK tail \in Garbage :
          /\ thread' = [thread EXCEPT ![h] =
                [@ EXCEPT !.at = "load", !.tx = [signed EXCEPT !.tail = tail]]]
          /\ UNCHANGED <<tx_list, identity>>
    BY <1>5 DEF accept
  <2> DEFINE tx == [signed EXCEPT !.tail = tail]
  <2>1. Harmless(<<tx>>)
    BY <1>5 DEF Harmless, Tx
  <2> HIDE DEF tx
  <2>2. thread' = [thread EXCEPT ![h] = [@ EXCEPT !.at = "load", !.tx = tx]]
        /\ UNCHANGED <<tx_list, identity>>
    BY <2>0 DEF tx
  <2>3. thread'[h].at = "load" /\ thread'[h].tx = tx /\ thread'[h].seen = thread[h].seen
    BY <2>2 DEF IInv, TypeOK
  <2>4. \A g \in Handlers : g # h => thread'[g] = thread[g]
    BY <1>2, <2>2
  <2> QED BY <1>3, <1>4, <2>1, <2>2, <2>3, <2>4
<1>6. CASE Transfer(h)
  <2> DEFINE tx(req) == tx_sign([NullTx EXCEPT !.type = 1, !.amount = req.amount,
                                               !.send_addr = req.from,
                                               !.recv_addr = req.to],
                                my_pub_key, my_prv_key)
  <2>1. PICK req \in Transfers : accept(h, tx(req))
    BY <1>6 DEF Transfer
  <2>2. tx(req).type = 1
    BY DEF tx_sign, NullTx
  <2>3. tx(req) \in Tx
    <3>1. [NullTx EXCEPT !.type = 1, !.amount = req.amount,
                         !.send_addr = req.from, !.recv_addr = req.to] \in Tx
      BY ConstantTypes, NodeAssumption DEF Tx
    <3> QED BY <1>0, <3>1, SignTx
  <2> HIDE DEF tx
  <2> QED BY <1>5, <2>1, <2>2, <2>3
<1>7. CASE AddressTransfer(h)
  <2> DEFINE tx(req) == tx_sign([NullTx EXCEPT !.type = 2,
                                               !.send_addr = my_primary_address,
                                               !.recv_addr = req.address,
                                               !.bind_pub_key = req.pub_key],
                                my_pub_key, my_prv_key)
  <2>1. PICK req \in AddrTransfers : accept(h, tx(req))
    BY <1>7 DEF AddressTransfer
  <2>2. tx(req).recv_addr = 0 => tx(req).bind_pub_key = MyKey
    BY DEF tx_sign, NullTx, KeysStay
  <2>3. tx(req) \in Tx
    <3>1. [NullTx EXCEPT !.type = 2, !.send_addr = my_primary_address,
                         !.recv_addr = req.address,
                         !.bind_pub_key = req.pub_key] \in Tx
      BY <1>0, ConstantTypes, NodeAssumption DEF Tx
    <3> QED BY <1>0, <3>1, SignTx
  <2> HIDE DEF tx
  <2> QED BY <1>5, <2>1, <2>2, <2>3
<1>8. CASE TxPush(h)
  BY <1>5, <1>8, NodeAssumption DEF TxPush, KeysStay
<1>9. ~ProposedBlockPush(h) /\ ~DebugSetKey(h)
  BY DEF ProposedBlockPush, DebugSetKey, Lone, KeysStay
<1>10. CASE PushLoad(h)
  <2>1. thread' = [thread EXCEPT ![h] = [@ EXCEPT !.at = "store", !.seen = tx_list]]
        /\ UNCHANGED <<tx_list, identity>>
    BY <1>10 DEF PushLoad
  <2>2. thread'[h].at = "store" /\ thread'[h].tx = thread[h].tx /\ thread'[h].seen = tx_list
    BY <2>1 DEF IInv, TypeOK
  <2>3. \A g \in Handlers : g # h => thread'[g] = thread[g]
    BY <1>2, <2>1
  <2> QED BY <1>3, <1>4, <2>1, <2>2, <2>3
<1>11. CASE PushStore(h)
  <2>1. /\ tx_list' = Append(thread[h].seen, thread[h].tx)
        /\ thread' = [thread EXCEPT ![h] = Resting] /\ UNCHANGED identity
    BY <1>11 DEF PushStore
  <2>2. Harmless(tx_list')
    <3> DEFINE seen == thread[h].seen
               tx == thread[h].tx
    <3>1. seen \in Seq(Tx) /\ tx \in Tx /\ Harmless(seen) /\ Harmless(<<tx>>)
      BY <1>4, ThreadFields DEF IInv
    <3>2. tx.type = 2 /\ tx.recv_addr = 0 => tx.bind_pub_key = MyKey
      <4> HIDE DEF tx
      <4>1. 1 \in DOMAIN <<tx>> /\ <<tx>>[1] = tx
        OBVIOUS
      <4> QED BY <3>1, <4>1 DEF Harmless
    <3>3. \A i \in DOMAIN Append(seen, tx) :
             Append(seen, tx)[i] = tx \/ (i \in DOMAIN seen /\ Append(seen, tx)[i] = seen[i])
      BY <3>1
    <3> HIDE DEF seen, tx
    <3>4. Harmless(Append(seen, tx))
      BY <3>1, <3>2, <3>3 DEF Harmless
    <3> QED BY <2>1, <3>4 DEF seen, tx
  <2>3. /\ thread'[h] = Resting
        /\ \A g \in Handlers : g # h => thread'[g] = thread[g]
    BY <1>2, <2>1
  <2>4. Harmless(<<Resting.tx>>) /\ Harmless(Resting.seen) /\ Resting.at = "idle"
    BY DEF Harmless, Resting, NullTx
  <2> QED BY <1>3, <1>4, <2>1, <2>2, <2>3, <2>4
<1>12. ~PushFlag(h) /\ ~PushBlock(h) /\ ~SetPubKey(h) /\ ~SetPrvKey(h)
  BY <1>4 DEF PushFlag, PushBlock, SetPubKey, SetPrvKey, LoneInv, AloneInv
<1> QED
  BY <1>6, <1>7, <1>8, <1>9, <1>10, <1>11, <1>12 DEF Request, Finish

LEMMA OwnerStep ==
    ASSUME Lone, KeysStay, IInv, LoneInv, OwnerInv, [Next]_vars PROVE OwnerInv'
<1>1. CASE ShutdownCall \/ UNCHANGED vars
  BY <1>1 DEF ShutdownCall, vars, ledger, proposal, identity, locals, OwnerInv
<1> QED
  BY <1>1, OwnerMain, OwnerHandler DEF Next

LEMMA IssuedMain ==
    ASSUME Lone, IInv, LoneInv, OwnerInv, IssuedByMe, MainThread PROVE IssuedByMe'
<1> USE DEF IssuedByMe, OwnerInv, LoneInv, Proposed, IInv, CallerInv, AloneInv, Asking,
            Replacing, Applying, Downloading, MainThread, ledger, proposal, locals,
            goto, after
<1>1. ~(AskHeight \/ DownloadEnd \/ Download \/ GenesisKey \/ GenesisCoins
        \/ AskProposal)
  BY LoneActions
<1>2. CASE LoopHead
  BY <1>2 DEF LoopHead
<1>3. CASE Branch
  BY <1>3 DEF Branch
<1>4. CASE Tick
  BY <1>4 DEF Tick
<1>5. CASE Commit
  BY <1>5 DEF Commit
<1>6. CASE Reset
  BY <1>6 DEF Reset
<1>7. CASE AskNobody
  BY <1>7 DEF AskNobody
<1>8. CASE Propose
  <2>1. tmp'.issuer_addr = 0 /\ pc' = "copy"
    BY <1>8 DEF Propose, EmptyBlock, AloneInv
  <2> QED BY <2>1
<1>9. CASE CopyQueue
  <2>1. tmp'.issuer_addr = tmp.issuer_addr /\ tmp'.issuer_pub_key = my_pub_key
    BY <1>9 DEF CopyQueue, TypeOK, Block
  <2> QED BY <1>9, <2>1 DEF CopyQueue
<1>10. CASE ClearQueue
  BY <1>10 DEF ClearQueue
<1>11. CASE Seal
  <2>1. /\ tmp'.issuer_addr = tmp.issuer_addr /\ tmp'.issuer_pub_key = tmp.issuer_pub_key
        /\ tmp'.sign = signature(my_pub_key, my_prv_key)
    BY <1>11, SealFields
  <2>2. verifies(tmp'.sign, MyKey)
    BY <2>1, LedgerAssumption, NodeAssumption DEF signature, verifies
  <2> QED BY <1>11, <2>1, <2>2 DEF Seal
<1>12. CASE ReplaceTest
  BY <1>12 DEF ReplaceTest, beats, FlagInv
<1>13. CASE ReplaceFlag
  BY <1>13 DEF ReplaceFlag
<1>14. CASE ReplaceBlock
  BY <1>14 DEF ReplaceBlock
<1>15. CASE ApplyTx
  BY <1>15 DEF ApplyTx
<1>16. CASE ApplyReward
  BY <1>16 DEF ApplyReward
<1>17. CASE ApplyPenalty
  BY <1>17 DEF ApplyPenalty
<1>18. CASE IssueKey
  BY <1>18 DEF IssueKey
<1>19. CASE IssueBalance
  BY <1>19 DEF IssueBalance
<1>20. CASE AppendBlock
  BY <1>20 DEF AppendBlock
<1> QED
  BY <1>1, <1>1, <1>2, <1>3, <1>4, <1>5, <1>6, <1>7, <1>8, <1>9, <1>10, <1>11, <1>12, <1>13, <1>14, <1>15, <1>16, <1>17, <1>18, <1>19, <1>20
     DEF Ask, ProposeBlock, Replace, ApplyBlock

LEMMA IssuedStep ==
    ASSUME Lone, IInv, LoneInv, OwnerInv, IssuedByMe, [Next]_vars PROVE IssuedByMe'
<1>1. CASE MainThread
  BY <1>1, IssuedMain
<1>2. CASE ~MainThread
  <2>1. UNCHANGED <<pc, caller, tmp, proposed_block>>
    BY <1>2, LoneQuiet DEF Next
  <2> QED BY <1>2, <2>1 DEF IssuedByMe, Proposed
<1> QED BY <1>1, <1>2

\* The own block would pass the check of its header, whose answer block_validate
\* does not use, when it is committed: it follows the last block, and its issuer
\* still owns the address it is issued from.
THEOREM HeaderStaysValid ==
    ASSUME Lone, KeysStay PROVE AuditSpec => []HeaderValidAtCommit
<1>1. ASSUME Init PROVE OwnerInv /\ NumberInv /\ IssuedByMe
  <2>1. a2pk = <<MyKey, MyKey>>
    BY <1>1 DEF Init, Lone
  <2>2. Harmless(<<>>) /\ Harmless(<<NullTx>>)
    BY DEF Harmless, NullTx
  <2>3. OwnerInv
    BY <1>1, <2>1, <2>2 DEF Init, OwnerInv, Resting, EmptyBlock
  <2> QED
    BY <1>1, <2>3 DEF Init, NumberInv, IssuedByMe, Proposed, Applying, Replacing
<1>2. ASSUME IInv, LoneInv, OwnerInv, NumberInv, IssuedByMe, pc = "assert"
      PROVE  block_header_validate(proposed_block, main_chain_block_list, a2pk)
  <2>1. /\ proposed_block.id = Plus(last_block.id, 1) /\ proposed_block.issuer_addr = 0
        /\ proposed_block.issuer_pub_key = MyKey
        /\ verifies(proposed_block.sign, MyKey)
    BY <1>2 DEF NumberInv, IssuedByMe, Proposed
  <2>2. last_block \in Block
    BY <1>2 DEF IInv, TypeOK, LoneInv, AloneInv, last_block
  <2>3. (proposed_block.id - 1) % U32 = last_block.id
    <3>1. last_block.id \in 0 .. U32 - 1
      BY <2>2 DEF Block, Word
    <3>2. CASE last_block.id + 1 < U32
      <4>1. Plus(last_block.id, 1) = last_block.id + 1
        BY <3>1, <3>2, LedgerAssumption DEF Plus
      <4>2. proposed_block.id = last_block.id + 1
        BY <2>1, <4>1
      <4>3. (last_block.id + 1) - 1 = last_block.id /\ last_block.id % U32 = last_block.id
        BY <3>1, LedgerAssumption
      <4> QED BY <4>2, <4>3
    <3>3. CASE last_block.id + 1 = U32
      <4>1. Plus(last_block.id, 1) = 0
        BY <3>3, LedgerAssumption DEF Plus
      <4>2. (0 - 1) % U32 = U32 - 1
        BY LedgerAssumption
      <4> QED BY <2>1, <3>1, <3>3, <4>1, <4>2, LedgerAssumption
    <3> QED BY <3>1, <3>2, <3>3, LedgerAssumption
  <2>4. 0 < Len(a2pk) /\ At(a2pk, 0) = MyKey
    BY <1>2 DEF OwnerInv, IInv, TypeOK, At
  <2>5. verifies(proposed_block.sign, proposed_block.issuer_pub_key)
    BY <2>1 DEF verifies
  <2> QED BY <2>1, <2>3, <2>4, <2>5 DEF block_header_validate, last_block, At, verifies
<1>3. IInv /\ LoneInv /\ OwnerInv /\ NumberInv /\ IssuedByMe => HeaderValidAtCommit
  BY <1>2 DEF HeaderValidAtCommit
<1> QED
  BY <1>1, <1>3, OwnerStep, NumberStep, IssuedStep, AuditSteps, LoneInductive, PTL
     DEF AuditSpec, Spec
=============================================================================
