-------------------------------- MODULE Node --------------------------------
(***************************************************************************)
(* One running node: the main thread (main.cpp's loop, with net_ask_con,   *)
(* block_propose, proposed_block_replace and block_apply unfolded into the *)
(* accesses of shared memory they make) and the threads of the two HTTP    *)
(* servers, which run the RPC handlers against the same globals.  The code *)
(* takes no lock, so every access of a global by one thread is an action   *)
(* and the threads interleave freely.                                      *)
(*                                                                         *)
(* The other nodes are only what they send: heights, blocks, proposals.    *)
(***************************************************************************)
EXTENDS Ledger

CONSTANTS
    Seed,             \* TRUE: this node starts the chain (i_am_seed_node)
    MyKey,            \* the key pair of pub.key and prv.key
    GenesisBalance,   \* 1e6
    SubTicks,         \* net_ticks between propose and commit, 5 in the code
    DownloadLimit,    \* blocks fetched per net_ask_con, 40 in the code
    Handlers,         \* the threads of the HTTP servers
    Transfers,        \* transfer requests: records from, to, amount
    AddrTransfers,    \* address_transfer requests: records address, pub_key
    PushedTxs,        \* transactions sent to tx_push
    KeySwitches,      \* debug_set_key requests: records address, key, prv
    PushedBlocks,     \* blocks sent to proposed_block_push
    PeerHeights,      \* answers of peers to bc_height; {}: there is no peer
    PeerBlocks,       \* their blocks, as in their memory, for get_block_number
    PeerProposals,    \* the same for get_proposed_block
    Shutdown,         \* TRUE: the shutdown call may come
    Stray,            \* what may lie behind the end of the vector balance
    MaxHeight,        \* bound: no iteration of the main loop starts above it
    MaxQueue          \* bound: no request is taken when tx_list is this long

ASSUME NodeAssumption ==
    /\ {Seed, Shutdown} \subseteq BOOLEAN
    /\ MyKey \in PubKeys
    /\ GenesisBalance \in Word
    /\ {SubTicks, DownloadLimit, MaxHeight, MaxQueue} \subseteq Nat
    /\ PushedTxs \subseteq Tx
    /\ Transfers \subseteq [from : Word, to : Word, amount : Word]
    /\ AddrTransfers \subseteq [address : Word, pub_key : Keys]
    /\ KeySwitches \subseteq [address : Word, key : Keys, prv : Keys]
    /\ PushedBlocks \cup PeerBlocks \cup PeerProposals \subseteq Block
    /\ PeerHeights \subseteq Nat
    /\ Stray # {} /\ Stray \subseteq Word

VARIABLES
    ready, tx_list, done_tx_hash, a2pk, balance,         \* struct MemState
    main_chain_block_list, is_proposal_valid, proposed_block,
    my_primary_address, my_pub_key, my_prv_key,
    work,               \* LocalServer::work, cleared by shutdown
    pc,                 \* where the main thread is
    caller,             \* whose call it is in: "loop", "propose", "tick", "commit"
    tick,               \* i of the subtick loop
    bh, remote, limit,  \* locals of net_ask_con
    tmp,                \* its local block, or the one of block_propose
    txs,                \* what the loop over tx_list in block_apply runs over
    pos,                \* and how far it is
    thread              \* the handler threads: where each is, its locals

ledger   == <<a2pk, balance, done_tx_hash, main_chain_block_list>>
proposal == <<is_proposal_valid, proposed_block>>
identity == <<my_primary_address, my_pub_key, my_prv_key>>
locals   == <<caller, tick, bh, remote, limit, tmp, txs, pos>>
vars     == <<ready, tx_list, ledger, proposal, identity, work, pc, locals,
              thread>>

\* A handler thread between two requests
NullTx  == [type |-> 0, amount |-> 0, send_addr |-> 0, recv_addr |-> 0,
            bind_pub_key |-> NoKey, hash |-> "zero", sign |-> NoSign,
            tail |-> NoTail]
Resting == [at |-> "idle", tx |-> NullTx, seen |-> <<>>, block |-> EmptyBlock,
            address |-> 0, key |-> NoKey, prv |-> NoKey]

\* gms.main_chain_block_list.back()
last_block == main_chain_block_list[Len(main_chain_block_list)]

\* Mutant: block_apply on the local block
applied_local == tmp

\* The block that block_apply got by reference
applied == IF caller = "commit" THEN proposed_block ELSE tmp

-----------------------------------------------------------------------------
(* Start: a seed node has run gms_init, another node has an empty chain.   *)

\* header.id is 0, no transaction: accounts 0 (with the genesis coins and the
\* mining reward) and 1 (new, empty) both belong to the seed's key.
GenesisBlock(byte) ==
    block_sign([EmptyBlock EXCEPT !.issuer_pub_key = MyKey], MyKey, MyKey, byte)

Init ==
    /\ IF Seed
       THEN \E byte \in HashBytes :
              /\ main_chain_block_list = <<GenesisBlock(byte)>>
              /\ a2pk = <<MyKey, MyKey>>
              /\ balance = Append(penalised(<<Plus(GenesisBalance,
                                                   mining_reward)>>), 0)
       ELSE /\ main_chain_block_list = <<>>
            /\ a2pk = <<>> /\ balance = <<>>
    /\ ready = Seed
    /\ tx_list = <<>> /\ done_tx_hash = {}
    /\ is_proposal_valid = FALSE /\ proposed_block = EmptyBlock
    /\ my_primary_address = 0 /\ my_pub_key = MyKey /\ my_prv_key = MyKey
    /\ work = TRUE
    /\ pc = "loop" /\ caller = "loop" /\ tick = 0
    /\ bh = 0 /\ remote = 0 /\ limit = 0
    /\ tmp = EmptyBlock /\ txs = <<>> /\ pos = 1
    /\ thread = [h \in Handlers |-> Resting]

-----------------------------------------------------------------------------
(* The main loop *)

goto(from, to) == pc = from /\ pc' = to

\* The locals of a call end with it.
Forget == /\ bh' = 0 /\ remote' = 0 /\ limit' = 0
          /\ tmp' = EmptyBlock /\ txs' = <<>> /\ pos' = 1

\* Mutant: while(true)
LoopHead_forever ==
    /\ pc = "loop" /\ Len(main_chain_block_list) < MaxHeight
    /\ pc' = "ask" /\ caller' = "loop"
    /\ UNCHANGED <<ready, tx_list, ledger, proposal, tick, bh, remote, limit,
                   tmp, txs, pos>>

\* while(s1.work) { net_tick(); ...   The bound MaxHeight ends the run here.
LoopHead ==
    /\ pc = "loop"
    /\ \/ ~work /\ pc' = "done" /\ UNCHANGED caller
       \/ /\ work /\ Len(main_chain_block_list) < MaxHeight
          /\ pc' = "ask" /\ caller' = "loop"
    /\ UNCHANGED <<ready, tx_list, ledger, proposal, tick, bh, remote, limit,
                   tmp, txs, pos>>

\* if (!gms.ready) sleep; else block_propose();
Branch ==
    /\ goto("branch", IF ready THEN "propose" ELSE "loop")
    /\ UNCHANGED <<ready, tx_list, ledger, proposal, locals>>

\* The subtick loop, then the assertion before the commit
Tick ==
    /\ pc = "tick"
    /\ IF tick < SubTicks
       THEN pc' = "ask" /\ caller' = "tick" /\ tick' = tick + 1
       ELSE pc' = "assert" /\ tick' = 0 /\ UNCHANGED caller
    /\ UNCHANGED <<ready, tx_list, ledger, proposal, bh, remote, limit, tmp,
                   txs, pos>>

\* if (!gms.is_proposal_valid) throw; block_apply(gms.proposed_block);
Commit ==
    /\ pc = "assert"
    /\ IF is_proposal_valid
       THEN /\ pc' = "apply_tx" /\ caller' = "commit"
            /\ txs' = proposed_block.tx_list /\ pos' = 1
       ELSE pc' = "crashed" /\ UNCHANGED <<caller, txs, pos>>
    /\ UNCHANGED <<ready, tx_list, ledger, proposal, tick, bh, remote, limit,
                   tmp>>

\* Mutant: the flag is not reset
Reset_forgotten ==
    /\ goto("reset", "loop")
    /\ Forget
    /\ UNCHANGED <<ready, tx_list, ledger, proposal, caller, tick>>

\* gms.is_proposal_valid = false;
Reset ==
    /\ goto("reset", "loop")
    /\ is_proposal_valid' = FALSE
    /\ Forget
    /\ UNCHANGED <<ready, tx_list, ledger, proposed_block, caller, tick>>

-----------------------------------------------------------------------------
(* net_ask_con: one peer asked.  A peer that cannot be reached, answers with *)
(* an error or is not asked at all (the offset fell on this node) leaves     *)
(* everything as it is: the exception is swallowed.                          *)

\* Where the main thread goes on when net_tick or block_propose returns
after == IF caller = "loop" THEN "branch" ELSE "tick"

AskNobody ==
    /\ goto("ask", after)
    /\ UNCHANGED <<ready, tx_list, ledger, proposal, locals>>

\* bc_height: a node that is not ready and is level with the peer becomes
\* ready; otherwise what is missing is fetched and the call returns.
AskHeight ==
    /\ pc = "ask"
    /\ remote' \in PeerHeights
    /\ bh' = Len(main_chain_block_list)
    /\ limit' = DownloadLimit
    /\ IF ~ready /\ remote' = bh'
       THEN ready' = TRUE /\ pc' = "ask_proposal"
       ELSE pc' = "download" /\ UNCHANGED ready
    /\ UNCHANGED <<tx_list, ledger, proposal, caller, tick, tmp, txs, pos>>

\* while(remote_bc_height > bh && limit--): the way out, for a loop that is
\* over, a failed call, or a block that does not validate
DownloadEnd ==
    /\ goto("download", after)
    /\ Forget
    /\ UNCHANGED <<ready, tx_list, ledger, proposal, caller, tick>>

\* Mutant: the first block does not bring the genesis account
Download_no_genesis ==
    /\ pc = "download" /\ remote > bh /\ limit > 0
    /\ limit' = limit - 1
    /\ \E block \in PeerBlocks, stray \in Stray :
         /\ tmp' = over_json(block)
         /\ block_validate(tmp', a2pk, balance, done_tx_hash, stray)
         /\ txs' = tmp'.tx_list
    /\ pos' = 1 /\ pc' = "apply_tx"
    /\ UNCHANGED <<ready, tx_list, ledger, proposal, caller, tick, bh,
                   remote>>

\* ... and the way on.  The first block also brings the genesis account.
Download ==
    /\ pc = "download" /\ remote > bh /\ limit > 0
    /\ limit' = limit - 1
    /\ \E block \in PeerBlocks, stray \in Stray :
         /\ tmp' = over_json(block)
         /\ block_validate(tmp', a2pk, balance, done_tx_hash, stray)
         /\ txs' = tmp'.tx_list
    /\ pos' = 1
    /\ pc' = IF bh = 0 THEN "genesis_key" ELSE "apply_tx"
    /\ UNCHANGED <<ready, tx_list, ledger, proposal, caller, tick, bh,
                   remote>>

GenesisKey ==
    /\ goto("genesis_key", "genesis_balance")
    /\ a2pk' = Append(a2pk, tmp.issuer_pub_key)
    /\ UNCHANGED <<ready, tx_list, balance, done_tx_hash,
                   main_chain_block_list, proposal, locals>>

GenesisCoins ==
    /\ goto("genesis_balance", "apply_tx")
    /\ balance' = [Append(balance, 0) EXCEPT ![1] = GenesisBalance]
    /\ UNCHANGED <<ready, tx_list, a2pk, done_tx_hash, main_chain_block_list,
                   proposal, locals>>

\* get_proposed_block, which answers whether or not the peer's proposal is
\* valid; only a node that has just become ready gets here.
AskProposal ==
    /\ pc = "ask_proposal"
    /\ \/ \E block \in PeerProposals, stray \in Stray :
            /\ tmp' = over_json(block)
            /\ block_validate(tmp', a2pk, balance, done_tx_hash, stray)
            /\ pc' = "test"
            /\ UNCHANGED <<bh, remote, limit, txs, pos>>
       \/ pc' = after /\ Forget
    /\ UNCHANGED <<ready, tx_list, ledger, proposal, caller, tick>>

-----------------------------------------------------------------------------
(* block_propose.  back() of an empty chain reads before the start of an    *)
(* empty vector: the process dies.                                          *)

\* Mutant: the id of the last block, not the next one
Propose_same_id ==
    /\ goto("propose", "copy") /\ caller' = "propose"
    /\ tmp' = [EmptyBlock EXCEPT !.id = last_block.id,
                                 !.issuer_addr = my_primary_address]
    /\ UNCHANGED <<ready, tx_list, ledger, proposal, tick, bh, remote, limit,
                   txs, pos>>

Propose ==
    /\ pc = "propose"
    /\ IF main_chain_block_list = <<>>
       THEN pc' = "crashed" /\ UNCHANGED <<caller, tmp>>
       ELSE /\ pc' = "copy" /\ caller' = "propose"
            /\ tmp' = [EmptyBlock EXCEPT
                         !.id = Plus(last_block.id, 1),
                         !.issuer_addr = my_primary_address]
    /\ UNCHANGED <<ready, tx_list, ledger, proposal, tick, bh, remote, limit,
                   txs, pos>>

\* Mutant: the queue is cleared before it is copied
CopyQueue_cleared ==
    /\ goto("copy", "clear")
    /\ tx_list' = <<>>
    /\ tmp' = [tmp EXCEPT !.issuer_pub_key = my_pub_key]
    /\ UNCHANGED <<ready, ledger, proposal, caller, tick, bh, remote, limit, txs,
                   pos>>

\* block.header.issuer_pub_key = my_pub_key; block.tx_list = gms.tx_list;
CopyQueue ==
    /\ goto("copy", "clear")
    /\ tmp' = [tmp EXCEPT !.issuer_pub_key = my_pub_key, !.tx_list = tx_list]
    /\ UNCHANGED <<ready, tx_list, ledger, proposal, caller, tick, bh, remote,
                   limit, txs, pos>>

\* gms.tx_list.clear();
ClearQueue ==
    /\ goto("clear", "seal")
    /\ tx_list' = <<>>
    /\ UNCHANGED <<ready, ledger, proposal, locals>>

\* Mutant: the own block is not validated
Seal_unchecked ==
    /\ goto("seal", "test")
    /\ \E byte \in HashBytes :
         tmp' = block_weight_calc(block_sign(tmp, my_pub_key, my_prv_key, byte))
    /\ UNCHANGED <<ready, tx_list, ledger, proposal, caller, tick, bh, remote,
                   limit, txs, pos>>

\* block_sign, block_weight_calc, then block_validate, which must succeed
Seal ==
    /\ pc = "seal"
    /\ \E byte \in HashBytes, stray \in Stray :
         /\ tmp' = block_weight_calc(block_sign(tmp, my_pub_key, my_prv_key, byte))
         /\ pc' = IF block_validate(tmp', a2pk, balance, done_tx_hash, stray)
                  THEN "test" ELSE "crashed"
    /\ UNCHANGED <<ready, tx_list, ledger, proposal, caller, tick, bh, remote,
                   limit, txs, pos>>

-----------------------------------------------------------------------------
(* proposed_block_replace, called by the main thread on tmp.  The broadcast *)
(* that follows calls a method no server has, so it changes nothing.        *)

beats(block) == \/ ~is_proposal_valid
                \/ hash_greater(proposed_block.hash, block.hash)

ReplaceTest ==
    /\ pc = "test"
    /\ \/ /\ beats(tmp) /\ pc' = "set_flag"
          /\ UNCHANGED <<bh, remote, limit, tmp, txs, pos>>
       \/ ~beats(tmp) /\ pc' = after /\ Forget
    /\ UNCHANGED <<ready, tx_list, ledger, proposal, caller, tick>>

ReplaceFlag ==
    /\ goto("set_flag", "set_block")
    /\ is_proposal_valid' = TRUE
    /\ UNCHANGED <<ready, tx_list, ledger, proposed_block, locals>>

ReplaceBlock ==
    /\ goto("set_block", after)
    /\ proposed_block' = tmp
    /\ Forget
    /\ UNCHANGED <<ready, tx_list, ledger, is_proposal_valid, caller, tick>>

-----------------------------------------------------------------------------
(* block_apply on `applied`, a local block or gms.proposed_block itself.  A  *)
(* block that names an address that does not exist makes the node write      *)
(* outside its vectors: the process dies, or goes on without the write.      *)

\* One round of the loop over tx_list.  When proposed_block is replaced
\* meanwhile the loop, whose length was fixed at the start, sees the old
\* transaction or the one now in its place.
ApplyTx ==
    /\ pc = "apply_tx" /\ pos <= Len(txs)
    /\ \E tx \in {txs[pos]} \cup
                 {applied.tx_list[i] : i \in {pos} \cap DOMAIN applied.tx_list} :
         \/ /\ balance' = tx_apply_balance(tx, balance)
            /\ a2pk' = tx_apply_owner(tx, a2pk)
            /\ done_tx_hash' = done_tx_hash \cup {done_key(tx)}
            /\ pos' = pos + 1
            /\ UNCHANGED pc
         \/ /\ ~in_range(tx, balance)
            /\ pc' = "crashed" /\ UNCHANGED <<balance, a2pk, done_tx_hash, pos>>
    /\ UNCHANGED <<ready, tx_list, main_chain_block_list, proposal, caller,
                   tick, bh, remote, limit, tmp, txs>>

ApplyReward ==
    /\ pc = "apply_tx" /\ pos > Len(txs)
    /\ \/ /\ balance' = credit(balance, applied.issuer_addr, reward(applied))
          /\ pc' = "apply_penalty"
       \/ /\ applied.issuer_addr >= Len(balance)
          /\ pc' = "crashed" /\ UNCHANGED balance
    /\ UNCHANGED <<ready, tx_list, a2pk, done_tx_hash, main_chain_block_list,
                   proposal, locals>>

\* The loop over gms.balance
ApplyPenalty ==
    /\ goto("apply_penalty", "issue_key")
    /\ balance' = penalised(balance)
    /\ UNCHANGED <<ready, tx_list, a2pk, done_tx_hash, main_chain_block_list,
                   proposal, locals>>

\* gms_account_new(block.header.issuer_pub_key): two push_backs
IssueKey ==
    /\ goto("issue_key", "issue_balance")
    /\ a2pk' = Append(a2pk, applied.issuer_pub_key)
    /\ UNCHANGED <<ready, tx_list, balance, done_tx_hash,
                   main_chain_block_list, proposal, locals>>

IssueBalance ==
    /\ goto("issue_balance", "append")
    /\ balance' = Append(balance, 0)
    /\ UNCHANGED <<ready, tx_list, a2pk, done_tx_hash, main_chain_block_list,
                   proposal, locals>>

\* Mutant: block_apply resets the flag, so downloads do too
AppendBlock_reset ==
    /\ goto("append", IF caller = "commit" THEN "reset" ELSE "download")
    /\ main_chain_block_list' = Append(main_chain_block_list, applied)
    /\ is_proposal_valid' = FALSE
    /\ bh' = IF caller = "commit" THEN bh ELSE bh + 1
    /\ UNCHANGED <<ready, tx_list, a2pk, balance, done_tx_hash, proposed_block,
                   caller, tick, remote, limit, tmp, txs, pos>>

\* push_back(block), and back to the caller: bh++ in net_ask_con
AppendBlock ==
    /\ goto("append", IF caller = "commit" THEN "reset" ELSE "download")
    /\ main_chain_block_list' = Append(main_chain_block_list, applied)
    /\ bh' = IF caller = "commit" THEN bh ELSE bh + 1
    /\ UNCHANGED <<ready, tx_list, a2pk, balance, done_tx_hash, proposal,
                   caller, tick, remote, limit, tmp, txs, pos>>

-----------------------------------------------------------------------------
(* The RPC handlers, one thread each.  transfer, address_transfer and tx_push *)
(* check, then push_back into gms.tx_list, which reads the end of the vector  *)
(* and writes it back: a push_back or the clear() of the main thread that     *)
(* falls between the two is undone.                                           *)

running == pc \notin {"done", "crashed"}

idle(h) == running /\ thread[h].at = "idle"

\* h takes a transaction that passed tx_validate; it is a local variable, with
\* whatever lies behind its signature.
accept(h, signed) ==
    /\ Len(tx_list) < MaxQueue
    /\ \E stray \in Stray, tail \in Garbage :
         LET tx == [signed EXCEPT !.tail = tail]
         IN  /\ tx_validate(tx, a2pk, balance, done_tx_hash, stray)
             /\ thread' = [thread EXCEPT ![h] = [@ EXCEPT !.at = "load", !.tx = tx]]
    /\ UNCHANGED <<tx_list, proposal, identity>>

\* transferI.  It reads owner, balance and keys one after the other and signs in
\* between; here that is one step.  Only its outcome goes on, and Seal validates
\* it again.
Transfer(h) ==
    /\ idle(h)
    /\ \E req \in Transfers :
         /\ req.from < Len(balance) /\ req.to < Len(balance)
         /\ At(a2pk, req.from) = my_pub_key
         /\ covers(At(balance, req.from), req.amount)
         /\ accept(h, tx_sign([NullTx EXCEPT !.type = 1,
                                             !.amount = req.amount,
                                             !.send_addr = req.from,
                                             !.recv_addr = req.to],
                              my_pub_key, my_prv_key))

\* The fee is paid by my_primary_address, which must have the same owner.
AddressTransfer(h) ==
    /\ idle(h)
    /\ \E req \in AddrTransfers :
         /\ req.address < Len(a2pk)
         /\ At(a2pk, req.address) = my_pub_key
         /\ accept(h, tx_sign([NullTx EXCEPT !.type = 2,
                                             !.send_addr = my_primary_address,
                                             !.recv_addr = req.address,
                                             !.bind_pub_key = req.pub_key],
                              my_pub_key, my_prv_key))

TxPush(h) ==
    /\ idle(h)
    /\ \E tx \in PushedTxs : accept(h, tx)

\* gms.tx_list.push_back(tx)
PushLoad(h) ==
    /\ running /\ thread[h].at = "load"
    /\ thread' = [thread EXCEPT ![h] = [@ EXCEPT !.at = "store", !.seen = tx_list]]
    /\ UNCHANGED <<tx_list, proposal, identity>>

PushStore(h) ==
    /\ running /\ thread[h].at = "store"
    /\ tx_list' = Append(thread[h].seen, thread[h].tx)
    /\ thread' = [thread EXCEPT ![h] = Resting]
    /\ UNCHANGED <<proposal, identity>>

\* proposed_block_push: proposed_block_replace on a block nobody validated
ProposedBlockPush(h) ==
    /\ idle(h)
    /\ \E block \in PushedBlocks :
         /\ beats(over_json(block))
         /\ thread' = [thread EXCEPT ![h] =
                         [@ EXCEPT !.at = "set_flag", !.block = over_json(block)]]
    /\ UNCHANGED <<tx_list, proposal, identity>>

PushFlag(h) ==
    /\ running /\ thread[h].at = "set_flag"
    /\ is_proposal_valid' = TRUE
    /\ thread' = [thread EXCEPT ![h] = [@ EXCEPT !.at = "set_block"]]
    /\ UNCHANGED <<tx_list, proposed_block, identity>>

PushBlock(h) ==
    /\ running /\ thread[h].at = "set_block"
    /\ proposed_block' = thread[h].block
    /\ thread' = [thread EXCEPT ![h] = Resting]
    /\ UNCHANGED <<tx_list, is_proposal_valid, identity>>

\* debug_set_key: three assignments of globals that the main thread and the
\* other handlers read.  Nobody looks whether the private key belongs to the
\* public one.
DebugSetKey(h) ==
    /\ idle(h)
    /\ \E req \in KeySwitches :
         /\ req.address < Len(balance)
         /\ At(a2pk, req.address) = req.key
         /\ thread' = [thread EXCEPT ![h] = [@ EXCEPT !.at = "set_pub",
                                      !.address = req.address, !.key = req.key,
                                      !.prv = req.prv]]
         /\ my_primary_address' = req.address
    /\ UNCHANGED <<tx_list, proposal, my_pub_key, my_prv_key>>

SetPubKey(h) ==
    /\ running /\ thread[h].at = "set_pub"
    /\ my_pub_key' = thread[h].key
    /\ thread' = [thread EXCEPT ![h] = [@ EXCEPT !.at = "set_prv"]]
    /\ UNCHANGED <<tx_list, proposal, my_primary_address, my_prv_key>>

SetPrvKey(h) ==
    /\ running /\ thread[h].at = "set_prv"
    /\ my_prv_key' = thread[h].prv
    /\ thread' = [thread EXCEPT ![h] = Resting]
    /\ UNCHANGED <<tx_list, proposal, my_primary_address, my_pub_key>>

\* shutdown: work = false
ShutdownCall ==
    /\ Shutdown /\ running /\ work
    /\ work' = FALSE
    /\ UNCHANGED <<ready, tx_list, ledger, proposal, identity, pc, locals,
                   thread>>

-----------------------------------------------------------------------------
(* The specification *)

Ask == AskNobody \/ AskHeight \/ DownloadEnd \/ Download \/ GenesisKey
       \/ GenesisCoins \/ AskProposal

ProposeBlock == Propose \/ CopyQueue \/ ClearQueue \/ Seal

Replace == ReplaceTest \/ ReplaceFlag \/ ReplaceBlock

ApplyBlock == ApplyTx \/ ApplyReward \/ ApplyPenalty \/ IssueKey
              \/ IssueBalance \/ AppendBlock

\* The main thread leaves the keys and the handlers alone ...
MainThread ==
    /\ LoopHead \/ Branch \/ Tick \/ Commit \/ Reset
       \/ Ask \/ ProposeBlock \/ Replace \/ ApplyBlock
    /\ UNCHANGED <<identity, work, thread>>

\* ... and a handler, taking a request or going on with it, leaves the main
\* thread and the applied state alone.
Request(h) ==
    /\ Transfer(h) \/ AddressTransfer(h) \/ TxPush(h)
       \/ ProposedBlockPush(h) \/ DebugSetKey(h)
    /\ UNCHANGED <<pc, locals, ready, ledger, work>>

Finish(h) ==
    /\ PushLoad(h) \/ PushStore(h) \/ PushFlag(h) \/ PushBlock(h)
       \/ SetPubKey(h) \/ SetPrvKey(h)
    /\ UNCHANGED <<pc, locals, ready, ledger, work>>

Next == MainThread \/ ShutdownCall \/ \E h \in Handlers : Request(h) \/ Finish(h)

Spec == Init /\ [][Next]_vars

\* Every thread is scheduled; that a request comes, or that a peer answers,
\* is nobody's duty.
FairSpec == Spec /\ WF_vars(MainThread) /\ \A h \in Handlers : WF_vars(Finish(h))

-----------------------------------------------------------------------------
(* Properties *)

Downloading == {"genesis_key", "genesis_balance"}
Applying == {"apply_tx", "apply_penalty", "issue_key", "issue_balance", "append"}

TypeOK ==
    /\ {ready, is_proposal_valid, work} \subseteq BOOLEAN
    /\ tx_list \in Seq(Tx) /\ txs \in Seq(Tx)
    /\ a2pk \in Seq(Keys) /\ balance \in Seq(Word)
    /\ main_chain_block_list \in Seq(Block)
    /\ {proposed_block, tmp} \subseteq Block
    /\ my_primary_address \in Word
    /\ {my_pub_key, my_prv_key} \subseteq Keys
    /\ pc \in {"loop", "ask", "download", "ask_proposal", "branch", "propose",
              "copy", "clear", "seal", "test", "set_flag", "set_block", "tick",
              "assert", "reset", "done", "crashed"} \cup Downloading \cup Applying
    /\ caller \in {"loop", "propose", "tick", "commit"}
    /\ tick \in 0 .. SubTicks
    /\ {bh, remote, limit} \subseteq Nat /\ pos \in Nat \ {0}
    /\ thread \in [Handlers -> [at : {"idle", "load", "store", "set_flag",
                                     "set_block", "set_pub", "set_prv"},
                                tx : Tx, seen : Seq(Tx), block : Block,
                                address : Word, key : Keys, prv : Keys]]

\* main.cpp's "bad assert gms.is_proposal_valid" never fires: from the own
\* proposal to the commit there always is a proposal, whatever the handlers
\* push and whatever is downloaded in the subticks.
CommitHasProposal == pc = "assert" => is_proposal_valid

\* Accounts that the appended blocks have issued: one each, and the genesis
\* account with the first.
Issued == IF main_chain_block_list = <<>> THEN 0
          ELSE Len(main_chain_block_list) + 1

\* The vectors a2pk and balance have an entry for every account the chain has
\* issued and for no other one, except for the block being applied, which adds
\* to a2pk first and to balance next.
AccountsMatchChain ==
    LET genesis == IF main_chain_block_list = <<>> /\ pc \in Applying
                   THEN 1 ELSE 0
        new     == IF pc \in {"issue_balance", "append"} THEN 1 ELSE 0
    IN  (pc # "crashed") =>
        /\ Len(a2pk) = Issued + new + (IF pc = "genesis_balance" THEN 1 ELSE genesis)
        /\ Len(balance) = Issued + genesis + (IF pc = "append" THEN 1 ELSE 0)

\* The proposal under discussion.  It counts as gone when its block is
\* appended, although the flag is reset a step later.
standing == IF is_proposal_valid /\ pc # "reset" THEN <<proposed_block>> ELSE <<>>

Log == INSTANCE BlockLog WITH
           Blocks <- Block,
           log <- main_chain_block_list,
           slot <- standing

\* The node implements the append-only log: a block is appended once, at the
\* end, and what a round commits is the proposal standing at that moment.
ImplementsLog == Log!Spec

=============================================================================
