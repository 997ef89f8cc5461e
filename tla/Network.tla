------------------------------- MODULE Network -------------------------------
(***************************************************************************)
(* Several nodes that serve each other their chains: the seed, which makes *)
(* the genesis block, and nodes that start empty, download the chain,      *)
(* become ready and then make blocks of their own.                         *)
(*                                                                         *)
(* The steps are the remote calls of net_ask_con and, between them, what   *)
(* the main thread does on its own: proposing, committing, applying a      *)
(* block.  How those interleave with the handlers of the same process is   *)
(* the matter of module Node.  A node's key pair is the node itself.       *)
(***************************************************************************)
EXTENDS Ledger, SequencesExt

CONSTANTS
    Seed,             \* the node with i_am_seed_node
    GenesisBalance,   \* 1e6
    SubTicks,         \* net_ticks between propose and commit, 5 in the code
    DownloadLimit,    \* blocks fetched per net_ask_con, 40 in the code
    Transfers,        \* transfer requests: records from, to, amount
    CallsFail,        \* TRUE: remote calls may fail
    Unsteady,         \* the nodes that may be restarted
    MaxHeight,        \* bound: a ready node this high makes no more rounds
    MaxRestarts       \* bound: restarts, all together

Nodes == PubKeys

ASSUME NetworkAssumption ==
    /\ CallsFail \in BOOLEAN
    /\ Seed \in Nodes /\ Unsteady \subseteq Nodes
    /\ GenesisBalance \in Word
    /\ {SubTicks, DownloadLimit, MaxHeight, MaxRestarts} \subseteq Nat
    /\ Transfers \subseteq [from : Word, to : Word, amount : Word]

VARIABLES
    gms,        \* struct MemState of each node
    main,       \* its main thread: place, subtick, locals of net_ask_con
    restarts    \* how many there were

vars == <<gms, main, restarts>>

chain(n) == gms[n].main_chain_block_list

\* The servers end with the process.
answers(m) == main[m].at # "dead"

-----------------------------------------------------------------------------
(* Functions of block.cpp and db.hpp on a MemState *)

gms_account_new(g, key) ==
    [g EXCEPT !.a2pk = Append(@, key), !.balance = Append(@, 0)]

\* What applying a block looks at and changes, the chain apart
ledger(g) == [a2pk |-> g.a2pk, balance |-> g.balance, done_tx_hash |-> g.done_tx_hash]

tx_apply(l, tx) ==
    [a2pk |-> tx_apply_owner(tx, l.a2pk), balance |-> tx_apply_balance(tx, l.balance),
     done_tx_hash |-> l.done_tx_hash \cup {done_key(tx)}]

\* The loop over block.tx_list
tx_list_apply(l, tx_list) ==
    LET upto[i \in 0 .. Len(tx_list)] ==
            IF i = 0 THEN l ELSE tx_apply(upto[i - 1], tx_list[i])
    IN  upto[Len(tx_list)]

block_apply(g, block) ==
    LET spent == tx_list_apply(ledger(g), block.tx_list)
        paid == [g EXCEPT !.a2pk = spent.a2pk, !.done_tx_hash = spent.done_tx_hash,
                          !.balance = penalised(credit(spent.balance, block.issuer_addr,
                                                       reward(block)))]
    IN  [gms_account_new(paid, block.issuer_pub_key) EXCEPT
             !.main_chain_block_list = Append(@, block)]

valid(g, block) ==
    block_validate(block, g.a2pk, g.balance, g.done_tx_hash, 0)

\* The account of the genesis block, with its coins
genesis(g, key) == [gms_account_new(g, key) EXCEPT !.balance[1] = GenesisBalance]

\* A MemState as the program starts with
NewState ==
    [ready |-> FALSE, tx_list |-> <<>>, main_chain_block_list |-> <<>>,
     is_proposal_valid |-> FALSE, proposed_block |-> EmptyBlock,
     done_tx_hash |-> {}, a2pk |-> <<>>, balance |-> <<>>]

\* gms_init
gms_init(byte) ==
    LET block == block_sign([EmptyBlock EXCEPT !.issuer_pub_key = Seed],
                            Seed, Seed, byte)
    IN  [block_apply(genesis(NewState, Seed), block) EXCEPT !.ready = TRUE]

StartState(n) ==
    IF n = Seed THEN {gms_init(byte) : byte \in HashBytes} ELSE {NewState}

proposed_block_replace(g, block) ==
    IF ~g.is_proposal_valid \/ hash_greater(g.proposed_block.hash, block.hash)
    THEN [g EXCEPT !.is_proposal_valid = TRUE, !.proposed_block = block]
    ELSE g

\* block_propose up to the validation of the own block
own_block(g, n, byte) ==
    LET last == g.main_chain_block_list[Len(g.main_chain_block_list)]
    IN  block_weight_calc(block_sign([EmptyBlock EXCEPT !.id = Plus(last.id, 1),
                                                        !.issuer_pub_key = n,
                                                        !.tx_list = g.tx_list],
                                     n, n, byte))

-----------------------------------------------------------------------------
Loop == [at |-> "loop", tick |-> 0, peer |-> NoKey, bh |-> 0, remote |-> 0,
         limit |-> 0]

Init ==
    /\ gms \in {g \in [Nodes -> UNION {StartState(n) : n \in Nodes}] :
                    \A n \in Nodes : g[n] \in StartState(n)}
    /\ main = [n \in Nodes |-> Loop]
    /\ restarts = 0

\* The process ends and another takes its place: only the keys are on disk.
Restart(n) ==
    /\ n \in Unsteady /\ restarts < MaxRestarts
    /\ restarts' = restarts + 1
    /\ \E g \in StartState(n) : gms' = [gms EXCEPT ![n] = g]
    /\ main' = [main EXCEPT ![n] = Loop]

goto(n, from, to) == main[n].at = from /\ main' = [main EXCEPT ![n].at = to]

\* net_tick returns: tick 0 is the one at the head of the loop.
Returned(n) ==
    [Loop EXCEPT !.at = IF main[n].tick = 0 THEN "branch" ELSE "subtick",
                 !.tick = main[n].tick]

\* while(s1.work)
LoopHead(n) ==
    /\ gms[n].ready => Len(chain(n)) < MaxHeight
    /\ goto(n, "loop", "ask")
    /\ UNCHANGED <<gms, restarts>>

\* Nobody is asked, or a call fails.
AskFails(n) ==
    /\ CallsFail
    /\ main[n].at \in {"ask", "download", "proposal"}
    /\ main' = [main EXCEPT ![n] = Returned(n)]
    /\ UNCHANGED <<gms, restarts>>

\* bc_height of m
AskHeight(n, m) ==
    /\ main[n].at = "ask" /\ answers(m)
    /\ LET level == ~gms[n].ready /\ Len(chain(m)) = Len(chain(n))
       IN  /\ main' = [main EXCEPT ![n] =
                 [@ EXCEPT !.at = IF level THEN "proposal" ELSE "download",
                           !.peer = m, !.bh = Len(chain(n)),
                           !.remote = Len(chain(m)), !.limit = DownloadLimit]]
           /\ gms' = [gms EXCEPT ![n].ready = @ \/ level]
    /\ UNCHANGED restarts

missing(n) == main[n].remote > main[n].bh /\ main[n].limit > 0

DownloadEnd(n) ==
    /\ main[n].at = "download" /\ ~missing(n)
    /\ main' = [main EXCEPT ![n] = Returned(n)]
    /\ UNCHANGED <<gms, restarts>>

\* Mutant: asks for the last block of the peer
Download_last(n) ==
    /\ main[n].at = "download" /\ missing(n)
    /\ chain(main[n].peer) # <<>>
    /\ LET theirs == chain(main[n].peer)
           tmp == over_json(theirs[Len(theirs)])
           g == IF main[n].bh = 0 THEN genesis(gms[n], tmp.issuer_pub_key) ELSE gms[n]
       IN  IF valid(gms[n], tmp)
           THEN /\ gms' = [gms EXCEPT ![n] = block_apply(g, tmp)]
                /\ main' = [main EXCEPT ![n].bh = @ + 1, ![n].limit = @ - 1]
           ELSE main' = [main EXCEPT ![n] = Returned(n)] /\ UNCHANGED gms
    /\ UNCHANGED restarts

\* Mutant: counts from one
Download_from_one(n) ==
    /\ main[n].at = "download" /\ missing(n)
    /\ main[n].bh + 1 < Len(chain(main[n].peer))
    /\ LET tmp == over_json(chain(main[n].peer)[main[n].bh + 2])
           g == IF main[n].bh = 0 THEN genesis(gms[n], tmp.issuer_pub_key) ELSE gms[n]
       IN  IF valid(gms[n], tmp)
           THEN /\ gms' = [gms EXCEPT ![n] = block_apply(g, tmp)]
                /\ main' = [main EXCEPT ![n].bh = @ + 1, ![n].limit = @ - 1]
           ELSE main' = [main EXCEPT ![n] = Returned(n)] /\ UNCHANGED gms
    /\ UNCHANGED restarts

\* Mutant: without the genesis account
Download_no_genesis(n) ==
    /\ main[n].at = "download" /\ missing(n)
    /\ answers(main[n].peer) /\ main[n].bh < Len(chain(main[n].peer))
    /\ LET tmp == over_json(chain(main[n].peer)[main[n].bh + 1])
       IN  IF valid(gms[n], tmp)
           THEN /\ gms' = [gms EXCEPT ![n] = block_apply(gms[n], tmp)]
                /\ main' = [main EXCEPT ![n].bh = @ + 1, ![n].limit = @ - 1]
           ELSE main' = [main EXCEPT ![n] = Returned(n)] /\ UNCHANGED gms
    /\ UNCHANGED restarts

\* get_block_number(bh), which the peer has unless it was restarted (then the
\* call fails, AskFails), and block_apply of what validates
Download(n) ==
    /\ main[n].at = "download" /\ missing(n)
    /\ answers(main[n].peer) /\ main[n].bh < Len(chain(main[n].peer))
    /\ LET tmp == over_json(chain(main[n].peer)[main[n].bh + 1])
           g == IF main[n].bh = 0 THEN genesis(gms[n], tmp.issuer_pub_key) ELSE gms[n]
       IN  IF valid(gms[n], tmp)
           THEN /\ gms' = [gms EXCEPT ![n] = block_apply(g, tmp)]
                /\ main' = [main EXCEPT ![n].bh = @ + 1, ![n].limit = @ - 1]
           ELSE main' = [main EXCEPT ![n] = Returned(n)] /\ UNCHANGED gms
    /\ UNCHANGED restarts

\* get_proposed_block, in the call in which the node has become ready
AskProposal(n) ==
    /\ main[n].at = "proposal" /\ answers(main[n].peer)
    /\ LET tmp == over_json(gms[main[n].peer].proposed_block)
       IN  gms' = [gms EXCEPT ![n] = IF valid(@, tmp) THEN proposed_block_replace(@, tmp)
                                     ELSE @]
    /\ main' = [main EXCEPT ![n] = Returned(n)]
    /\ UNCHANGED restarts

Branch(n) ==
    /\ goto(n, "branch", IF gms[n].ready THEN "propose" ELSE "loop")
    /\ UNCHANGED <<gms, restarts>>

\* block_propose.  Without a chain, or when the own block does not validate,
\* the process dies.
Propose(n) ==
    /\ main[n].at = "propose"
    /\ \/ /\ chain(n) = <<>>
          /\ main' = [main EXCEPT ![n].at = "dead"] /\ UNCHANGED gms
       \/ /\ chain(n) # <<>>
          /\ \E byte \in HashBytes :
               LET block == own_block(gms[n], n, byte)
                   g == [gms[n] EXCEPT !.tx_list = <<>>]
               IN  IF valid(g, block)
                   THEN /\ gms' = [gms EXCEPT ![n] = proposed_block_replace(g, block)]
                        /\ main' = [main EXCEPT ![n].at = "subtick"]
                   ELSE /\ gms' = [gms EXCEPT ![n] = g]
                        /\ main' = [main EXCEPT ![n].at = "dead"]
    /\ UNCHANGED restarts

Subtick(n) ==
    /\ main[n].at = "subtick" /\ main[n].tick < SubTicks
    /\ main' = [main EXCEPT ![n].at = "ask", ![n].tick = @ + 1]
    /\ UNCHANGED <<gms, restarts>>

\* The assertion holds by what module Node shows; the commit
Commit(n) ==
    /\ main[n].at = "subtick" /\ main[n].tick = SubTicks
    /\ gms' = [gms EXCEPT ![n] = [block_apply(@, @.proposed_block) EXCEPT
                                      !.is_proposal_valid = FALSE]]
    /\ main' = [main EXCEPT ![n] = Loop]
    /\ UNCHANGED restarts

\* transferI: bounded to one waiting transaction per node
Transfer(n) ==
    /\ main[n].at # "dead" /\ gms[n].tx_list = <<>>
    /\ \E r \in Transfers, tail \in Garbage :
         LET tx == tx_sign([type |-> 1, amount |-> r.amount, send_addr |-> r.from,
                            recv_addr |-> r.to, bind_pub_key |-> NoKey,
                            hash |-> "zero", sign |-> NoSign, tail |-> tail], n, n)
         IN  /\ tx_validate(tx, gms[n].a2pk, gms[n].balance, gms[n].done_tx_hash, 0)
             /\ gms' = [gms EXCEPT ![n].tx_list = <<tx>>]
    /\ UNCHANGED <<main, restarts>>

MainThread(n) ==
    \/ LoopHead(n) \/ AskFails(n) \/ DownloadEnd(n) \/ Download(n)
    \/ AskProposal(n) \/ Branch(n) \/ Propose(n) \/ Subtick(n) \/ Commit(n)
    \/ \E m \in Nodes \ {n} : AskHeight(n, m)

Next == \E n \in Nodes : MainThread(n) \/ Transfer(n) \/ Restart(n)

Spec == Init /\ [][Next]_vars

\* The main threads are scheduled, and calls that are made again and again do
\* not fail forever.
FairSpec ==
    /\ Spec
    /\ \A n \in Nodes :
         /\ WF_vars(MainThread(n))
         /\ \A m \in Nodes \ {n} : SF_vars(AskHeight(n, m))
         /\ SF_vars(Download(n))

-----------------------------------------------------------------------------
(* Properties *)

TypeOK ==
    /\ \A n \in Nodes :
         /\ gms[n].ready \in BOOLEAN /\ gms[n].is_proposal_valid \in BOOLEAN
         /\ gms[n].tx_list \in Seq(Tx) /\ chain(n) \in Seq(Block)
         /\ gms[n].proposed_block \in Block
         /\ gms[n].a2pk \in Seq(Keys) /\ gms[n].balance \in Seq(Word)
         /\ main[n].bh \in Nat /\ main[n].remote \in Nat
         /\ main[n].limit \in 0 .. DownloadLimit /\ main[n].tick \in 0 .. SubTicks
    /\ restarts \in 0 .. MaxRestarts

\* Nodes with equal chains have equal ledgers, whether they made the blocks,
\* downloaded them from one peer or from several, or lost them in a restart and
\* fetched them again.
SameChainSameLedger ==
    \A m, n \in Nodes : chain(m) = chain(n) => ledger(gms[m]) = ledger(gms[n])

\* A node that is not ready holds the beginning of the chain of a seed that is
\* not restarted, although the seed goes on while it downloads.
PrefixUntilReady ==
    \A n \in Nodes : ~gms[n].ready => IsPrefix(chain(n), chain(Seed))

\* The next block that n needs has a transaction, whose hash and signature do not
\* survive get_block_number: n can never validate it.
HeldUp(n) ==
    /\ IsStrictPrefix(chain(n), chain(Seed))
    /\ chain(Seed)[Len(chain(n)) + 1].tx_list # <<>>

\* Once the chain of the seed stands still, a node that has been started again and
\* again at last is ready for good, having fetched the chain in steps of
\* DownloadLimit blocks, or it is held up for good, with all the blocks before the
\* first that has a transaction; unless the process of the seed has died.
Joins == \A n \in Nodes : <>[](gms[n].ready \/ HeldUp(n) \/ ~answers(Seed))

\* "All who wanted must have come to agreement already": two ready nodes do
\* not commit different blocks at the same place of the chain.
Agreement ==
    \A m, n \in Nodes : gms[m].ready /\ gms[n].ready =>
        IsPrefix(chain(m), chain(n)) \/ IsPrefix(chain(n), chain(m))

==============================================================================
