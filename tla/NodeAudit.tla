----------------------------- MODULE NodeAudit ------------------------------
(***************************************************************************)
(* The node watched by an auditor, who notes the coins that the hot potato *)
(* penalty destroys, and what the auditor can claim of the ledger.         *)
(***************************************************************************)
EXTENDS Node

VARIABLE burned     \* coins taken by penalties, modulo U32

auditVars == <<vars, burned>>

\* The coins in all accounts
total(balances) ==
    LET upto[a \in 0 .. Len(balances)] ==
            IF a = 0 THEN 0 ELSE upto[a - 1] + balances[a]
    IN  upto[Len(balances)]

\* What a penalty takes from each account, and from all
penalties(balances) ==
    [a \in 1 .. Len(balances) |->
        IF balances[a] < hot_potato_penalty THEN balances[a]
                                            ELSE hot_potato_penalty]

taken(balances) == total(penalties(balances))

\* A seed has applied the genesis block, penalty included.
AuditInit ==
    /\ Init
    /\ burned = IF Seed THEN taken(<<Plus(GenesisBalance, mining_reward)>>) ELSE 0

AuditNext ==
    /\ Next
    /\ burned' = IF ApplyPenalty THEN Plus(burned, taken(balance)) ELSE burned

AuditSpec == AuditInit /\ [][AuditNext]_auditVars

AuditFairSpec == AuditSpec /\ WF_vars(MainThread)
                           /\ \A h \in Handlers : WF_vars(Finish(h))

-----------------------------------------------------------------------------
(* Invariants of a node without peers *)

\* No coin appears or disappears except by the rules: between two blocks the
\* balances and the burned coins add up to the genesis coins and one reward
\* per block, fees included, even after a balance has wrapped around.
Supply ==
    pc \notin Applying =>
        (total(balance) + burned) % U32 =
            (GenesisBalance + mining_reward * Len(main_chain_block_list)) % U32

\* The places of the chain that hold a transaction: block and index in it
Committed ==
    UNION {{<<i, a>> : a \in DOMAIN main_chain_block_list[i].tx_list} :
               i \in DOMAIN main_chain_block_list}

tx_at(place) == main_chain_block_list[place[1]].tx_list[place[2]]

\* A transaction in one block comes again in a later one only when its hash has
\* no zero byte and, moreover, the key of done_tx_hash sees something new: a
\* second signature (verify.c takes S + L for S, and tx_push takes any) or,
\* behind a signature without a zero byte, other padding.  Copies inside one
\* block are outside this claim: the code refuses none of them, because
\* block_propose validates each against done_tx_hash before any is applied.
ReplayFree ==
    \A p, q \in Committed :
        LET t == tx_at(p)
            u == tx_at(q)
        IN  p[1] # q[1] /\ tx_hash(t) = tx_hash(u) =>
                /\ NulAt(tx_hash(t)) \notin {"first", "inside"}
                /\ \/ t.sign # u.sign
                   \/ t.tail # u.tail /\ UpToNul(t.sign) = t.sign

\* The proposal that is about to be committed still validates against the
\* ledger: nothing has moved since it was validated, five net_ticks ago.
ProposalStillValid ==
    pc = "assert" => \E stray \in Stray :
        block_validate(proposed_block, a2pk, balance, done_tx_hash, stray)

\* Its header would pass the check whose answer block_validate ignores.
HeaderValidAtCommit ==
    pc = "assert" => block_header_validate(proposed_block,
                                           main_chain_block_list, a2pk)

\* Block number i has id i: get_block_number, which looks a block up by its
\* index, returns the block with the id it was asked for.
ChainIds ==
    \A i \in DOMAIN main_chain_block_list : main_chain_block_list[i].id = i - 1

-----------------------------------------------------------------------------
(* A claim of the source that the code does not keep *)

\* "overflow protection": a transfer never takes more than its sender has.
NoOverdraft ==
    pc = "apply_tx" /\ pos <= Len(txs) /\ txs[pos].type = 1 =>
        covers(At(balance, txs[pos].send_addr), txs[pos].amount)

-----------------------------------------------------------------------------
(* Liveness *)

\* After a shutdown call the process ends, whatever the peers and the handlers
\* are doing.
ShutdownStops == ~work ~> ~running

queued(req, list) ==
    \E i \in DOMAIN list :
        list[i].type = 1 /\ list[i].send_addr = req.from
        /\ list[i].recv_addr = req.to /\ list[i].amount = req.amount

\* A transfer that is in the queue when a round begins is in the block that this
\* round commits, or the process has died (an own block that does not validate),
\* provided that no push_back that is under way writes back a queue without it.
\* Only the own proposal is considered: a proposal of somebody else that takes
\* its place has other transactions, and those of the node are lost.
QueueCommits ==
    \A req \in Transfers :
        /\ pc = "ask" /\ caller = "loop" /\ ready
        /\ queued(req, tx_list)
        /\ \A h \in Handlers :
               thread[h].at = "store" => queued(req, thread[h].seen)
        ~>
        \/ pc = "append" /\ caller = "commit" /\ queued(req, applied.tx_list)
        \/ pc = "crashed"

=============================================================================
