------------------------------- MODULE MCNode -------------------------------
(* Instances of NodeAudit for TLC. *)
EXTENDS NodeAudit, TLC

CONSTANTS K1, K2, None, h1, h2

\* The handler threads are alike (safety runs only)
HandlerSymmetry == Permutations(Handlers)

MCKeyPrefix(key) == key

\* The hash of a transfer is taken to have no zero byte, the hash of an address
\* transfer, whose amount is 0, to have one inside.
MCNulAt(hash) == IF hash[2] = 0 THEN "inside" ELSE "none"

\* A signature as ed25519_sign makes it has no zero byte here; the other one
\* that the key gives of the same message has.
MCUpToNul(sign) == IF sign.form = "made" THEN sign ELSE [sign EXCEPT !.form = "cut"]

\* Padding that begins with a zero byte, or has none: then the weight follows.
MCTails == {"none", "full", "full+weight"}
MCWeighed(tail) == IF tail = "full" THEN "full+weight" ELSE tail

MCWord == 16777216    \* 2^24

transfer(from, to, amount) == [from |-> from, to |-> to, amount |-> amount]

\* The balance covers one transfer after another, but not three.
LoneTransfers == {transfer(0, 1, 400000)}
LoneAddrTransfers == {[address |-> 1, pub_key |-> K2]}

\* The balance covers one of them, but not two.
LargeTransfers == {transfer(0, 1, 600000)}

\* debug_set_key to a pair that belongs together and to halves that do not
Switches == {[address |-> 1, key |-> K2, prv |-> K2],
             [address |-> 1, key |-> K1, prv |-> K2]}

\* What comes by tx_push: the transfer of the node under another signature of
\* its key, and one by the holder of K2, who owns address 1 after the address
\* transfer.
LonePushedTxs ==
    {[NullTx EXCEPT !.type = 1, !.amount = 400000, !.recv_addr = 1,
                    !.hash = "own", !.sign = [key |-> K1, form |-> "other"]],
     [NullTx EXCEPT !.type = 1, !.amount = 5, !.send_addr = 1, !.hash = "own",
                    !.sign = signature(K2, K2)]}

-----------------------------------------------------------------------------
(* Blocks of another node, whose key is K2 *)

header(id, byte, list) ==
    [id |-> id, issuer_addr |-> 0, issuer_pub_key |-> K2,
     merkle_tree |-> merkle_tree_calc(list), hash |-> byte,
     sign |-> signature(K2, K2), tx_list |-> list]

PeerTx == tx_sign([NullTx EXCEPT !.type = 1, !.amount = 100, !.recv_addr = 1],
                  K2, K2)

MCPeerBlocks == {header(0, 1, <<>>), header(1, 2, <<>>), header(1, 2, <<PeerTx>>)}
MCPeerProposals == {EmptyBlock, header(2, 2, <<>>)}
MCPushedBlocks == {header(2, 1, <<>>), header(2, 2, <<PeerTx>>)}
=============================================================================
