----------------------------- MODULE MCNetwork ------------------------------
(* Instances of Network for TLC: a seed S and nodes that join it. *)
EXTENDS Network, TLC

CONSTANTS S, J, K, None

MCKeyPrefix(key) == key
MCNulAt(hash) == "none"
MCUpToNul(sign) == sign
MCTails == {"none", "full", "full+weight"}
MCWeighed(tail) == IF tail = "full" THEN "full+weight" ELSE tail

\* From the seed's first address to its second
MCTransfers == {[from |-> 0, to |-> 1, amount |-> 50]}

\* The nodes that join are alike.
Joiners == Permutations(Nodes \ {Seed})
==============================================================================
