------------------------------ MODULE MCPeers -------------------------------
(* Instances of Peers for TLC: a seed and nodes that know only the seed. *)
EXTENDS Peers, TLC

CONSTANTS S, A, B, s1, a1, a2, b1, x

\* One address each, or a second network interface for A
MCSingle == S :> <<s1>> @@ A :> <<a1>> @@ B :> <<b1>>
MCDouble == S :> <<s1>> @@ A :> <<a1, a2>>

\* x is a loopback address: everybody reaches himself under it.
MCBehind(address, caller) == {caller}
==============================================================================
