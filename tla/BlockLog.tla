------------------------------ MODULE BlockLog ------------------------------
(***************************************************************************)
(* What a node promises about its chain: a log of blocks that only grows,  *)
(* one block at a time, and one slot for the proposal under discussion.    *)
(* The block a round ends with is the one in the slot, and it leaves the   *)
(* slot with that: a proposal is committed once.  Blocks fetched from      *)
(* another node are appended without going through the slot.               *)
(***************************************************************************)
EXTENDS Naturals, Sequences

CONSTANT Blocks

VARIABLES log,   \* the chain
          slot   \* <<b>> while b is proposed, else <<>>

Init == /\ log \in Seq(Blocks) /\ Len(log) <= 1
        /\ slot = <<>>

\* A proposal enters the empty slot or takes the place of another one.
Propose == /\ slot' \in Seq(Blocks) /\ Len(slot') = 1
           /\ UNCHANGED log

Commit == /\ slot # <<>>
          /\ log' = log \o slot
          /\ slot' = <<>>

Import == /\ log' \in Seq(Blocks) /\ Len(log') = Len(log) + 1
          /\ SubSeq(log', 1, Len(log)) = log
          /\ UNCHANGED slot

Next == Propose \/ Commit \/ Import

Spec == Init /\ [][Next]_<<log, slot>>

=============================================================================
