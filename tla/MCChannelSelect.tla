---------------------------- MODULE MCChannelSelect ----------------------------
(***************************************************************************)
(* Instances of ChannelSelect for TLC.                                     *)
(***************************************************************************)
EXTENDS ChannelSelect, TLC

CONSTANT r1

\* Two channels of different priority: both in one group, one of them also in the
\* other, which may thus be empty when its neighbour is not
FirstShared == 1 :> {1, 2} @@ 2 :> {2}
PairPriority == 1 :> 10 @@ 2 :> 5
PairWeight   == 1 :> 0 @@ 2 :> 1

\* A token of the second group, and one of the auto groups with or without retries
\* across them
AskAll   == {[group |-> 2, cross |-> FALSE], [group |-> AutoGroup, cross |-> FALSE],
             [group |-> AutoGroup, cross |-> TRUE]}
===============================================================================
