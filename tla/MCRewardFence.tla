---------------------------- MODULE MCRewardFence ----------------------------
(* RewardFence on a small instance: two characters, two lives, two epochs. *)
EXTENDS RewardFence

CONSTANTS c1, c2, l1, l2
=============================================================================
