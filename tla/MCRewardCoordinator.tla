------------------------ MODULE MCRewardCoordinator ------------------------
(* RewardCoordinator on small instances: see the cfg files. *)
EXTENDS RewardCoordinator

CONSTANTS c1, c2, loot, xp, dungeon, hut, boss
=============================================================================
