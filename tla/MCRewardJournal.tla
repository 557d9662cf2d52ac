--------------------------- MODULE MCRewardJournal ---------------------------
(* RewardJournal on a small instance: two characters, one boss, one part,    *)
(* two run identities that reset at different times.                         *)
EXTENDS RewardJournal, TLC

CONSTANTS c1, c2, r1, r2

MCExpires == (r1 :> 1) @@ (r2 :> 2)
MCSymmetry == Permutations({c1, c2})
=============================================================================
