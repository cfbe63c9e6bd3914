------------------------- MODULE MCRewardAccumulator -------------------------
(* Instances of RewardAccumulator for TLC: a group of two and single samples. *)
EXTENDS RewardAccumulator, TLC

CONSTANTS g1, g2, g3, g4
MCSize == (g1 :> 2) @@ (g2 :> 1) @@ (g3 :> 1) @@ (g4 :> 1)
=============================================================================
