--------------------------- MODULE MCInputStaging ---------------------------
(* An instance of InputStaging for TLC: two checkpoints of one architecture,  *)
(* so that they have the same files and sizes, and a smaller one.           *)
EXTENDS InputStaging, TLC

CONSTANTS a, b, c, config, shard

ThreeSources == {a, b, c}
ModelFiles == {config, shard}
ModelHolds == (a :> ModelFiles) @@ (b :> ModelFiles) @@ (c :> {config})
ModelBytes == (config :> 1) @@ (shard :> 2)
\* a feeds the trainer too; b, of equal signature, and c are pruned once loaded.
SharedByA == [s \in ThreeSources |-> s = a]
PrunedButA == [s \in ThreeSources |-> s # a]
Weights == {shard}
=============================================================================
