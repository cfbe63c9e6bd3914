---------------------------- MODULE MCTrainBatch ----------------------------
(* Instances of TrainBatch for TLC: a few topologies, and for each the      *)
(* rollouts whose rows are split in turn or in blocks, two splits no        *)
(* correct one, any set of usable rows, and a divergence of the critic's    *)
(* two losses that strikes any set of rows, single rows among them.         *)
EXTENDS TrainBatch

Base == [prompts |-> 2, samples |-> 2, global |-> 4, actors |-> 2, critics |-> 2,
         micro |-> 1, retain |-> 50, match |-> TRUE, exactActor |-> FALSE,
         exactCritic |-> FALSE, dynamic |-> FALSE, frozen |-> FALSE, check |-> FALSE]

ModelConfigs ==
    {\* 4 rows, exact for the actor, one spare row for each of 2 critics
     [Base EXCEPT !.exactActor = TRUE, !.check = TRUE, !.retain = 60],
     \* 7 rows over 2 actors in microbatches of 2: 4 and 3 become 2 and 2
     [Base EXCEPT !.prompts = 7, !.samples = 1, !.global = 7, !.micro = 2, !.critics = 1],
     \* 6 rows, 3 actors with 2 critics: the topology that used to deal 2 / 1
     [Base EXCEPT !.prompts = 3, !.global = 6, !.actors = 3, !.exactActor = TRUE,
                  !.exactCritic = TRUE],
     \* dynamic batches: the critic aligns to its ranks only
     [Base EXCEPT !.micro = 2, !.dynamic = TRUE, !.frozen = TRUE, !.check = TRUE],
     \* 6 rows for 4: a global batch that is not the rollout
     [Base EXCEPT !.prompts = 3, !.match = FALSE, !.micro = 2, !.exactCritic = TRUE],
     \* 3 rows, microbatches of 2: one actor is left without any, and refused plans
     [Base EXCEPT !.prompts = 3, !.samples = 1, !.global = 3, !.micro = 2],
     [Base EXCEPT !.prompts = 3, !.samples = 1, !.global = 3, !.exactActor = TRUE],
     [Base EXCEPT !.global = 2]}

InTurn(c) == [a \in Actors(c) |-> {i \in Rows(c) : i % c.actors = a}]
Block(c) == (Generated(c) + c.actors - 1) \div c.actors
InBlocks(c) == [a \in Actors(c) |-> {i \in Rows(c) : i \div Block(c) = a}]
Missing(c) == [InTurn(c) EXCEPT ![0] = @ \ {0}]
Twice(c) == [InTurn(c) EXCEPT ![c.actors - 1] = @ \cup {0}]

ModelBatches(c) ==
    [shards : {InTurn(c), InBlocks(c), Missing(c), Twice(c)},
     usable : SUBSET Rows(c), off : IF c.check THEN SUBSET Rows(c) ELSE {{}}]
=============================================================================
