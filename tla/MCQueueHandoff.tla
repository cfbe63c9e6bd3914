---------------------------- MODULE MCQueueHandoff ----------------------------
(* Instances of QueueHandoff for TLC: scripts and export directories.       *)
EXTENDS QueueHandoff

ModelKinds == {k \in [Queues -> {"dataset", "roundtrip"}] : k[Second] = "roundtrip"}
SharedDirs == [q \in Queues |-> First]
===============================================================================
