------------------------ MODULE MCObservatoryPipeline ------------------------
(* An instance of ObservatoryPipeline for TLC.                              *)
EXTENDS ObservatoryPipeline

TwoThenOne == [q \in Queues |-> IF q = "gpu" THEN 2 ELSE 1]
=============================================================================
