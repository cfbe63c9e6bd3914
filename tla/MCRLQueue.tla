------------------------------ MODULE MCRLQueue ------------------------------
(* Instances of RLQueue for TLC: two items, the second depends on the first.  *)
EXTENDS RLQueue, TLC

MCDep == <<0, 1>>
MCNeedGate == {2}
MCSecondEval == {2}
MCNone == {}

\* The two queue processes are interchangeable.
Symmetry == Permutations(Workers)
=============================================================================
