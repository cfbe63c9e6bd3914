---------------------------- MODULE TrainingOnce ----------------------------
(***************************************************************************)
(* What the RL queue promises about an item, with nothing about YAML files, *)
(* locks, retries or crashes: a contract is frozen for it once and never    *)
(* changed after; its one training runs under that contract; and it is      *)
(* judged only when that training wrote every checkpoint that stays.        *)
(***************************************************************************)
EXTENDS Naturals

CONSTANT N          \* number of queue items

Items == 1..N

VARIABLES
    under,          \* under[i]: version of the frozen contract, 0 before
    phase,          \* phase[i]: where the training of i is
    verdict         \* verdict[i]: outcome of the last finished evaluation

vars == <<under, phase, verdict>>

Phases == {"waiting", "saving", "saved", "done", "short"}

Init == /\ under = [i \in Items |-> 0]
        /\ phase = [i \in Items |-> "waiting"]
        /\ verdict = [i \in Items |-> "none"]

\* The contract is pinned, before anything was launched.
Freeze(i) ==
    /\ phase[i] = "waiting" /\ under[i] = 0
    /\ under'[i] # 0 /\ \A j \in Items \ {i} : under'[j] = under[j]
    /\ UNCHANGED <<phase, verdict>>

\* The training is launched under its contract; nothing may be left to save.
Start(i) ==
    /\ phase[i] = "waiting" /\ under[i] # 0
    /\ \E s \in {"saving", "saved"} : phase' = [phase EXCEPT ![i] = s]
    /\ UNCHANGED <<under, verdict>>

\* The last of the checkpoints that stay is written.
AllSaved(i) ==
    /\ phase[i] = "saving"
    /\ phase' = [phase EXCEPT ![i] = "saved"]
    /\ UNCHANGED <<under, verdict>>

\* The training command ends, or is killed, with or without them.
End(i) ==
    /\ \/ phase[i] = "saving" /\ phase' = [phase EXCEPT ![i] = "short"]
       \/ phase[i] = "saved" /\ phase' = [phase EXCEPT ![i] = "done"]
    /\ UNCHANGED <<under, verdict>>

\* An evaluation of all its checkpoints comes to its end.
Judge(i) ==
    /\ phase[i] \in {"saved", "done"}
    /\ \E v \in {"pass", "fail"} : verdict' = [verdict EXCEPT ![i] = v]
    /\ UNCHANGED <<under, phase>>

Next == \E i \in Items : Freeze(i) \/ Start(i) \/ AllSaved(i) \/ End(i) \/ Judge(i)

Spec == Init /\ [][Next]_vars
=============================================================================
