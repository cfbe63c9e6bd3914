-------------------------- MODULE RewardAccumulator --------------------------
(***************************************************************************)
(* nla/reward.py: reward requests of one rollout worker's event loop are    *)
(* collected in _pending and scored in batches by the critic.               *)
(*                                                                          *)
(* Everything between two awaits is one step.  A request (nla_rm) appends   *)
(* its samples and either drains at once or leaves them to the tail timer   *)
(* _drain_task; a request starts at most one of the two, so a drain, and a  *)
(* timer task, is named after the request that started it.                  *)
(***************************************************************************)
EXTENDS Naturals, Sequences, FiniteSets, Functions

CONSTANTS
    Requests,   \* calls of nla_rm
    Size,       \* Size[g]: samples in g (1, or the group of --group-rm)
    BatchSize,  \* --nla-reward-batch-size
    Ranks,      \* the critic's ranks
    NoTimer     \* _drain_task is None

ASSUME RequestAssumption ==
    /\ Size \in [Requests -> Nat \ {0}]
    /\ NoTimer \notin Requests
ASSUME BatchAssumption == BatchSize \in Nat \ {0}
ASSUME RankAssumption == Ranks # {}

SamplesOf(g) == {<<g, k>> : k \in 1..Size[g]}
Samples == UNION {SamplesOf(g) : g \in Requests}

VARIABLES
    pending,    \* _pending
    timer,      \* _drain_task: the request whose task it is, or NoTimer
    task,       \* task[g]: the timer task, then the drain, that g started
    batch,      \* batch[g]: the samples g's drain has detached from pending
    orig,       \* orig[g]: orig_idx of g's drain
    inbox,      \* inbox[r]: critic_fwd calls queued at rank r
    answer,     \* answer[g]: what ray.get returns to g's drain
    future,     \* future[s]: the future a request awaits for sample s
    score,      \* score[s]: the samples whose critic score was handed to s
    valid       \* the completed samples with an explanation

vars == <<pending, timer, task, batch, orig, inbox, answer, future, score, valid>>

Call == [drain : Requests, prompts : Seq(Samples)]
Answer == [ok : BOOLEAN, rows : Seq(Samples)]

TypeOK ==
    /\ pending \in Seq(Samples)
    /\ timer \in Requests \cup {NoTimer}
    /\ task \in [Requests -> {"none", "asleep", "due", "critic", "back", "over"}]
    /\ batch \in [Requests -> Seq(Samples)]
    /\ orig \in [Requests -> Seq(Nat)]
    /\ inbox \in [Ranks -> Seq(Call)]
    /\ answer \in [Requests -> Answer]
    /\ future \in [Samples -> {"none", "waiting", "set", "error"}]
    /\ score \in [Samples -> SUBSET Samples]
    /\ valid \subseteq Samples

NoAnswer == [ok |-> FALSE, rows |-> << >>]

Init ==
    /\ pending = << >> /\ timer = NoTimer
    /\ task = [g \in Requests |-> "none"]
    /\ batch = [g \in Requests |-> << >>]
    /\ orig = [g \in Requests |-> << >>]
    /\ inbox = [r \in Ranks |-> << >>]
    /\ answer = [g \in Requests |-> NoAnswer]
    /\ future = [s \in Samples |-> "none"]
    /\ score = [s \in Samples |-> {}]
    /\ valid \in SUBSET Samples

-----------------------------------------------------------------------------
(* Scoring a batch *)

(* The positions of p whose samples go to the critic. *)
Scorable(p) == {i \in DOMAIN p : p[i] \in valid}

(* _prep_batch, orig_idx: those positions in increasing order (one element). *)
OrigIdx(p) ==
    {idx \in [1..Cardinality(Scorable(p)) -> Scorable(p)] :
        /\ Range(idx) = Scorable(p)
        /\ \A j, k \in DOMAIN idx : j < k => idx[j] < idx[k]}

Prompts(p, idx) == [k \in DOMAIN idx |-> p[idx[k]]]

\* Faulty variant: rows are handed out by position, as if nothing was skipped.
BugRowsFor(idx, rows, i) == {rows[k] : k \in {j \in DOMAIN rows : j = i}}

(* The rows of the critic handed to position i: row k goes to orig_idx[k]; a *)
(* position without one keeps failed_extraction_reward.                      *)
RowsFor(idx, rows, i) == {rows[k] : k \in {j \in DOMAIN rows : idx[j] = i}}

(* The futures F after set_result on those of p, and the scores given out. *)
Resolved(F, p) == [s \in Samples |-> IF s \in Range(p) THEN "set" ELSE F[s]]
Scored(p, idx, rows) ==
    [s \in Samples |-> IF s \in Range(p)
        THEN UNION {RowsFor(idx, rows, i) : i \in {j \in DOMAIN p : p[j] = s}}
        ELSE score[s]]

\* Faulty variant: an exception after the detach reaches no future.
BugFailed(F, p) == F

(* set_exception on every future of p that is not done. *)
Failed(F, p) ==
    [s \in Samples |-> IF s \in Range(p) /\ F[s] = "waiting" THEN "error" ELSE F[s]]

-----------------------------------------------------------------------------
(* Draining *)

\* Faulty variant: the detach reads _pending but does not empty it.
BugLeft(p) == p

(* _pending after `batch, _pending[:] = _pending[:], []`. *)
Left(p) == << >>

\* Faulty variant: a drain leaves _drain_task as it found it.
BugTimerAfterDrain == timer

(* _drain_task after its reset at the top of _drain. *)
TimerAfterDrain == NoTimer

(* _drain up to its await, run by g over the pending samples p; F are the   *)
(* futures and T the tasks so far.  Preparing the batch may raise; a batch  *)
(* without explanations is resolved on the spot, like an empty one; any     *)
(* other goes to every rank of the critic.                                  *)
Drain(g, p, F, T) ==
    /\ timer' = TimerAfterDrain
    /\ pending' = Left(p)
    /\ \/ /\ task' = [T EXCEPT ![g] = "over"]
          /\ future' = Failed(F, p)
          /\ UNCHANGED <<batch, orig, inbox, score>>
       \/ /\ Range(p) \cap valid = {}
          /\ task' = [T EXCEPT ![g] = "over"]
          /\ future' = Resolved(F, p)
          /\ score' = Scored(p, << >>, << >>)
          /\ UNCHANGED <<batch, orig, inbox>>
       \/ /\ Range(p) \cap valid # {}
          /\ task' = [T EXCEPT ![g] = "critic"]
          /\ batch' = [batch EXCEPT ![g] = p]
          /\ \E idx \in OrigIdx(p) :
                /\ orig' = [orig EXCEPT ![g] = idx]
                /\ inbox' = [r \in Ranks |->
                      Append(inbox[r], [drain |-> g, prompts |-> Prompts(p, idx)])]
          /\ future' = F
          /\ UNCHANGED score
    /\ UNCHANGED <<answer, valid>>

-----------------------------------------------------------------------------
(* Requests *)

\* Faulty variant: a full batch leaves the timer running.
BugCancelled == task

(* The tasks after _drain_task.cancel(): it never gets past its sleep, even *)
(* when the sleep is over and the task only waits for the loop.             *)
Cancelled == IF timer = NoTimer THEN task ELSE [task EXCEPT ![timer] = "over"]

(* len(_pending) >= args.nla_reward_batch_size *)
Full(p) == Len(p) >= BatchSize

(* What a request appends to _pending: each of its samples, with a future. *)
Entries(g) == [k \in 1..Size[g] |-> <<g, k>>]

(* nla_rm up to its await, for one sample or a group. *)
Request(g) ==
    /\ \A s \in SamplesOf(g) : future[s] = "none"
    /\ LET p == pending \o Entries(g)
           F == [s \in Samples |-> IF s \in SamplesOf(g) THEN "waiting" ELSE future[s]]
       IN \/ /\ Full(p)
             /\ Drain(g, p, F, Cancelled)
          \/ /\ ~Full(p)
             /\ pending' = p
             /\ future' = F
             /\ \/ /\ timer = NoTimer
                   /\ timer' = g
                   /\ task' = [task EXCEPT ![g] = "asleep"]
                \/ /\ timer # NoTimer
                   /\ UNCHANGED <<timer, task>>
             /\ UNCHANGED <<batch, orig, inbox, answer, score, valid>>

-----------------------------------------------------------------------------
(* The tail timer *)

(* _TAIL_FLUSH_SECONDS have passed: the task is scheduled on the loop. *)
TimerFires(g) ==
    /\ task[g] = "asleep"
    /\ task' = [task EXCEPT ![g] = "due"]
    /\ UNCHANGED <<pending, timer, batch, orig, inbox, answer, future, score, valid>>

(* _flush_after_timeout goes on: nothing to do if somebody drained. *)
TimerRuns(g) ==
    /\ task[g] = "due"
    /\ \/ /\ timer # NoTimer
          /\ Drain(g, pending, future, task)
       \/ /\ timer = NoTimer
          /\ task' = [task EXCEPT ![g] = "over"]
          /\ UNCHANGED <<pending, timer, batch, orig, inbox, answer, future, score, valid>>

-----------------------------------------------------------------------------
(* The critic *)

(* critic_fwd is a collective: the ranks take their calls in order and get  *)
(* through one only together.  It returns one row per prompt, or fails.     *)
Forward(g) ==
    /\ \A r \in Ranks : inbox[r] # << >> /\ Head(inbox[r]).drain = g
    /\ inbox' = [r \in Ranks |-> Tail(inbox[r])]
    /\ \E ok \in BOOLEAN, r \in Ranks :
          answer' = [answer EXCEPT ![g] =
              [ok |-> ok, rows |-> IF ok THEN Head(inbox[r]).prompts ELSE << >>]]
    /\ task' = [task EXCEPT ![g] = "back"]
    /\ UNCHANGED <<pending, timer, batch, orig, future, score, valid>>

(* _drain after its await: hand out the rewards, or the exception. *)
Resume(g) ==
    /\ task[g] = "back"
    /\ task' = [task EXCEPT ![g] = "over"]
    /\ batch' = [batch EXCEPT ![g] = << >>]
    /\ orig' = [orig EXCEPT ![g] = << >>]
    /\ answer' = [answer EXCEPT ![g] = NoAnswer]
    /\ \/ /\ answer[g].ok
          /\ future' = Resolved(future, batch[g])
          /\ score' = Scored(batch[g], orig[g], answer[g].rows)
       \/ /\ ~answer[g].ok
          /\ future' = Failed(future, batch[g])
          /\ UNCHANGED score
    /\ UNCHANGED <<pending, timer, inbox, valid>>

-----------------------------------------------------------------------------
Next ==
    \E g \in Requests :
        \/ Request(g) \/ TimerFires(g) \/ TimerRuns(g) \/ Forward(g) \/ Resume(g)

(* The sleep ends, the event loop runs what is ready and the critic answers *)
(* (NCCL timeouts included); nobody has to send a request.                  *)
Fairness ==
    \A g \in Requests :
        WF_vars(TimerFires(g)) /\ WF_vars(TimerRuns(g))
        /\ WF_vars(Forward(g)) /\ WF_vars(Resume(g))

Spec == Init /\ [][Next]_vars /\ Fairness

-----------------------------------------------------------------------------
(* Properties *)

(* Samples left in _pending have a live timer that will drain them, and are *)
(* fewer than a batch: no request waits for the next one to arrive, and no  *)
(* timer runs for an empty list.                                            *)
PendingIsGuarded ==
    /\ Len(pending) < BatchSize
    /\ pending = << >> <=> timer = NoTimer
    /\ timer # NoTimer => task[timer] \in {"asleep", "due"}

(* A timer that has not been cancelled is the one in _drain_task: the check *)
(* "still us" of _flush_after_timeout, which only looks for None, never     *)
(* takes a younger timer's samples early.                                   *)
TimerIsCurrent ==
    \A g \in Requests : task[g] \in {"asleep", "due"} <=> timer = g

\* The drains that have detached sample s and not resolved it yet.
Held(s) ==
    {g \in Requests : task[g] \in {"critic", "back"} /\ s \in Range(batch[g])}

(* Every future somebody awaits is in _pending or in exactly one detached   *)
(* batch, once, and both hold nothing but unresolved futures: set_result    *)
(* and set_exception meet each future once, and none is dropped.            *)
WaiterIsHeld ==
    /\ \A s \in Samples :
          /\ future[s] = "waiting" <=> s \in Range(pending) \/ Held(s) # {}
          /\ s \in Range(pending) => Held(s) = {}
          /\ \A g, h \in Held(s) : g = h
    /\ IsInjective(pending)
    /\ \A g \in Requests : IsInjective(batch[g])

(* A resolved sample has the score of its own explanation, and the fixed    *)
(* penalty exactly when it has none, whatever else was in its batch.        *)
OwnReward ==
    \A s \in Samples : future[s] = "set" => score[s] = {s} \cap valid

(* Every request that waits for a reward gets it, or an exception: also on  *)
(* a critic that fails, and when no further request arrives.                *)
EveryReward ==
    \A s \in Samples : future[s] = "waiting" ~> future[s] \in {"set", "error"}
=============================================================================
