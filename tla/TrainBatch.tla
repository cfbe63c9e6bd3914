------------------------------ MODULE TrainBatch ------------------------------
(***************************************************************************)
(* How many rows of a rollout the ranks train on, and whether they agree.   *)
(*                                                                          *)
(* scripts/nano_rl_queue.py plans the batch before a launch                 *)
(* (_rollout_batch_plan, _validate_actor_batch_plan,                        *)
(* _validate_critic_batch_plan).  In the training actors                    *)
(* (nla/train_actor.py, nla/critic_repartition.py) every actor rank cuts    *)
(* its own shard to the smallest of all, and every critic rank rebuilds the *)
(* whole batch from the actor shards, keeps the rows with critic tokens,    *)
(* aligns and takes its part, without asking the others: they meet only in  *)
(* collectives, where a rank waits for all of its group.                    *)
(*                                                                          *)
(* A row is its index in the rollout.  Miles, which splits the rows over    *)
(* the actor ranks and hands them out, is outside the repository.           *)
(***************************************************************************)
EXTENDS Integers, FiniteSets, FiniteSetsExt

CONSTANTS
    Configs,        \* queue items: topology, batch and options
    Batches(_),     \* the rollouts Miles may hand out under a configuration
    CheckLeast,     \* the step-0 check is skipped below so many rows (4)
    CheckMost,      \* and looks at no more than so many (32)
    MaxRollouts     \* bound on rollouts

(* critics and actors: ranks of each group; micro: rows of a microbatch;    *)
(* retain: the least per cent of the usable rows a critic may train on;     *)
(* check: NLA_ASSERT_PACKED_EQUIV; exactActor, exactCritic, match: require_ *)
(* exact_actor_batch, require_exact_critic_batch, require_global_batch_match. *)
Positive == Nat \ {0}
Config == [prompts : Positive, samples : Positive, global : Positive,
           actors : Positive, critics : Positive, micro : Positive,
           retain : 0..100, match : BOOLEAN, exactActor : BOOLEAN,
           exactCritic : BOOLEAN, dynamic : BOOLEAN, frozen : BOOLEAN,
           check : BOOLEAN]

Generated(c) == c.prompts * c.samples
Actors(c) == 0..(c.actors - 1)
Critics(c) == 0..(c.critics - 1)
Rows(c) == 0..(Generated(c) - 1)

(* shards[a]: the rows of actor rank a; usable: the rows whose explanation  *)
(* could be extracted, which carry critic tokens; off: the rows whose       *)
(* reward and training losses differ by more than the tolerance.            *)
Batch(c) == [shards : [Actors(c) -> SUBSET Nat], usable : SUBSET Rows(c),
             off : SUBSET Rows(c)]

ASSUME ConfigAssumption == Configs \subseteq Config
ASSUME BatchAssumption == \A c \in Configs : Batches(c) \subseteq Batch(c)
ASSUME ShardAssumption ==
    \A c \in Configs : \A b \in Batches(c) : \A a \in Actors(c) :
        IsFiniteSet(b.shards[a])
ASSUME BoundAssumption == CheckLeast \in Nat /\ CheckMost \in Nat /\ MaxRollouts \in Nat

-----------------------------------------------------------------------------
(* The plan of the queue *)

AlignDown(n, d) == n - (n % d)

BugActorRemainder(c) == c.global % c.actors

ActorRemainder(c) == c.global % (c.actors * c.micro)
CriticRemainder(c) == c.global % (c.critics * c.micro)

(* QueueError before anything is launched *)
Refused(c) ==
    \/ c.match /\ c.global # Generated(c)
    \/ c.exactActor /\ (c.global # Generated(c) \/ ActorRemainder(c) # 0)
    \/ c.exactCritic /\ CriticRemainder(c) # 0

(* effective_trained_samples and full_usable_critic_retained_samples *)
Plan(c) == [trained |-> c.global - ActorRemainder(c),
            retained |-> c.global - CriticRemainder(c)]

-----------------------------------------------------------------------------
(* Parts of a batch *)

(* Where row i stands among the rows S, and the first k rows of S. *)
Position(i, S) == Cardinality({j \in S : j < i})
First(k, S) == {i \in S : Position(i, S) < k}

(* balance_critic_partition: no row twice, none out of range, none missing *)
Covered(c, b) ==
    /\ UNION {b.shards[a] : a \in Actors(c)} = Rows(c)
    /\ \A a1, a2 \in Actors(c) : a1 # a2 => b.shards[a1] \cap b.shards[a2] = {}

Alignment(c) == IF c.dynamic THEN 1 ELSE c.micro
Retained(c, b) == AlignDown(Cardinality(b.usable), c.critics * Alignment(c))
LocalCount(c, b) == Retained(c, b) \div c.critics

BugDealt(S, k, n) == {i \in S : i % n = k}

(* retained_rows[critic_rank::critic_dp] *)
Dealt(S, k, n) == {i \in S : Position(i, S) % n = k}
BugLocal(c, b, k) == b.usable \cap UNION {b.shards[a] : a \in {a \in Actors(c) : a % c.critics = k}}

Local(c, b, k) == Dealt(First(Retained(c, b), b.usable), k, c.critics)

(* require_minimum_retained_fraction *)
TooFew(c, b) == 100 * Retained(c, b) < c.retain * Cardinality(b.usable)

BugReport(c, b) == [usable |-> Generated(c), retained |-> Retained(c, b), post |-> 0]

Report(c, b) == [usable |-> Cardinality(b.usable), retained |-> Retained(c, b),
                 post |-> 0]
NoReport == [usable |-> 0, retained |-> 0, post |-> 0]

-----------------------------------------------------------------------------
VARIABLES
    config,     \* the item that was launched
    rollout,    \* rollouts handed out so far
    batch,      \* the current one
    actor,      \* per actor rank: its next step, its rows, the last reduction
    critic,     \* the same per critic rank
    report      \* per critic rank: _nla_critic_repartition_report

vars == <<config, rollout, batch, actor, critic, report>>

(* A rank in one of these waits for its whole group. *)
Collectives == {"check", "reduce", "train"}
States == Collectives \cup {"ready", "shard", "compare", "swap", "reduced", "done", "failed"}
Rank == [at : States, rows : SUBSET Nat, got : Nat]

At(where) == [at |-> where, rows |-> {}, got |-> 0]
Arrived(team, where) == \A r \in DOMAIN team : team[r].at = where
Moved(team, where, n) ==
    [r \in DOMAIN team |-> [at |-> where, rows |-> team[r].rows, got |-> n]]
Least(team) == Min({Cardinality(team[r].rows) : r \in DOMAIN team})

(* Rank r of a team goes on with these rows, or raises. *)
Goes(team, r, where, rows) ==
    [team EXCEPT ![r] = [at |-> where, rows |-> rows, got |-> team[r].got]]
Raises(team, r) == Goes(team, r, "failed", team[r].rows)

Init ==
    /\ config \in {c \in Configs : ~Refused(c)}
    /\ rollout = 0
    /\ batch = [shards |-> [a \in Actors(config) |-> {}], usable |-> {}, off |-> {}]
    /\ actor = [a \in Actors(config) |-> At("done")]
    /\ critic = [k \in Critics(config) |-> At("done")]
    /\ report = [k \in Critics(config) |-> NoReport]

(* The driver has heard from every rank and hands out the next rollout. *)
Hand ==
    /\ rollout < MaxRollouts
    /\ Arrived(actor, "done") /\ Arrived(critic, "done")
    /\ batch' \in Batches(config)
    /\ rollout' = rollout + 1
    /\ actor' = [a \in Actors(config) |-> At("ready")]
    /\ critic' = [k \in Critics(config) |-> At("ready")]
    /\ UNCHANGED <<config, report>>

-----------------------------------------------------------------------------
(* The actor ranks: _train_core of a language model *)

ActorEnter(a) ==
    /\ actor[a].at = "ready"
    /\ actor' = Goes(actor, a, "reduce", batch.shards[a])
    /\ UNCHANGED <<config, rollout, batch, critic, report>>

ActorReduce ==
    /\ Arrived(actor, "reduce")
    /\ actor' = Moved(actor, "reduced", Least(actor))
    /\ UNCHANGED <<config, rollout, batch, critic, report>>

(* n_aligned, from the reduction and the same on every rank *)
Aligned(r, d) == AlignDown(r.got, d)

ActorTruncate(a) ==
    /\ actor[a].at = "reduced"
    /\ LET n == Aligned(actor[a], config.micro)
       IN  actor' = IF n > 0 THEN Goes(actor, a, "train", First(n, actor[a].rows))
                             ELSE Raises(actor, a)
    /\ UNCHANGED <<config, rollout, batch, critic, report>>

ActorStep ==
    /\ Arrived(actor, "train")
    /\ actor' = Moved(actor, "done", 0)
    /\ UNCHANGED <<config, rollout, batch, critic, report>>

-----------------------------------------------------------------------------
(* The critic ranks: train, then _train_core of the critic *)

(* _repartition_for_critic, by each rank for itself *)
CriticBalance(k) ==
    /\ critic[k].at = "ready"
    /\ critic' = IF Covered(config, batch) /\ Retained(config, batch) > 0
                 THEN Goes(critic, k, "shard", Local(config, batch, k))
                 ELSE Raises(critic, k)
    /\ UNCHANGED <<config, rollout, batch, actor, report>>

(* The step-0 check runs in the first rollout. *)
Checks(k) == rollout = 1 /\ config.check /\ Cardinality(critic[k].rows) >= CheckLeast

(* Faulty variant: only the leader, which prints the report, also keeps it. *)
BugRecorded(k) == IF k = 0 THEN [report EXCEPT ![k] = Report(config, batch)] ELSE report

Recorded(k) == [report EXCEPT ![k] = Report(config, batch)]

CriticAdmit(k) ==
    /\ critic[k].at = "shard"
    /\ IF TooFew(config, batch)
       THEN critic' = Raises(critic, k) /\ UNCHANGED report
       ELSE /\ critic' = Goes(critic, k, IF Checks(k) THEN "check" ELSE "swap", critic[k].rows)
            /\ report' = Recorded(k)
    /\ UNCHANGED <<config, rollout, batch, actor>>

(* _assert_reward_train_paths_agree: forwards of all ranks, then an         *)
(* assertion of each on its own rows                                        *)
CriticForward ==
    /\ Arrived(critic, "check")
    /\ critic' = Moved(critic, "compare", 0)
    /\ UNCHANGED <<config, rollout, batch, actor, report>>

Diverges(k) == First(CheckMost, critic[k].rows) \cap batch.off # {}

CriticCompare(k) ==
    /\ critic[k].at = "compare"
    /\ critic' = IF Diverges(k) THEN Raises(critic, k)
                                ELSE Goes(critic, k, "swap", critic[k].rows)
    /\ UNCHANGED <<config, rollout, batch, actor, report>>

(* _swap_rollout_to_critic_tokens drops the rows without critic tokens; the *)
(* caller asserts that none was dropped                                     *)
CriticSwap(k) ==
    /\ critic[k].at = "swap"
    /\ LET kept == critic[k].rows \cap batch.usable
       IN  critic' = IF Cardinality(kept) = LocalCount(config, batch)
                     THEN Goes(critic, k, "reduce", kept)
                     ELSE Raises(critic, k)
    /\ UNCHANGED <<config, rollout, batch, actor, report>>

CriticReduce ==
    /\ Arrived(critic, "reduce")
    /\ critic' = Moved(critic, "reduced", Least(critic))
    /\ UNCHANGED <<config, rollout, batch, actor, report>>

(* The rest of _truncate_to_cross_rank_min and the assertion that it was    *)
(* not needed; a frozen critic stops here.                                  *)
CriticTruncate(k) ==
    /\ critic[k].at = "reduced"
    /\ LET n == Aligned(critic[k], Alignment(config))
           post == n * config.critics
       IN  IF n > 0 /\ post = report[k].retained
           THEN /\ critic' = Goes(critic, k, IF config.frozen THEN "done" ELSE "train",
                                  First(n, critic[k].rows))
                /\ report' = [report EXCEPT ![k].post = post]
           ELSE critic' = Raises(critic, k) /\ UNCHANGED report
    /\ UNCHANGED <<config, rollout, batch, actor>>

CriticStep ==
    /\ Arrived(critic, "train")
    /\ critic' = Moved(critic, "done", 0)
    /\ UNCHANGED <<config, rollout, batch, actor, report>>

(* A rank stays in a collective from which another of its group is missing. *)
Stranded(team) == \E r, s \in DOMAIN team : team[r].at \in Collectives /\ team[s].at = "failed"

(* The wait in a collective is bounded (distributed_timeout_minutes, 600 s  *)
(* by default): a rank that waits for one that has raised is aborted at the *)
(* end.  Actor ranks never come to that (RefusalsAreShared).                *)
CriticTimeout(k) ==
    /\ critic[k].at \in Collectives /\ Stranded(critic)
    /\ critic' = Raises(critic, k)
    /\ UNCHANGED <<config, rollout, batch, actor, report>>

-----------------------------------------------------------------------------
Actor(a) == ActorEnter(a) \/ ActorTruncate(a)
Critic(k) == CriticBalance(k) \/ CriticAdmit(k) \/ CriticCompare(k) \/ CriticSwap(k)
             \/ CriticTruncate(k) \/ CriticTimeout(k)

Next ==
    \/ Hand
    \/ \E a \in Actors(config) : Actor(a)
    \/ ActorReduce \/ ActorStep
    \/ \E k \in Critics(config) : Critic(k)
    \/ CriticForward \/ CriticReduce \/ CriticStep

(* Every rank is a process, and a collective returns once all have entered; *)
(* a rank is never blocked but in a collective, and there not for ever.     *)
Fairness == WF_vars(Next)
Spec == Init /\ [][Next]_vars
FairSpec == Spec /\ Fairness

-----------------------------------------------------------------------------
(* Properties *)

Count == 0..Generated(config)

(* Types of the state; no count of the report (the metrics under            *)
(* nla/critic_batch) exceeds the generated rows.                            *)
TypeOK ==
    /\ config \in Configs /\ rollout \in 0..MaxRollouts /\ batch \in Batch(config)
    /\ actor \in [Actors(config) -> Rank]
    /\ critic \in [Critics(config) -> Rank]
    /\ report \in [Critics(config) -> [usable : Count, retained : Count, post : Count]]

Parts(k) == critic[k].at = "failed" /\ rollout = 1 /\ config.check /\ Diverges(k)

(* A rollout that one rank refuses is trained on by no rank of its group,   *)
(* also when a single row diverges on a single rank; and nobody waits for a *)
(* rank that has raised, but in the one place where ranks may part: the     *)
(* reduction after the step-0 check, whose assertion each rank makes over   *)
(* its own rows (the comment there has it fire everywhere).                 *)
RefusalsAreShared ==
    /\ \A team \in {actor, critic} : (\E r \in DOMAIN team : team[r].at = "failed") =>
            \A r \in DOMAIN team : team[r].at \notin {"train", "done"}
    /\ ~Stranded(actor)
    /\ Stranded(critic) =>
            /\ \E k \in Critics(config) : Parts(k)
            /\ \A k \in Critics(config) : critic[k].at \in Collectives => critic[k].at = "reduce"

Holds(k) ==
    \/ critic[k].at \in Collectives \cup {"shard", "compare", "swap", "reduced"}
    \/ critic[k].at = "done" /\ rollout > 0

(* The shards that critic ranks compute for themselves are disjoint, of one *)
(* size, of usable rows only, and leave out less than one aligned batch     *)
(* (balance_critic_partition).                                              *)
ShardsAgree ==
    /\ \A j, k \in Critics(config) : Holds(j) /\ Holds(k) =>
         /\ Cardinality(critic[j].rows) = Cardinality(critic[k].rows)
         /\ j # k => critic[j].rows \cap critic[k].rows = {}
    /\ \A k \in Critics(config) : Holds(k) => critic[k].rows \subseteq batch.usable
    /\ (\A k \in Critics(config) : Holds(k)) =>
         Cardinality(batch.usable \ UNION {critic[k].rows : k \in Critics(config)})
             < config.critics * Alignment(config)

Trains(team) == rollout > 0 /\ \A r \in DOMAIN team : team[r].at \in {"train", "done"}
Trained(team) == UNION {team[r].rows : r \in DOMAIN team}
Even == Covered(config, batch) /\ \A a1, a2 \in Actors(config) :
            Cardinality(batch.shards[a1]) <= Cardinality(batch.shards[a2]) + 1

(* What the queue planned before the launch is what the ranks train on: the *)
(* effective_trained_samples of the actor when the rows are split evenly,   *)
(* the full_usable_critic_retained_samples of the critic when every row is  *)
(* usable.  A plan with a global batch that is not the rollout only warns.  *)
(* With require_exact_actor_batch and require_exact_critic_batch no         *)
(* generated row is lost to alignment.                                      *)
PlanIsKept ==
    /\ config.global = Generated(config) =>
        /\ Trains(actor) /\ Even => Cardinality(Trained(actor)) = Plan(config).trained
        /\ Trains(critic) /\ batch.usable = Rows(config) /\ ~config.dynamic =>
             Cardinality(Trained(critic)) = Plan(config).retained
    /\ config.exactActor /\ Trains(actor) /\ Even => Trained(actor) = Rows(config)
    /\ config.exactCritic /\ config.match /\ Trains(critic) /\ batch.usable = Rows(config) =>
         Trained(critic) = Rows(config)

(* When the critic trains, every rank reports the same counts, those of the *)
(* rows that are trained on, and they are enough                            *)
(* (post_filter_retained_samples, NLA_MIN_CRITIC_RETAINED_FRACTION).        *)
ReportIsTrue ==
    Trains(critic) => \A k \in Critics(config) :
        /\ report[k].usable = Cardinality(batch.usable)
        /\ report[k].retained = Cardinality(Trained(critic))
        /\ report[k].post = report[k].retained
        /\ 100 * report[k].post >= config.retain * report[k].usable

Settles(team) == Arrived(team, "done") \/ Arrived(team, "failed")

(* Every rollout ends for each group, on all its ranks or on none, whatever *)
(* rows diverge on whichever rank: who waits for a rank that has raised is  *)
(* aborted, and nobody got past the last collective without it.             *)
RolloutEnds ==
    /\ Arrived(actor, "ready") ~> Settles(actor)
    /\ Arrived(critic, "ready") ~> Settles(critic)
=============================================================================
