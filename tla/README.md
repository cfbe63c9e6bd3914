# TLA+ models of the Nano NLA experiment system

The repository trains and evaluates natural language autoencoders: an actor
verbalizes activations (AV), a critic reconstructs them (AR), and an RL stage
rewards the actor through the critic. Most of its lines are numerics, but the
experiments are driven by programs with state that several processes share:
experiment queues, supervisors that wait for each other, directories staged for
several readers, a reward batcher inside an event loop, checkpoint savers with
background threads. These modules specify that state, TLC checks it on
small instances, and TLAPS proves its central invariants for all instances.

## 1. Inventory

| Component | State | Operations | What makes it hard |
|---|---|---|---|
| **RL experiment queue** `scripts/nano_rl_queue.py` | queue YAML (item status, approval, contract reference, gate), `<queue>.lock`, per-item run directory (launch contract, checkpoints), the training command | `--watch`, `--once`, `--post-eval-only`, `--arm`, `--disarm`, `--reset-active` | one file rewritten whole by several processes, only some of which hold the lock; kills; retries |
| **Input staging and SGLang** `scripts/nano_rl_queue.py` (2737-3224) | a node-local target directory and its marker, the servers of each launch | stage, start, wait for health, release staged weights, terminate | a target shared by two stagings of a launch and by several queues; kills between removal, copy and rename; servers that outlive their queue |
| **Observatory pipeline** `observatory/queue.py`, `pipeline_supervisor.py`, `queue_after_state.py`, `launch_after_prepare.py` | state files of queues, supervisor and watcher; a report; process ids | run and resume a queue, gate a queue by a report, follow a state file | no lock at all; state files of earlier runs; kills between two writes |
| **Reward accumulator** `nla/reward.py` | `_pending`, `_drain_task`, the futures, the batches at the critic | `nla_rm`, `_flush_after_timeout`, `_drain` | coroutines interleave at every await; cancellation; failing critic; collective ranks |
| **Checkpoint saver** `nla/train_actor.py` (`save_model`), `nla/scripts/push_checkpoint.py` | `iter_*` directories, tracker file, `self._push_proc`, remote files and manifest | save, background push, prune, crash, resume | threads that outlast the save that started them; stale reads; kills |
| **Batch plan and training ranks** `nano_rl_queue.py` (1320-1467), `nla/critic_repartition.py`, `nla/train_actor.py` | the planned batch; per actor and critic rank its shard and its place between collectives; the critic's report | plan, repartition, admit, step-0 check, swap, truncate, train | ranks decide alone and meet in collectives: one that decides otherwise leaves the rest waiting; remainders in two places |
| **Dataset and round-trip queues, chains and gates** `nano_prefix_dataset_queue.py`, `nano_roundtrip_queue.py`, `nano_queue_chain.py`, `nano_queue_gate.py` | two queue files and their locks, an exported checkpoint, reports | run a loop, wait for a queue and start the next, unblock an item on evidence, reset, clean up | only loops lock, everybody rewrites whole files from copies; the export is prepared and removed on behalf of several items |
| **Safety-domain evaluation** `nano_domain_eval_queue.py`, `nano_domain_eval.py` | a state file per chain, data files and reports with hashes, a converted checkpoint in memory | six phases, three of them sharded and merged; resume, `--no-resume`, `--reuse-through` | two chains share a manifest and an extraction; configurations change in between; what a phase read is hashed again after it computed |
| **Sharded extraction** `nano_prefix_sharded_extract.py`, `nano_prefix_activation_extract.py` | per shard and layer a parquet file, a sidecar, a metadata file; the merged ones; a report | plan ranges, start extractors, poll, merge, resume | files half written; files of another launch in the same directory; cuts that must keep batches whole |
| **Round-trip evaluation** `eval_nano_av_ar_roundtrip_gate.py` | shard and merged JSONL files, workers | generate, resume, merge, check, score | files truncated and appended to a record at a time; kills; workers that outlive their parent |
| Other experiment queues `nano_ar_hpo_queue.py`, `nano_av_probe_queue.py`, `nano_ar_layer_sweep.py` | queue YAML | as the dataset queue | the same lost updates |
| Observatory preparation `observatory/prepare_runtime.py` | staged checkpoints, a lock file | convert or copy, verify, replace | the lock file is removed after it is unlocked |
| Checkpoint retention `nano_checkpoint_retention.py` | run directory, retention manifest | plan and apply deletions | a kill between deletions |
| Rollout data source `nla/data_source.py` | offset and epoch | draw, roll back, save, load | the epoch boundary |
| Activation-oracle batches `observatory/run_model_batches.py` | one output file | generate, resume | as round-trip generation, in one process |
| Train guard `nla/train_guard.py` | none; thresholds | single comparisons | |
| Dataset pipelines, analysis, publication, dashboard, model code | files of one process, tensors | | no shared control state |

How they interact. The queue starts the RL training as a command
(`subprocess.run`), watches nothing but its exit code and the checkpoints it
leaves, and runs the post-evals on those. Before it, the queue stages the
inputs and starts the SGLang server the rollouts talk to. The observatory's
processes learn of each other through process ids, exit codes and state files. Inside the training, the rollout
workers call `nla_rm`, which calls the critic ranks through Ray. Both trainers
call `save_model`; the tracker it advances is what a resumed run starts from
(`nano_av_runner.py:828-839`). Operators act on the same queue file through the
command line. Round-trip items and domain evaluations generate from a checkpoint that
`prepare_av_checkpoint` exports to `/dev/shm`; chains and gates pass on from one
queue to the next; the sharded extractions are items of a dataset queue.

What makes the modelled components correct:

* queue: one run directory is trained at most once, and never two at a time;
  statuses tell the truth about owners and results; promotion follows the
  evidence; a launched item stays attached to the contract it was launched under;
* staging: what a server loads and a training command reads is the whole checkpoint
  its item names, from a target that never mixes two; a launch past its health
  check talks to its own server, unless one was left on its port;
* pipeline: a recorded success was had, by every item and under the config
  named; no stage starts before what it builds on has succeeded;
* accumulator: each awaited future is resolved exactly once, with the reward of
  its own sample; nothing is left behind when no further request arrives;
* training ranks: what one rank of a group refuses none of the group trains, and no
  rank waits for one that has raised, but in the one place where ranks may part; the critic
  shards fit together; what is trained is what was planned and what is reported;
* saver: the checkpoint the tracker names is always complete on disk; what a
  remote manifest lists is in the remote; storage is bounded and the last save
  gets pushed;
* queues and chains: nothing is complete, started or unblocked that no successful job
  backs, whatever stale copy is written back; an export is removed after the last item of its queue;
* domain evaluation: a chain that says complete has analysed what its own checkpoint
  says about one extraction at its own boundary, over one set of prompts;
* sharded extraction: a plan is the selection, cut in order; what is reported complete
  is, if the directory has seen one plan only, what one extractor for the whole selection
  would have written;
* round-trip evaluation: what is scored holds each selected row once, under one protocol;
* the last four: whoever repeats the plain launch gets to the end, or the exact files that
  stand in the way can be named.

`PROJECT.json` lists every hazard at its line, with the properties that guard it.

## 2. The modules

| Module | Content |
|---|---|
| `TrainingOnce` | abstract: one contract per item, one training under it, a verdict only on what that training wrote |
| `RLQueue` | the queue file, workers, operators, training commands, post-evals |
| `MCRLQueue` | two items, the second depends on the first and needs its gate |
| `RLQueueProofs` | theorems about `RLQueue`, and that it implements `TrainingOnce` |
| `InputStaging`, `MCInputStaging`, `InputStagingProofs` | staging into one target and the servers that load it; checkpoints and files for TLC; theorems |
| `ObservatoryPipeline`, `MCObservatoryPipeline`, `ObservatoryPipelineProofs` | queue processes, supervisor and watcher; one instance; theorems |
| `RewardAccumulator`, `MCRewardAccumulator`, `RewardAccumulatorProofs` | the reward batcher, one instance, its theorems |
| `TrainBatch`, `MCTrainBatch` | the batch plan and the ranks' way through one rollout; topologies and rollouts for TLC |
| `CheckpointSaver`, `CheckpointSaverProofs` | saver, threads, push processes and remote; their theorems |
| `QueueHandoff`, `MCQueueHandoff`, `QueueHandoffProofs` | two queues with their loops, the chain, the gate, resets; kinds and a shared export directory for TLC; theorems |
| `DomainEval`, `MCDomainEval` | two chains over shared and own files; versions of the configuration for TLC |
| `ShardedExtraction`, `MCShardedExtraction` | planners, launcher, extractors, merge; a source of six documents and eight launches for TLC |
| `RoundtripGeneration`, `MCRoundtripGeneration` | generation command, workers, files, scoring command |
| `PartitionProofs` | theorems about how rows are divided: among ranks (`TrainBatch`) and among extractors (`ShardedExtraction`) |
| `EvaluationProofs` | theorems about the evaluations (`RoundtripGeneration`, `DomainEval`) |

`DomainEval` and `ShardedExtraction` share no names with the modules they are proved about together with
(`ChainInit`, `ShardInit` are their initial states, and so on), so a proof module EXTENDS both.

### 2.1 RLQueue

`queue` is the YAML file: a revision and one record per item. Every write of
the code stamps a time into the document, so two versions are never equal; the
model gives each write a fresh `rev`. `contract[i]` is the launch contract in
i's run directory, i.e. the whole frozen queue document; `ckpt[i]` are the
evals whose actor checkpoint is on disk; `job[i]` is the training command.
`starts`, `verdict` and `stale` only record history for the properties.

A worker is a process that takes the lock. Its `pc` follows
`process_next_item` (3451-3572) and `run_roundtrip_post_eval` (3301-3448):
`LoadNext`, `Promote`, `Reload`, `Pick`/`Idle`, `Prepare`, `Freeze`, `Launch`,
`TrainEnd`, `Retain`, `EvalRun`/`EvalSkip`, `EvalEnd`. Each `update_item` call
is two steps, `UpdateLoad` (read the file) and `UpdateWrite` or `Finish` (write
the whole changed copy), and other processes may act in between. `StartRetry`
is `--post-eval-only`. `Crash` kills the process; the kernel releases the lock
and the training command either dies with it or runs on (`OrphanEnd`).
`ApproveLoad`/`ApproveWrite` and `ResetLoad`/`ResetWrite` are the operator
commands, which never look at the lock.

With `Racing = FALSE` a command is only given while nobody holds the lock and no other
command is at the file (`Undisturbed`): an assumption on people, not on code. It is used
only for the properties that lost updates break as a matter of course.

Abstracted to "passes or raises": building the run spec, input staging,
preflight, SGLang start-up, evaluation commands, retention. (Staging and the
server are modelled in full in `InputStaging`; here they are parts of `Prepare`
and `Launch`.) The contract hash
covers more than the document, so `Freeze` may also refuse an equal one.

`TrainingOnce` sees an item as the version its contract froze (`Under`), the phase of its training (`Phase`: waiting,
saving, saved, done or short, by the checkpoints that stay after the post-evals) and its verdict. It says what the
counters alone do not: the contract is pinned before the launch and stands from then on, and an evaluation comes to
a verdict only when the one training has written what is evaluated, also when a retry meets a command that
outlived its watcher.

### 2.2 RewardAccumulator

Code between two awaits is one step, because the event loop runs it without
interruption. `Request` is `nla_rm` up to its first await; `Drain` is `_drain`
up to `ray.get`, shared by a full batch and the timer; `TimerFires` is the end
of the sleep, `TimerRuns` what follows it, possibly much later; `Forward` is
`critic_fwd`, which all ranks execute together, each in the order of its own
queue; `Resume` is the rest of `_drain`. `_prep_batch` and the MSE are reduced
to what can go wrong with them: which samples are scorable, and which row of
the critic ends at which sample (`OrigIdx`, `RowsFor`, `score`). A cancelled
timer never gets past its sleep, also when the sleep is over and the task is
only waiting for the loop (asyncio delivers the cancellation instead).

### 2.3 CheckpointSaver

`BeginSave`, `WriteShard`, `Track` and `FinishSave` are one `save_model`; the
middle two are Miles' own save, which is not in this repository: it writes the
shards, then the tracker. `ReadPrev`, `Fire`, `Prune` are the thread `_bg`,
three separate reads of shared state; `Remove` is the `rm -rf` its shell decided
on. `PushList`, `PushFile`, `PushTracker`, `PushManifest` are a
`push_checkpoint --only-latest` process, which reads files that may be removed
under it. `Crash` takes the trainer and its threads; shells and push processes
survive it (`start_new_session`) unless the machine is lost. `Restart` resumes
from the tracker. The model has a backup remote configured
(`NLA_BACKUP_REMOTE`). With none a thread goes straight to its prune; what then
happens to the disk is what the model does when every push ends before
the next thread waits for it, since a push does not write to the local disk.

### 2.4 InputStaging

One target directory, the one SGLang serves from. An item is named by the source
its SGLang serves; if `Shared`, the target is also that of an `input_staging` entry, so a
launch stages it twice, under two marker names, and the training command reads
it; if `Release`, it is pruned after the health check. `tree` maps each file in the target
to the source its content is from, which no code can see: the code sees
`Signature`, a number of files and bytes that is the same for all checkpoints of
one architecture, and the source named in the marker. A process (one per queue
file, as the lock is) steps through `_stage_directory_tree`: `ReadMarker`,
`CountFiles`, `Replace`, then `RemoveFile`, `RemoveMarker` and `RemoveDir` in any
order `rmtree` may take, `Copy` into its private temporary directory, `Publish` (marker
and rename); then through `managed_sglang_service`: `Start`, `PassHealth`,
`ReleaseFile`, `Released`. `Leave` is the end or an exception anywhere, with the
`finally` that terminates the servers; `Kill` has neither. A killed process leaves
its temporary directory behind, whose unique name is never used again, so it
is not part of the state. SGLang itself is external: `Load` file by file, `Bind` its port
when all is loaded, `ServerExit`. With `Orphans = TRUE`, as in the run,
a kill leaves the servers running (a plain `Popen`, which nothing ends); with `FALSE` it takes them along. `rival` is history: when this
server was started, one that outlived its queue process was on the port (`Survivors`).

Sources are immutable; counting and copying a tree are single steps.

### 2.5 ObservatoryPipeline

`runner` has slots for `observatory.queue` processes, each with its own copy of the
state document: `Load` and `Begin`, `Skip` or `RunItem`, `ItemComplete` or
`ItemFailed`, `QueueFailed` or `QueueComplete`; every one but `Load` and `Skip` ends
with a `Write` of the whole copy over the file. Nothing keeps two of them off one
file. `sup` steps through `pipeline_supervisor.main`, `watcher` through
`queue_after_state.run`; both start queues as children and read their exit codes (`Collected`).
`SupervisorKilled` and `WatcherKilled` orphan the child, which runs on. The
preparation writes its report last or dies without it; the download can end at
any time. People start supervisors, watchers, preparations and queues, and edit
the config file, but only while nothing of the pipeline runs: an assumption on
them, made because a queue hashes the config once and its items read the
file again. Item commands that outlive a killed queue process are not modelled,
nor process ids used again.

### 2.6 TrainBatch

A configuration (`Config`) is a queue item reduced to its batch, topology and
`require_*` options; `Refused` and `Plan` are what the queue computes from it before
a launch. A rollout (`batch`) is the rows of each actor rank, the rows whose
explanation could be extracted (`usable`: they carry critic tokens) and the rows on
which the critic's reward and training losses differ (`off`). A row is its index in the
rollout, `total_lengths` being the same in every shard; the comparison of the
fields of the shards is reduced to the rows missing or double (`Covered`),
since the other refusals are decided, like this one, from data every rank sees.

`Hand` is Miles' driver, which is not in the repository. Each actor rank takes
`ActorEnter`, `ActorReduce` (the all_reduce MIN), `ActorTruncate`, `ActorStep`; each critic
rank `CriticBalance` (`_repartition_for_critic`), `CriticAdmit` (the minimum retained
fraction, the report), in the first rollout `CriticForward` and `CriticCompare` (the step-0
check), `CriticSwap`, `CriticReduce`, `CriticTruncate`, `CriticStep`. The actions without a
rank are collectives: they take a whole group at once, when all have entered. A
rank that raises is `failed` and enters no further collective; a critic rank that waits for it is aborted by the
timeout of the collective (`CriticTimeout`; actor ranks never come to that). The rows of a
shard are a set: within a shard the code keeps them in the order of their index, which is what
`Position` counts. `Checks` runs the check in the first rollout, `rollout_id` 0.

### 2.7 QueueHandoff

`First` and `Second` are queues, each worked by the script `kind` names. A loop
(`Hands`, and the `Child` of the chain) takes the lock, loads the file, takes the first pending
item and, in a round-trip queue, passes the launch guard and prepares the export: `TakeLock`,
`Load`/`Idle`, `GuardStops`/`GuardPasses`, `Prepare`, `Converted`, `JobSucceeds`/`JobFails`,
with `UpdateLoad` and `UpdateWrite` for each `update_item`. The two scripts differ as in the code: a
dataset loop keeps the lock from item to item and writes the copy it loaded when it marks an item
running; a round-trip loop frees the lock after each item and, when idle, cleans up without it
(`CleanLoad`, `Remove`, `CleanWrite`). `Poll`, `Launch`, `ChildEnds` are `nano_queue_chain.py`;
`GateLoads`, `GateLoadsTarget`, `GateDecides` are `unblock_when_ready`; `ResetLoads`, `ResetWrites`
the resets. `earned` is history: the gate results of the jobs of an item that succeeded. `Dir` says which queue's export directory
a queue uses: in the run both use one, as two checked-in queues do.

A job is its report, an export is absent, partial (it has a `config.json`) or whole. `reset.stale` is history
too: a reset has written its copy over a file that had changed since it was read. Options
are at their defaults and `cleanup_after_queue` is set, as in the checked-in queues. A killed loop
takes its job along, and items are reset only when no loop of their queue is live: assumptions on
the operating system and on people. At most one gate and one reset are under way.

### 2.8 DomainEval

`disk[c]` is the state file of chain c, `run[c]` its launcher with its own copy, `job[c][k]` the
command of shard k or of the merge. A file holds what it was made from (`Made`): the prompts and
boundary of an extraction, the checkpoint and activations of a description. A report holds what the
code hashes: the file, and the inputs as they are when the report is written, which is a step of its own (`Read`,
`Write`, `WriteReport`). `Owner` says which files the overlay configurations share. `ResumeChain` is the plain
launch, `RestartChain` one with `--no-resume` or `--reuse-through`, whose checks are `ReusableThrough`. `EditConfig` is
another version of the configuration. `Convert` and `CleanUp` take the export through `half`, where
`config.json` is there and the last files are not. `borrowed` is history in the state: it was launched with `--reuse-through` on a manifest of
other prompts than the configured ones, which nothing in the code can tell (`Noted`).

Chains run one after the other and configurations change in between (`MayLaunch`), as
the logbook does it; the code does not enforce it. Commands die with a killed launcher.

### 2.9 ShardedExtraction

`RowPlan` and `DocPlan` are the planners, as functions of a request (`NearestCut` is one step of the second's loop over the devices); `Extracted` is what an extractor writes for a range, a
row's activation being the row and the rows it is batched (padded) with. `file[s][l]` are the three files of a shard and
layer: an unfinished parquet (`Begun`) has no footer, so no rows can be read from it. `Launch` plans and skips what
`IsComplete`; `Start` starts one extractor after the other, `Open`, `Close`, `Side`, `Meta` are an extractor's steps, layer by
layer; `PollFailure`, `PollSuccess`, `Publish`, `RefuseMerge`, `Complete` are the launcher's. `NewRequest` is any launch, into the
same directory; `Relaunch` repeats the last with `--resume --overwrite`. `asked` is history: the plans and batch sizes launched in the
directory.

Launcher and extractors die together (a container); extractors that survive their launcher, another model or source with equal
row counts, and publication provenance are left out. Rows of a document that are not adjacent can occur in `Doc`; the instance has none.

### 2.10 RoundtripGeneration

`parent` is the generation command and, after it, the scoring command; `gen` are the processes that generate: the command itself
(`Merged`) or a worker per shard, of this command (`own`) or of one that was killed (`orphan`). A file holds how many records of each
row and protocol it has, or ends in a line that is cut off (`torn`). A generator takes `Begin` or `BeginRefuses`, `Clear` (`write_text("")`),
`AppendRow` for every kept and every new record, `Finish`. The parent starts group after group (`GroupEnds`, `GenerationFails`), merges
(`MergeReads`, `MergeWrites`: the merged file is rewritten in place) and checks (`Report`, `Score`, `Refuse`). `Resume` is a launch with
`--resume-generated`; one that finds a merged file resumes that alone (`self`), whatever the shards hold. `Anew` is what an operator does after a refusal (`Refused`): one launch
without the flag, which empties the files. `Kill` takes the machine,
`KillParent` the command only, `Fail` a worker.

Scoring in the generating process, other numbers of workers between launches and `--no-stream` are left out; metrics are.

## 3. The runs

| Run | Instance | Shows |
|---|---|---|
| `rl_racing` | 2 items, 2 workers, 1 operator command at any moment, 1 retry, 1 crash | `OneTraining`, `TrainedAtMostOnce`, `RefsResolve`, `FrozenWasRunnable`, and the refinement of `TrainingOnce` |
| `rl_quiet` | the same with 2 post-evals, retention and `Racing = FALSE` | `ActiveHasOwner`, `CompleteIsEarned`, `FailedEvalRetryable`, `PromotionIsSound`, `ReadyIsTaken` (liveness) |
| `staging_launches` | 1 queue, 3 checkpoints with different options, of a config and at most one weight file; 3 launches, 2 kills, servers outlive them | `StagedIsWhole`, `CopiedOnce`, `ServedByOwn` |
| `pipeline` | 2 slots, queues of 2, 1 and 1 items, 2 configs, 2 starts, 1 kill | `SuccessIsEarned`, `StagesAreGated`, `WatcherAnswers` (liveness) |
| `handoff` | 2 queues of 2 items, the first of either kind; one export directory; 2 loops by hand, chain, 1 gate, 1 reset, 1 fault | `HandoffIsEarned`, `CleanUpIsLast`, `ChainAnswers` (liveness) |
| `domain_chains` | 2 chains, 2 shards, 2 versions with other prompts and boundary, 2 launches without plain resume, 1 fault | `CompletedIsOwn`, `ChainFinishes` (liveness) |
| `sharded_extract` | 6 documents of 1, 1, 1, 1, 3 and 4 rows, 8 requests, 1 layer, 3 launches, 1 fault | `PlanIsWhole`, `CompletedIsSelection`, `RelaunchCompletes` (liveness) |
| `generation` | 3 rows, 3 workers in groups of 2, 2 protocols, 1 launch without resume, 2 faults | `ScoredIsWhole`, `ResumeFinishes` (liveness) |
| `reward_batching` | 4 requests (one of 2 samples), batch size 3, 2 ranks | `PendingIsGuarded`, `TimerIsCurrent`, `WaiterIsHeld`, `OwnReward`, `EveryReward` (liveness) |
| `train_batch` | 8 configurations of 1 to 3 actor and 1 or 2 critic ranks, 3 to 7 rows, 2 rollouts; any set of rows may diverge | `RefusalsAreShared`, `ShardsAgree`, `PlanIsKept`, `ReportIsTrue`, `RolloutEnds` (liveness) |
| `saver_keep_two` | 3 saves, 2 kept, 1 crash | `LatestIsKept`, `ManifestIsBacked`, `StorageBounded`, `LastIsPushed` (liveness) |
| `saver_keep_one` | 2 saves, 1 kept, no crash | violation of `LatestIsKept` |

The runs leave out the type invariants: `TypeOK` (`ChainTypeOK`, `ShardTypeOK`) is a theorem of every module, or part of
its inductive invariant; adding `INVARIANT TypeOK` to a cfg checks it.

Why these bounds are enough for the interesting cases:

* Two items with a dependency give promotion, skipping of an unapproved or
  failed head of the queue, and two candidates for the GPUs; two workers give
  contention for the lock and a takeover after a kill. One operator command
  is one lost update; `StopOnFailure`, the gate requirement and the second
  eval's dependence on the first are all exercised in one of the runs.
* Staging: of the three checkpoints two have equal signatures, so every check by
  count and bytes is fooled once; two kills allow one during a removal and one
  during the launch that repairs it, or one that leaves a server on the port and one beside it. One weight
  file next to a config is enough for a tree that is partly there, released or not.
* Pipeline: the first queue has two items, so a process can be killed with one done;
  two slots and two starts give a hand-started queue racing the supervisor's,
  a second supervisor after a kill and an edit, or a supervisor with a watcher.
  Larger combinations are left to the theorems, which bound nothing.
* With five samples and batches of three, a full batch can cancel a timer that
  is asleep or due, two drains can be at the critic at once, and one to three
  samples can be left for the tail timer; any subset may lack an explanation.
* Training ranks: 6 rows for 3 actors and 2 critics is the topology whose whole-shard
  dealing the repartition replaced; 7 rows in microbatches of 2 make shards of 4 and 3;
  3 rows leave a rank with none. Rows are split in turn, in blocks, with one missing and
  with one double, and every subset may be usable. The check's limits of 4 and 32 rows
  are 2 and 3 here (`CheckLeast`, `CheckMost`), so that shards fall below, between and on them.
  Every set of rows may diverge: none, all, and single rows that only one rank sees.
* Handoff: two items give a first that is generated only and a second with a gate the chain and `nano_queue_gate.py`
  go by; two loops by hand and the child give contention for either lock, a takeover, and an idle loop whose clean-up meets the
  next loop's preparation. One gate and one reset give each of them one stale copy.
  With one export directory for both queues a clean-up can meet a loop of either.
* Domain evaluation: the launch with `--reuse-through` after an edit, while the other chain has completed on the earlier
  extraction, takes two such launches and two versions, which differ in prompts and boundary; two shards give a half-failed wave.
* Sharded extraction: with documents of 3 and 4 rows the even split falls inside one, is nearer to its beginning or end, or ties; three
  devices exceed the batches of one request; the request for the last 4 rows leaves a shard whose count fits the first range of the whole.
  Three launches in one directory are a first, another killed between parquet and sidecar, and a resume of the first; one layer, as in every checked-in
  configuration, is the case in which only one sidecar can tell.
* Generation: groups of two and of one; two faults are, for instance, a parent killed alone and then a worker of it or the machine.
* Three saves with two kept is the smallest instance in which something is
  pruned while a later save is in progress and a thread waits for an earlier push.

`CHECK_DEADLOCK FALSE` is set where the system ends (staging never does, as a queue
may always begin another item): queue processes exit and their bounded commands run out, the requests of a rollout,
the rollouts and the saves of a run are finite, and ranks that raise stop.

**Fairness.** Queue: a started process keeps running and the commands it waits
for end (`WF` of `Work(p)` and of an operator's write); nobody has to start a
process, retry or act as an operator, and checkpoints need not be written (a
training command may fail). Accumulator: the sleep ends, the loop runs what is
ready, the critic answers or fails (an NCCL timeout is an answer); nobody has to send
a request. Pipeline: started processes and the commands they wait for run on
and end, one way or the other; nobody has to start or repair anything, and a
supervisor may be killed or die of an exception, after which its state file is
the last word (`NoVerdict`). Handoff: loops and the chain run on; nobody has to start a loop by hand, reset or run the
gate. Domain evaluation, extraction and generation: launchers and commands run on, and the operator repeats the plain
launch (`Resume`, `Relaunch`) of what has not completed; for the two chains, which take turns, this is strong fairness. In generation
the operator also launches once without the flag when a file is refused, at the latest when it is refused again and again (`SF` of `Anew`). These are the premises of
"resumes to the end", not claims about the code; faults are bounded, since nothing ends if every launch is killed. Training ranks: each is a process, and a
collective returns once its whole group has entered; of one that a raised rank will never enter, the timeout aborts the wait (`CriticTimeout`). Saver: threads, prune shells and push processes are scheduled by the
operating system; the trainer itself may stop at any point, so both liveness
properties start when the last save has started its thread and are void when
the trainer dies.

## 4. Findings

1. **`NLA_KEEP_LOCAL=1` can delete the only complete checkpoint** (`saver_keep_one`).
   The prune counts directories, complete or not. If the thread of save N lists
   after save N+1 has created its directory (it waits for the previous push
   first), `iter_N` goes while the tracker names it;
   `docs/runai_miles_fsdp2_integration.md:639-643` describes the setting as keeping
   the latest completed checkpoint. With 2 or more this cannot happen: that is the
   theorem `LatestSurvives`.

The models show more behaviour at odds with a comment or a document. It is in the runs as behaviour that no property
forbids, or comes out with the constants named:

* *The pushed tracker may name an iteration that was not pushed.* A save that completes during an upload changes the tracker
  file, which is copied last; the manifest, meant to make the upload atomic (`push_checkpoint.py:5-7`), then certifies an
  unusable restore (`CheckpointSaver`, two saves, two kept).
* *Staged weights can be released before they are loaded.* "Healthy" means that some server answers the URL. A server left
  by a killed queue process answers for the new one while that is still loading, and the release removes its shards;
  `docs/rl_logbook.md:1696` and 1705-1706 make the loaded checkpoint the premise of the release. The run has the case (`Orphans = TRUE`);
  `ServedByOwn` says that a survivor on the port at launch is the only way to it, and `OwnServerAnswers` proves it.
* *The step-0 check does not fire everywhere.* Its comment (`train_actor.py:1297-1300`) has all ranks run it so that no rank is left in
  a collective, but the assertion is over the rank's own rows (350-361). If single rows exceed the tolerance, the ranks without
  such a row go on to the all_reduce of `_truncate_to_cross_rank_min` and wait there for one that has raised, until the timeout of the
  collective. The run has the case; `RefusalsAreShared` (theorem `RefusalsShared`) says that it is the only place where ranks part and that
  none of them trains on the rollout, `RolloutEnds` that the timeout is the end of it.
* *Two queues with one `output_hf_dir`.* The clean-up of the first, after its lock, may remove what a loop of the second has just prepared.
  Two checked-in queues of `configs/nano_roundtrip/publication`, `r33_online_joint_actor_hpo_dev_baseline_queue.yaml` and its `_v2_`, name
  one directory (line 25) and clean it up (line 29). The run has the case (`SharedDirs`). `CleanUpIsLast` (theorem `CleanUpComesLast`) is about the queue
  that cleans up: every item of it has had a job that succeeded, and no loop of it has an item in hand; it says nothing of the other queue.
* *A slow reset can revive an item whose export is being removed.* `--reset-active` writes back the whole copy it read. With three loops by
  hand an idle loop can be about to remove the export of a queue that its copy shows complete, while the reset makes an item
  pending again and another loop prepares for it. The second part of `CleanUpIsLast` therefore speaks of histories in which no reset overwrote a newer file.
* *`--reuse-through` cannot tell two sets of prompts apart.* A manifest is compared with its own report only; the boundary is compared with the
  configuration. A chain launched so on a manifest of other prompts completes with descriptions of those prompts, or, when the manifest is built anew by another
  chain, with descriptions of one set and decisions of another. The run has both (two versions of the prompts); `CompletedIsOwn`
  (theorem `CompletedChainsOwn`) says that every other chain has its own prompts throughout (`borrowed`), and that within the
  descriptions, and within the decisions, the prompts are never mixed.
* *A shard of an overwriting launch that was killed between its parquet and its sidecar* keeps the sidecar of the launch before; with equal row
  counts a resume takes it, and the completed extraction has other rows than it was asked for. The run has the case (one layer, three launches). A launch of
  two layers leaves the second unreadable and is redone. Likewise a resume for another batch size takes a shard whose range is the same. `CompletedIsSelection`
  (theorem `CompletedSelections`) therefore promises the rows where all launches of the directory had one plan and batch size, or two layers tell
  the plans apart (`Told`), and only their number, sidecar and metadata otherwise. Row ranges of a source whose documents are not contiguous come out in the order
  of documents, which the theorem excludes by its hypothesis.
* *Files that every resume refuses.* A kill between `write_text("")` and the first record (the model is loaded in between) leaves a file
  without records, for which `validate_generated_record_protocols` raises; one in the middle of a line leaves a file that is not JSON lines.
  `docs/experiment_logbook.md:3486-3488` has incomplete records ignored. Resuming alone never gets past such a file; `ResumeFinishes` is about an operator who, refused,
  launches once without the flag (`Anew`), which costs the records of the other workers. `Unprepared` of `DomainEval` (a checkpoint lost
  with `/dev/shm`, or with `config.json` and without its last files) and `Foreign` of `ShardedExtraction` (a shard of the planned size from elsewhere,
  which resume takes and every merge refuses) are the like; there repeating the plain launch never helps, and `ChainFinishes` and `RelaunchCompletes` except exactly them.

## 5. Theorems

All for arbitrary constants, subject to the named assumptions of each module
(well-formed configuration, positive sizes and bounds, distinct model values).

**RLQueueProofs.** `Invariance` proves the inductive invariant
`IInv == TypeOK /\ CurInv /\ LockInv /\ VersionInv /\ JobInv /\ RefsResolve /\ FrozenInv`. `TrainedAtMostOnce`
is far from inductive alone: a second launch needs `Freeze` to accept the old
contract, so one has to know that it never does. `VersionInv` says it: the
contract of a launched item is strictly older than the queue file, because the
launch is preceded by a write (`mark`) that gives the file a fresh `rev`; the copy a
worker picks an item from is younger than every launched contract
(`WorkerInv`), so `ContractFits` fails for a launched item; and a worker between
`Freeze` and `Launch` has an item that was never trained. `CurInv` says that a
worker inside an item has one, `LockInv` that exactly the lock's holder is at
work (two workers cannot both be about to launch), `JobInv` that a running
command is awaited by a worker or was orphaned by a kill. `FrozenInv` adds that a worker keeps the copy it picked
from until it has frozen it; `RefsResolve` is inductive, as it speaks of every copy, not only of the file.
Theorems: `TypeCorrect`, `TrainingIsExclusive` (`OneTraining`),
`LaunchedOnce` (`TrainedAtMostOnce`), `ReferencesResolve`, `FrozenRunnable`, and `Refinement`: every step of the queue is
a `Freeze`, `Start`, `AllSaved`, `End` or `Judge` of `TrainingOnce`, or a stutter (`PhaseStep`). For that one has to know, besides
`IInv`, that checkpoints come from a training, that one that ended well left those that stay, and that so did the training of every item
that is being judged (`SavedInv`); no evaluation removes them (`Kept`).

What lost updates break holds without them (`~Racing`). `QuietInvariance` proves `QuietInv`: `IInv`, `CopyInv` (every copy that is
going to be written back is the file; hence `Alone`, one process at the file), `OwnerInv` (an active item has a worker or
is in `stale`, where a crash left it), `ItemInv` (status, reference, gate and verdict of an item agree with what happened to it) and
`WorkInv` (what a worker between picking and finishing knows of its item). From it `ActiveOwned`, `CompletionsEarned` and the action
property `PromotionsSound`. `FailedEvalsRetryable` needs `EvalInv` on top, and that only the last post-eval removes its
checkpoint (`CleanupEvals \subseteq {Evals}`), as the checked-in configurations have it.

**RewardAccumulatorProofs.** `AccumulatorInvariance` proves the conjunction of
the four safety properties with the typing and three strengthenings: `TaskInv`
(a request has started nothing before its samples are appended, so its drain's
place is free), `CallInv` (the calls queued at a rank belong to different drains
that wait for them, and carry their prompts) and `RowInv` (a detached batch
has its `orig_idx`, and what comes back are the rows of its prompts). The lemmas `OrigFacts` and `OwnRows` show that
handing row k to `orig_idx[k]` gives a sample its own score and nothing else.
`Drain` is proved once (`DrainStep`) for both of its callers.

**CheckpointSaverProofs.** `LatestSurvives` (for `Keep >= 2`) rests on
`AheadInv`: directories and the trainer are at most one save ahead of the
tracker, hence a listing that drops all but two names only older ones
(`PrunedIsOlder`, by cardinality), and what a shell removes stays older as
the tracker only grows. `ManifestIsHonest` rests on `PushInv`: what a push no
longer has left of its list is in the remote. `SaverTypes` is the typing.

**InputStagingProofs.** `Typing` and `TargetUnmixed` (`TreeIsOne`) hold for any
number of queues: each publishes a directory copied in private. The others assume one
queue (`OneQueue`), and `Apart`: no item with both `Shared` and `Release`. `OneInv` ties the
target to the one process that changes it, `StagedInv` says what each step knows of it (after
`CountFiles` a fitting marker and an equal signature mean the whole tree, by cardinality, as
what is missing from a tree of the marker's source would change the count:
`SameSignature`), `ServingInv` what the servers have loaded: a server that is not this launch's own is gone or
has outlived its process, and if none of those was on the port at launch (`Sole`) none comes later. From these follow
`WholeTreeServed`, `CopiedOncePerLaunch` and `OwnServerAnswers`, whether or not servers outlive a killed process.

**ObservatoryPipelineProofs.** `PipelineInvariance` proves `IInv == TypeOK /\ FileInv
/\ RunnerInv /\ ChildInv /\ GateInv`. The state file alone says too little, as a
process that holds an old copy may rewrite it at any time: `RunnerInv` says of every
copy, too, that its completions were earned (`DocEarned`), and of its process that the
items passed so far were earned under the present config. `ChildInv` says
that the supervisor has at most one child, of the queue it is at, so
the exit code it acts on is of that queue; `GateInv` carries the successes to the
later stages. `OwnStep` and `WriteInv` are proved once for all steps of a queue process.
From it: `SuccessWasEarned` and `GatesHold`.

**PartitionProofs**, first half (`TrainBatch`). The base are lemmas about parts of a finite set of rows, by
bijections (`CountBy`): `Position` numbers the rows (`PositionIsOnto`), `First(n, S)` has n rows
(`FirstCount`), and dealing m times c rows in turn gives each of c ranks m (`DealtCount`) and leaves
none over (`DealtToAll`). With `AlignedShare` (what is aligned to ranks times microbatch is,
per rank, aligned to the microbatch) they give `LocalShape`: the size of a rank's shard, and
that neither the swap nor the truncation takes anything from it. `CriticInv` says of every rank that it holds exactly
`Local(config, batch, k)` or has raised over what all ranks see or in the first rollout's check (`Fine`), and that when one has left the
forwards of the step-0 check none is still before them. `ActorInv`: past the reduction all have the same minimum. Hence
`CriticShardsAgree` and `ReportsAreTrue`. `ShareInv` adds that the critic ranks are all past the reduction or none is, and that one that
failed a rollout which all admit did so at the step-0 check or waiting for one that did (`Parts`): hence `RefusalsShared`, for any rows that diverge on any rank.
`TypesAreKept` is the typing. `PlansAreKept` adds up the shards of all actor ranks: dealt in turn, the rows of
ranks 0 to k - 1 are those numbered below a bound (`HeadsTotal`), so no induction over sums is needed; that dealing to the data-parallel
groups and then to the microbatches drops no more than the plan says is `CutTwice` and `CoarserRemainder`.

**PartitionProofs**, second half (`ShardedExtraction`), three layers. *The plan.* `PlansAreWhole`: each of the two planners
returns `Between(n, edge)` for increasing `edge` from the first row to the last (`RowPlanShape`, `DocPlanShape`). The heart is
`RangesShape`: a cut that leaves `(n - k - 1) * b + 1` documents leaves the next step a candidate, so `NearestCut` never has to give up;
`cut` is a recursive function, about which one argues by its least counterexample (`Minimum`).
*The contents.* The group of a row is the number of ends of documents before it (`GroupShape`), counted by `Position` as above; between
two ends the groups are shifted by a constant, and after a whole number of batches so are the batches (`EndsAdd`, `DivShift`,
`BatchesKept`): a row's activation in its range is its activation in the whole selection. `FlattenCut`: the pieces of a sequence, joined, are the sequence.
Both give `JoinedShape`: what the planned ranges contain, joined, is the selection in order and, with `document_batch`, what one extractor would have made.
*The launches.* `CompletedIsSelection` alone says nothing of the shards, which is where it is decided. `ShardInv` says what whoever finds
files may conclude: `Settled` (a shard all of whose parquet files are readable holds one range in all layers, and the sidecars of
all but the last layer say which, whatever launch that was and wherever it was killed), `ExtractorOK` (how far an extractor is), `LaunchInv` (a shard
that is neither to be started nor worked on was found complete, hence `Prepared`: it holds some range of the planned size), `MergeInv`
(once the sidecars of the first layer have been compared, all layers are known to hold the plan's range: `FirstLayerTells`, which is where
`Told` is needed: one plan, or two layers and one batch size) and `DoneInv`. From it `CompletedSelections`, for any source with contiguous documents, any requests, launches and kills.
`ShardingTypes` is the typing.

**QueueHandoffProofs.** `CopiesAreBacked` proves `IInv`: `TypeOK`, and that not only the files but every copy of one held by a
loop (`LoopsOK`), the gate (`GateOK`) or a reset (`ResetOK`), and what a loop is about to write into it (`Backed`), claims nothing
that is not in `earned`. `HandoffIsEarned` alone is not inductive, since a loop, a gate or a reset may write back
a copy it read long ago; but `earned` only grows, so a copy that was backed stays backed (`Grow`). From it: `HandoffsAreEarned`, for any number of
loops, items, faults, resets and gate calls, and any sharing of export directories.
`CleanUpComesLast` follows from `CopiesAreFresh`: a loop that holds its queue's lock has it to itself (`Exclusive`), and until a reset
overwrites a newer file (`reset.stale`) no copy that is going to be written undoes a success or the gate's unblocking (`LoopFresh`, `GateFresh`);
so a queue a clean-up saw complete is still complete when the export goes, and no loop of it has an item in hand. That every item of it
had a job that succeeded follows from `CopiesAreBacked` alone.

**EvaluationProofs.** *Round trip.* `GenerationInvariance` proves `IInv`: types, `ScoredOK` and, until a generator has outlived its parent
(`alone`), `Sound`: what a file holds and what its generator still has to append are together the rows of its worker, once, under one
protocol (`AppendOK`); generators only run for a parent that waits for their group; and what was read to be merged is
the rows of all workers, which divide the selection (`RowsPartition`, `JoinedIsWhole`). Hence `ScoredFilesWhole`, for any rows, workers and group
size, and `OneGenerationAtATime`. *Domain.* `DomainInvariance` proves `DomainInv`: at most one chain has a launcher, and for each chain what its state
file (`DiskOK`), its launcher (`RunOK`), its commands (`JobsOK`) and the reports (`ReportOK`) claim holds of the files, where a claim under
an earlier configuration claims nothing. What is claimed of a file (`Stands`) has two parts: that it holds together (`Holds`: one boundary, the chain's own checkpoint, prompts
that are not mixed), and, unless the state is borrowed, that it is of the configured prompts, as the manifest then is (`OwnCases`). The second does not follow from the reports
alone, which a reuse goes by: a report tells the inputs of a file (`ReportOK`), and it is the present manifest, to which a reuse traces them, that has the configured
prompts or makes the state borrowed. From it `CompletedChainsOwn` and `DomainTypes`, without an assumption on prompts or boundaries.

**Model-checked only.** Liveness (`ReadyIsTaken`, `EveryReward`, `WatcherAnswers`, `ChainAnswers`, `ChainFinishes`, `ResumeFinishes`,
`RelaunchCompletes`, `StorageBounded`, `LastIsPushed`, `RolloutEnds`): out of the prover's reach, as they rest on fairness. Every safety invariant
and every other action property of a passing run is a theorem.

## 6. Assumptions and limits

* A write of the queue file is atomic. The code replaces it through one shared
  `.tmp` name; two writers inside that window are not modelled.
* Run directories of different items are distinct (`validate_queue` checks names).
* Staging: entries of `input_staging` with targets of their own, the reports, services
  without a health URL and `terminate_on_exit: false` are left out. `Shared` with
  `Release` would prune what the trainer reads; the check at
  `nano_rl_queue.py:3142` does not refuse it, no config of the repository has it.
  A source rewritten in place with equal sizes is reused as it was (2925).
* Pipeline: see 2.5; a report is passed or failed, and of the staged checkpoints
  only that they may be incomplete (`CriticsFail`). The supervisor compares nothing in
  the report with this run, so the report of an earlier preparation counts when the
  last one died; the model has this behaviour, no property is about it.
* Orphaned SGLang servers (in `RLQueue`), hand-edited queue files, `--dry-run` and `--status` are
  left out of `RLQueue`; statuses only a person types are inert in the code.
* An approval is read when a worker loads the queue (3453); a `--disarm` during staging or
  freezing is recorded and does not stop the launch. With `cleanup_actor_checkpoint` a second
  `--post-eval-only` finds the checkpoint removed and records a failure (3660-3662). `RLQueue` has both
  behaviours; no property is about them.
* Training ranks: the Megatron actor calls the same functions and is not a second model; the
  cap on SFT tokens and the actor's packed check are left out. A
  global batch unlike the rollout only warns unless `require_*` says otherwise, so `PlanIsKept`
  speaks of equal ones.
* Ray delivers one caller's calls to an actor in order; a caller of `nla_rm` that
  is cancelled itself is not modelled, nor is `_lazy_init`.
* `gs://` uploads (a single `gsutil` command), Megatron's asynchronous save and the frozen
  critic's marker directory are left out of `CheckpointSaver`.
* Handoff: a gate, a reset or an idle loop's clean-up may put back a status that was changed since it read the file; a
  completed item is then run again. The model has this; `HandoffIsEarned` speaks of what is claimed, not of what is lost. An exception
  during the preparation leaves the item pending and the loop dead, a kill leaves it running: `Stranded`, for which a chain waits
  without end. `--require-gate-pass` without `--prerequisite-item` gives up on a queue with a generation-only item.
* The four newer modules leave out what sections 2.7 to 2.10 name.

### Not modelled

Much of the repository is numerics: models, injection, losses, metrics, bootstrap statistics, gate summaries, plots. Their
correctness is a question of floating-point values, not of states. The dashboard shows finished reports. The dataset
pipelines, the release bundle and the analysis scripts transform files in one process. The rollout data source is rolled
back by Miles' offsets, and what Miles aborts, and when, is outside the repository. `run_model_batches.py` is one process per file whose
resume is that of round-trip generation. `nano_ar_hpo_queue.py`, `nano_av_probe_queue.py` and `nano_ar_layer_sweep.py` repeat the
item lifecycle of the dataset queue with other commands. Retention and `prepare_runtime.py` are planned.

## 7. Plan

Modelled so far, most important first: the queue that decides what is trained, the staging and servers it runs on, the batcher
that rewards it, the saver it is resumed from; the observatory pipeline and the ranks that train; the queues, chains and gates around
them, and the evaluations and extractions those run. Next, in order:

1. Proofs: the safety properties are done. Left is the second part of `CleanUpIsLast` past a stale reset, for queues with one loop.
2. `RuntimePrepare`: `prepare_runtime.py` (263-409), staging verified before it
   replaces, under `_ExclusiveLock`, which unlinks its file after unlocking it: with
   three processes two can hold it. Two processes are exclusive.
3. Extractors that outlive their launcher, in `ShardedExtraction`; chains that run at once, in `DomainEval`.
4. `RetentionPlan`: `nano_checkpoint_retention.py` (59-145) as a pure function, with
   a kill between deletions; `DataSource`: draw, roll back, epoch wrap, save and load.
5. Refinements: an abstract resumable job (nothing claimed before it is made, relaunch completes) that `ShardedExtraction`,
   `DomainEval` and `RoundtripGeneration` implement; `RLQueue`'s `Prepare` and `Launch` to an abstract staging that `InputStaging` implements.
