------------------------------- MODULE RLQueue -------------------------------
(***************************************************************************)
(* scripts/nano_rl_queue.py: one queue YAML file, the processes that run    *)
(* its items under the file lock (a watcher, or a --post-eval-only retry),  *)
(* and the operator commands that rewrite the same file without the lock    *)
(* (--arm, --disarm, --reset-active).                                       *)
(*                                                                          *)
(* Every update of the file is two steps, as in the code: load_queue, then  *)
(* a change of the loaded copy and write_queue of the WHOLE document.  A    *)
(* write gives the document a fresh `rev`: each write of the code stamps a  *)
(* time into it, so no two versions are equal.                              *)
(***************************************************************************)
EXTENDS Naturals, Sequences, FiniteSets

CONSTANTS
    N,              \* number of queue items
    Dep,            \* Dep[i]: the item depends_on.item of i, or 0
    NeedGate,       \* items whose depends_on.require_gate_pass is set
    Evals,          \* number of post_eval.roundtrip specs of an item
    NeedsPrevious,  \* evals with require_previous_gate_pass
    CleanupEvals,   \* evals with cleanup_actor_checkpoint
    Retention,      \* checkpoint_retention.enabled
    StopOnFailure,  \* no --continue-on-failure
    StopWhenIdle,   \* --run-until-empty
    Workers,        \* processes that take the queue lock
    Operators,      \* processes that rewrite the queue without it
    Free,           \* the lock is not held
    Racing,         \* operator commands may run while the lock is held
    MaxOps, MaxRetries, MaxCrashes  \* bounds on operator commands, retries, crashes

Items == 1..N
EvalIds == 1..Evals

ASSUME NAssumption == N \in Nat /\ N > 0
ASSUME ConfigAssumption ==
    /\ Dep \in [Items -> 0..N]
    /\ \A i \in Items : Dep[i] # i            \* validate_queue refuses a self-dependency
    /\ NeedGate \subseteq Items
    /\ Evals \in Nat
    /\ NeedsPrevious \subseteq EvalIds
    /\ CleanupEvals \subseteq EvalIds
    /\ Retention \in BOOLEAN /\ StopOnFailure \in BOOLEAN
    /\ StopWhenIdle \in BOOLEAN /\ Racing \in BOOLEAN
ASSUME ProcessAssumption == Free \notin Workers
ASSUME BoundAssumption == MaxOps \in Nat /\ MaxRetries \in Nat /\ MaxCrashes \in Nat

-----------------------------------------------------------------------------
(* Documents *)

ActiveStatuses == {"training", "eval_running"}

\* The statuses the program itself writes or acts upon; "cancelled" and
\* "blocked_missing_dataset" are only ever typed in by hand and are inert.
Statuses == ActiveStatuses \cup {"pending", "blocked", "complete", "failed"}

\* One entry of the queue.  `ref` is the recorded launch_contract (the rev of
\* the frozen document, 0 for none); `post` is post_eval_status; `gate` is
\* gate_passed.
Item == [status : Statuses, approved : BOOLEAN, ref : Nat,
         post : {"none", "running", "complete", "failed"},
         gate : {"none", "pass", "fail"}]

FreshItem(s, a) ==
    [status |-> s, approved |-> a, ref |-> 0, post |-> "none", gate |-> "none"]

Doc == [rev : Nat, items : [Items -> Item]]

\* "No document": nothing loaded, or no contract in the run directory.
NoDoc == [rev |-> 0, items |-> [i \in Items |-> FreshItem("blocked", FALSE)]]

Active(d) == {i \in Items : d.items[i].status \in ActiveStatuses}

\* Faulty variant: stop looking at the first pending item that is not approved.
BugRunnableHeadOfLine(d) ==
    {i \in Items : /\ d.items[i].status = "pending" /\ d.items[i].approved
                   /\ \A j \in 1..(i - 1) : d.items[j].status # "pending"}

(* Indices next_pending_index may return: pending and launch-approved. *)
Runnable(d) == {i \in Items : d.items[i].status = "pending" /\ d.items[i].approved}

(* next_pending_index: the first such item, if any. *)
NextPending(d) == {i \in Runnable(d) : \A j \in Runnable(d) : i <= j}

\* Faulty variant: promotion that forgets require_gate_pass.
BugPromotable(d) ==
    {i \in Items : /\ d.items[i].status = "blocked"
                   /\ Dep[i] # 0
                   /\ d.items[Dep[i]].status = "complete"
                   /\ d.items[i].approved}

(* The items promote_ready_blocked_items turns pending. *)
Promotable(d) ==
    {i \in Items : /\ d.items[i].status = "blocked"
                   /\ Dep[i] # 0
                   /\ d.items[Dep[i]].status = "complete"
                   /\ i \in NeedGate => d.items[Dep[i]].gate = "pass"
                   /\ d.items[i].approved}

WithStatus(d, S, s) ==
    [d EXCEPT !.items = [i \in Items |->
        IF i \in S THEN [d.items[i] EXCEPT !.status = s] ELSE d.items[i]]]

WithApproval(d, i, a) == [d EXCEPT !.items[i].approved = a]

Promoted(d) == WithStatus(d, Promotable(d), "pending")

-----------------------------------------------------------------------------
VARIABLES
    queue,      \* the queue file
    contract,   \* contract[i]: the document frozen in i's run directory, or NoDoc
    ckpt,       \* ckpt[i]: the evals of i whose actor checkpoint is on disk
    job,        \* job[i]: i's training command: not running, saving, or all saved
    starts,     \* starts[i]: training commands launched for i so far
    verdict,    \* verdict[i]: outcome of i's last finished post-eval
    stale,      \* active items whose process died and that nobody wrote since
    lock,       \* holder of the flock on <queue>.lock, or Free
    pc, mode,   \* per worker: where it is, and the command it was started with
    upd,        \* per worker: the update_item call in progress
    cur,        \* per worker: the item being processed, or 0
    mem,        \* per worker: the document in memory, or NoDoc
    results,    \* per worker: results of the post-evals run so far
    op,         \* per operator: its command and its loaded document
    left        \* what remains of each bound

files == <<queue, contract, ckpt, job>>
ghosts == <<starts, verdict, stale>>
procs == <<lock, pc, mode, upd, cur, mem, results>>
vars == <<queue, contract, ckpt, job, starts, verdict, stale,
          lock, pc, mode, upd, cur, mem, results, op, left>>

Updates == {"mark", "keep", "eval", "gate", "done", "efail", "fail", "retry"}
Steps == {"off", "top", "promote", "reload", "pick", "prepare", "freeze",
          "load", "write", "service", "train", "retain", "eval"}

OpState == [cmd : {"off", "arm", "disarm", "reset"}, item : 0..N, mem : Doc]
Budget == [ops : Nat, retries : Nat, crashes : Nat]
OpOff == [cmd |-> "off", item |-> 0, mem |-> NoDoc]

\* Every document the program holds: the file, the loaded copies, the frozen ones.
Docs == {queue} \cup {mem[p] : p \in Workers} \cup {contract[i] : i \in Items}
        \cup {op[o].mem : o \in Operators}

TypeOK ==
    /\ queue \in Doc /\ queue.rev > 0
    /\ contract \in [Items -> Doc]
    /\ ckpt \in [Items -> SUBSET EvalIds]
    /\ job \in [Items -> {"none", "saving", "saved"}]
    /\ starts \in [Items -> Nat]
    /\ verdict \in [Items -> {"none", "pass", "fail"}]
    /\ stale \in SUBSET Items
    /\ lock \in Workers \cup {Free}
    /\ pc \in [Workers -> Steps]
    /\ mode \in [Workers -> {"none", "watch", "once", "retry"}]
    /\ upd \in [Workers -> Updates \cup {"none"}]
    /\ cur \in [Workers -> 0..N]
    /\ mem \in [Workers -> Doc]
    /\ results \in [Workers -> Seq({"pass", "fail", "skip"})]
    /\ op \in [Operators -> OpState]
    /\ left \in Budget

Init ==
    /\ \E s \in [Items -> {"pending", "blocked"}], a \in [Items -> BOOLEAN] :
          queue = [rev |-> 1, items |-> [i \in Items |-> FreshItem(s[i], a[i])]]
    /\ contract = [i \in Items |-> NoDoc]
    /\ ckpt = [i \in Items |-> {}]
    /\ job = [i \in Items |-> "none"]
    /\ starts = [i \in Items |-> 0]
    /\ verdict = [i \in Items |-> "none"]
    /\ stale = {}
    /\ lock = Free
    /\ pc = [p \in Workers |-> "off"]
    /\ mode = [p \in Workers |-> "none"]
    /\ upd = [p \in Workers |-> "none"]
    /\ cur = [p \in Workers |-> 0]
    /\ mem = [p \in Workers |-> NoDoc]
    /\ results = [p \in Workers |-> <<>>]
    /\ op = [o \in Operators |-> OpOff]
    /\ left = [ops |-> MaxOps, retries |-> MaxRetries, crashes |-> MaxCrashes]

-----------------------------------------------------------------------------
(* Control of a worker *)

\* write_queue of a changed copy: the whole document, with a version of its own.
Written(d) == [d EXCEPT !.rev = queue.rev + 1]

Goto(p, step, u) == /\ pc' = [pc EXCEPT ![p] = step]
                    /\ upd' = [upd EXCEPT ![p] = u]

\* Begin update_item(...) number u of worker p.
Call(p, u) == Goto(p, "load", u)

\* The process ends: kernel or context manager releases the flock.
Stop(p) ==
    /\ lock' = Free
    /\ pc' = [pc EXCEPT ![p] = "off"]
    /\ mode' = [mode EXCEPT ![p] = "none"]
    /\ upd' = [upd EXCEPT ![p] = "none"]
    /\ cur' = [cur EXCEPT ![p] = 0]
    /\ mem' = [mem EXCEPT ![p] = NoDoc]
    /\ results' = [results EXCEPT ![p] = <<>>]

\* The environment: operators start a command when nothing else is at the queue,
\* and nobody starts a worker meanwhile; with Racing they do not look.
Undisturbed == Racing \/ (lock = Free /\ \A o \in Operators : op[o].cmd = "off")

\* Faulty variant: a lock that a second process may take over.
BugTakeLock(p) == lock' = p

TakeLock(p) == lock = Free /\ lock' = p

StartWatcher(p, m) ==
    /\ pc[p] = "off" /\ Undisturbed
    /\ TakeLock(p)
    /\ Goto(p, "top", "none")
    /\ mode' = [mode EXCEPT ![p] = m]
    /\ UNCHANGED <<files, ghosts, cur, mem, results, op, left>>

(* process_next_item: load, and promote if something is ready. *)
LoadNext(p) ==
    /\ pc[p] = "top"
    /\ mem' = [mem EXCEPT ![p] = queue]
    /\ Goto(p, IF Promotable(queue) # {} THEN "promote" ELSE "pick", "none")
    /\ UNCHANGED <<files, ghosts, lock, mode, cur, results, op, left>>

Promote(p) ==
    /\ pc[p] = "promote"
    /\ queue' = Written(Promoted(mem[p]))
    /\ mem' = [mem EXCEPT ![p] = NoDoc]
    /\ Goto(p, "reload", "none")
    /\ UNCHANGED <<contract, ckpt, job, ghosts, lock, mode, cur, results, op, left>>

Reload(p) ==
    /\ pc[p] = "reload"
    /\ mem' = [mem EXCEPT ![p] = queue]
    /\ Goto(p, "pick", "none")
    /\ UNCHANGED <<files, ghosts, lock, mode, cur, results, op, left>>

Pick(p) ==
    /\ pc[p] = "pick"
    /\ \E i \in NextPending(mem[p]) : cur' = [cur EXCEPT ![p] = i]
    /\ Goto(p, "prepare", "none")
    /\ UNCHANGED <<files, ghosts, lock, mode, mem, results, op, left>>

\* Nothing to run: exit (--once, --run-until-empty) or sleep and poll again.
Idle(p) ==
    /\ pc[p] = "pick" /\ Runnable(mem[p]) = {}
    /\ IF mode[p] = "once" \/ StopWhenIdle
       THEN Stop(p)
       ELSE /\ mem' = [mem EXCEPT ![p] = NoDoc]
            /\ Goto(p, "top", "none")
            /\ UNCHANGED <<lock, mode, cur, results>>
    /\ UNCHANGED <<files, ghosts, op, left>>

\* build_run_spec, input staging and preflight: all pass, or an exception.
Prepare(p) ==
    /\ pc[p] = "prepare"
    /\ Goto(p, "freeze", "none") \/ Call(p, "fail")
    /\ UNCHANGED <<files, ghosts, lock, mode, cur, mem, results, op, left>>

\* Faulty variant: an existing contract is accepted without comparing it.
BugContractFits(i, d) == TRUE

\* The contract in the run directory, if any, has the hash of this launch.
ContractFits(i, d) == contract[i] \in {NoDoc, d}

\* Faulty variant: the contract takes what is on disk by now.
BugFrozen(p) == queue

\* The document that goes into the contract: the one process_next_item loaded.
Frozen(p) == mem[p]

\* Faulty variant: the contract is written first and compared after, so the one
\* of an earlier launch is lost when they differ.
BugFreeze(p) ==
    /\ pc[p] = "freeze"
    /\ contract' = [contract EXCEPT ![cur[p]] = Frozen(p)]
    /\ \/ ContractFits(cur[p], Frozen(p)) /\ Call(p, "mark")
       \/ contract[cur[p]] # NoDoc /\ Call(p, "fail")
    /\ mem' = [mem EXCEPT ![p] = NoDoc]
    /\ UNCHANGED <<queue, ckpt, job, ghosts, lock, mode, cur, results, op, left>>

(* freeze_launch_contract.  The resolved spec is part of the hash, so an equal
   document may mismatch too. *)
Freeze(p) ==
    /\ pc[p] = "freeze"
    /\ \/ /\ ContractFits(cur[p], Frozen(p))
          /\ contract' = [contract EXCEPT ![cur[p]] =
                            IF @ = NoDoc THEN Frozen(p) ELSE @]
          /\ Call(p, "mark") \/ Call(p, "fail")   \* fail: the provenance files
       \/ /\ contract[cur[p]] # NoDoc
          /\ Call(p, "fail")
          /\ UNCHANGED contract
    /\ mem' = [mem EXCEPT ![p] = NoDoc]
    /\ UNCHANGED <<queue, ckpt, job, ghosts, lock, mode, cur, results, op, left>>

-----------------------------------------------------------------------------
(* update_item: load the file, change one item, write the file back *)

AllPass(s) == \A k \in 1..Len(s) : s[k] = "pass"

\* Faulty variant: the final update leaves gate_passed of an earlier eval.
BugUpdatedStaleGate(u, it, c, r) ==
    CASE u = "mark" -> [it EXCEPT !.status = "training", !.ref = c.rev]
      [] u = "keep" -> it
      [] u = "eval" -> [it EXCEPT !.post = "running"]
      [] u = "gate" -> [it EXCEPT !.post = "complete",
                                  !.gate = IF @ = "none" /\ AllPass(r) THEN "pass" ELSE @]
      [] u = "done" -> [it EXCEPT !.status = "complete"]
      [] u = "efail" -> [it EXCEPT !.status = "failed", !.post = "failed"]
      [] u = "fail" -> [it EXCEPT !.status = "failed"]
      [] u = "retry" -> [it EXCEPT !.status = "eval_running"]

\* Faulty variant: the launch is recorded without its contract.
BugUpdatedNoRef(u, it, c, r) ==
    IF u = "mark" THEN [it EXCEPT !.status = "training"]
    ELSE BugUpdatedStaleGate(u, it, c, r)

\* Faulty variant: the failure paths record the failure but not the status.
BugUpdatedKeepsStatus(u, it, c, r) ==
    IF u \in {"fail", "efail"} THEN it ELSE BugUpdatedStaleGate(u, it, c, r)

\* Item `it` after update u, given its contract c and the eval results r.
Updated(u, it, c, r) ==
    CASE u = "mark" -> [it EXCEPT !.status = "training", !.ref = c.rev]
      [] u = "keep" -> it                        \* only retention fields
      [] u = "eval" -> [it EXCEPT !.post = "running"]
      [] u = "gate" -> [it EXCEPT !.post = "complete",
                                  !.gate = IF AllPass(r) THEN "pass" ELSE "fail"]
      [] u = "done" -> [it EXCEPT !.status = "complete"]
      [] u = "efail" -> [it EXCEPT !.status = "failed", !.post = "failed"]
      [] u = "fail" -> [it EXCEPT !.status = "failed"]
      [] u = "retry" -> [it EXCEPT !.status = "eval_running"]

UpdateLoad(p) ==
    /\ pc[p] = "load"
    /\ mem' = [mem EXCEPT ![p] = queue]
    /\ Goto(p, "write", upd[p])
    /\ UNCHANGED <<files, ghosts, lock, mode, cur, results, op, left>>

WriteBack(p) ==
    LET i == cur[p] IN
    /\ queue' = Written([mem[p] EXCEPT !.items[i] =
                            Updated(upd[p], @, contract[i], results[p])])
    /\ stale' = stale \ {i}

\* run_roundtrip_post_eval starts, or returns None without specs.
BeginEval(p) == Call(p, IF Evals = 0 THEN "done" ELSE "eval")

UpdateWrite(p) ==
    /\ pc[p] = "write" /\ upd[p] \notin {"done", "fail"}
    /\ WriteBack(p)
    /\ \/ upd[p] = "mark"  /\ Goto(p, "service", "none")
       \/ upd[p] = "keep"  /\ BeginEval(p)
       \/ upd[p] = "eval"  /\ Goto(p, "eval", "none")
       \/ upd[p] = "gate"  /\ Call(p, "done")
       \/ upd[p] = "efail" /\ Call(p, "fail")
       \/ upd[p] = "retry" /\ Call(p, "eval")
    /\ mem' = [mem EXCEPT ![p] = NoDoc]
    /\ UNCHANGED <<contract, ckpt, job, starts, verdict, lock, mode, cur, results, op, left>>

\* watch_queue after an item: leave, or go round the loop.
Leaves(p) == mode[p] \in {"once", "retry"} \/ (upd[p] = "fail" /\ StopOnFailure)

Finish(p) ==
    /\ pc[p] = "write" /\ upd[p] \in {"done", "fail"}
    /\ WriteBack(p)
    /\ IF Leaves(p)
       THEN Stop(p)
       ELSE /\ Goto(p, "top", "none")
            /\ cur' = [cur EXCEPT ![p] = 0]
            /\ mem' = [mem EXCEPT ![p] = NoDoc]
            /\ results' = [results EXCEPT ![p] = <<>>]
            /\ UNCHANGED <<lock, mode>>
    /\ UNCHANGED <<contract, ckpt, job, starts, verdict, op, left>>

-----------------------------------------------------------------------------
(* Training and post-eval *)

\* managed_sglang_service comes up and the training command starts, or it raises.
Launch(p) ==
    /\ pc[p] = "service"
    /\ \/ /\ starts' = [starts EXCEPT ![cur[p]] = @ + 1]
          /\ job' = [job EXCEPT ![cur[p]] = IF Evals = 0 THEN "saved" ELSE "saving"]
          /\ Goto(p, "train", "none")
       \/ /\ Call(p, "fail")
          /\ UNCHANGED <<starts, job>>
    /\ UNCHANGED <<queue, contract, ckpt, verdict, stale, lock, mode, cur, mem, results, op, left>>

\* The training command writes one of the checkpoints to be evaluated.
Save(i, k) ==
    /\ job[i] = "saving" /\ k \notin ckpt[i]
    /\ ckpt' = [ckpt EXCEPT ![i] = @ \cup {k}]
    /\ job' = [job EXCEPT ![i] = IF EvalIds \subseteq ckpt[i] \cup {k} THEN "saved" ELSE @]
    /\ UNCHANGED <<queue, contract, ghosts, procs, op, left>>

\* The training command ends: 0 (all checkpoints written), or anything else.
TrainEnd(p) ==
    /\ pc[p] = "train"
    /\ job' = [job EXCEPT ![cur[p]] = "none"]
    /\ \/ /\ job[cur[p]] = "saved"
          /\ IF Retention THEN Goto(p, "retain", "none") ELSE BeginEval(p)
       \/ Call(p, "fail")
    /\ UNCHANGED <<queue, contract, ckpt, ghosts, lock, mode, cur, mem, results, op, left>>

Awaited(i) == \E p \in Workers : pc[p] = "train" /\ cur[p] = i

\* A training command whose watcher was killed ends: nobody takes its exit code.
OrphanEnd(i) ==
    /\ job[i] # "none" /\ ~Awaited(i)
    /\ job' = [job EXCEPT ![i] = "none"]
    /\ UNCHANGED <<queue, contract, ckpt, ghosts, procs, op, left>>

\* apply_checkpoint_retention: the evaluated iterations are protected by
\* validate_retention_protected_iterations; a missing one raises.
Retain(p) ==
    /\ pc[p] = "retain"
    /\ Call(p, "keep") \/ Call(p, "fail")
    /\ UNCHANGED <<files, ghosts, lock, mode, cur, mem, results, op, left>>

NextEval(p) == Len(results[p]) + 1
PreviousPassed(p) ==
    Len(results[p]) > 0 /\ results[p][Len(results[p])] = "pass"

Skips(p) == NextEval(p) \in NeedsPrevious /\ ~PreviousPassed(p)

EvalSkip(p) ==
    /\ pc[p] = "eval" /\ NextEval(p) \in EvalIds /\ Skips(p)
    /\ results' = [results EXCEPT ![p] = Append(@, "skip")]
    /\ UNCHANGED <<files, ghosts, lock, pc, mode, upd, cur, mem, op, left>>

\* Faulty variant: the actor checkpoint goes before the eval has its result.
BugCleaned(k, done) == {k} \cap CleanupEvals

\* The checkpoints removed once eval k ended.
Cleaned(k, done) == IF done THEN {k} \cap CleanupEvals ELSE {}

EvalRun(p) ==
    /\ pc[p] = "eval" /\ NextEval(p) \in EvalIds /\ ~Skips(p)
    /\ \/ /\ NextEval(p) \in ckpt[cur[p]]
          /\ \E r \in {"pass", "fail"} :
                results' = [results EXCEPT ![p] = Append(@, r)]
          /\ ckpt' = [ckpt EXCEPT ![cur[p]] = @ \ Cleaned(NextEval(p), TRUE)]
          /\ UNCHANGED <<pc, upd>>
       \/ /\ Call(p, "efail")                    \* a command failed
          /\ ckpt' = [ckpt EXCEPT ![cur[p]] = @ \ Cleaned(NextEval(p), FALSE)]
          /\ UNCHANGED results
    /\ UNCHANGED <<queue, contract, job, ghosts, lock, mode, cur, mem, op, left>>

EvalEnd(p) ==
    /\ pc[p] = "eval" /\ NextEval(p) \notin EvalIds
    /\ verdict' = [verdict EXCEPT ![cur[p]] =
                      IF AllPass(results[p]) THEN "pass" ELSE "fail"]
    /\ Call(p, "gate")
    /\ UNCHANGED <<files, starts, stale, lock, mode, cur, mem, results, op, left>>

(* process_post_eval_only: without a recorded contract or frozen evals it
   raises before any write, which changes nothing. *)
StartRetry(p, i) ==
    /\ pc[p] = "off" /\ Undisturbed /\ left.retries > 0
    /\ queue.items[i].ref # 0 /\ Evals > 0
    /\ TakeLock(p)
    /\ Call(p, IF ckpt[i] = EvalIds THEN "retry" ELSE "fail")
    /\ mode' = [mode EXCEPT ![p] = "retry"]
    /\ cur' = [cur EXCEPT ![p] = i]
    /\ left' = [left EXCEPT !.retries = @ - 1]
    /\ UNCHANGED <<files, ghosts, mem, results, op>>

\* The process is killed: its lock goes, the file keeps what was last written, and
\* a training command it waits for (subprocess.run) dies with it or runs on.
Crash(p) ==
    /\ pc[p] # "off" /\ left.crashes > 0
    /\ Stop(p)
    /\ stale' = stale \cup ({cur[p]} \cap Active(queue))
    /\ left' = [left EXCEPT !.crashes = @ - 1]
    /\ \/ pc[p] = "train" /\ job' = [job EXCEPT ![cur[p]] = "none"]
       \/ UNCHANGED job
    /\ UNCHANGED <<queue, contract, ckpt, starts, verdict, op>>

-----------------------------------------------------------------------------
(* Operator commands, outside the lock *)

(* set_item_approval *)
ApproveLoad(o, i, c) ==
    /\ op[o].cmd = "off" /\ Undisturbed /\ left.ops > 0
    /\ op' = [op EXCEPT ![o] = [cmd |-> c, item |-> i, mem |-> queue]]
    /\ left' = [left EXCEPT !.ops = @ - 1]
    /\ UNCHANGED <<files, ghosts, procs>>

ApproveWrite(o) ==
    /\ op[o].cmd \in {"arm", "disarm"}
    /\ queue' = Written(WithApproval(op[o].mem, op[o].item, op[o].cmd = "arm"))
    /\ op' = [op EXCEPT ![o] = OpOff]
    /\ UNCHANGED <<contract, ckpt, job, ghosts, procs, left>>

(* reset_active_items; with nothing active it writes nothing. *)
ResetLoad(o) ==
    /\ op[o].cmd = "off" /\ Undisturbed /\ left.ops > 0
    /\ Active(queue) # {}
    /\ op' = [op EXCEPT ![o] = [cmd |-> "reset", item |-> 0, mem |-> queue]]
    /\ left' = [left EXCEPT !.ops = @ - 1]
    /\ UNCHANGED <<files, ghosts, procs>>

ResetWrite(o) ==
    /\ op[o].cmd = "reset"
    /\ queue' = Written(WithStatus(op[o].mem, Active(op[o].mem), "pending"))
    /\ stale' = stale \ Active(op[o].mem)
    /\ op' = [op EXCEPT ![o] = OpOff]
    /\ UNCHANGED <<contract, ckpt, job, starts, verdict, procs, left>>

-----------------------------------------------------------------------------
\* What a worker does by itself once started.
Work(p) ==
    \/ LoadNext(p) \/ Promote(p) \/ Reload(p) \/ Pick(p) \/ Idle(p)
    \/ Prepare(p) \/ Freeze(p) \/ UpdateLoad(p) \/ UpdateWrite(p) \/ Finish(p)
    \/ Launch(p) \/ TrainEnd(p) \/ Retain(p)
    \/ EvalSkip(p) \/ EvalRun(p) \/ EvalEnd(p)

WorkerNext(p) ==
    \/ Work(p)
    \/ \E m \in {"watch", "once"} : StartWatcher(p, m)
    \/ \E i \in Items : StartRetry(p, i)
    \/ Crash(p)

OperatorNext(o) ==
    \/ \E i \in Items, c \in {"arm", "disarm"} : ApproveLoad(o, i, c)
    \/ ApproveWrite(o)
    \/ ResetLoad(o) \/ ResetWrite(o)

TrainingNext(i) == (\E k \in EvalIds : Save(i, k)) \/ OrphanEnd(i)

Next == \/ \E p \in Workers : WorkerNext(p)
        \/ \E o \in Operators : OperatorNext(o)
        \/ \E i \in Items : TrainingNext(i)

Spec == Init /\ [][Next]_vars

\* A started process keeps running, and so do the commands it waits for.
Fairness == /\ \A p \in Workers : WF_vars(Work(p))
            /\ \A o \in Operators : WF_vars(ApproveWrite(o) \/ ResetWrite(o))

FairSpec == Spec /\ Fairness

-----------------------------------------------------------------------------
(* Properties that hold whatever operators do, across crashes *)

InItem == {"prepare", "freeze", "load", "write", "service", "train", "retain", "eval"}

\* The queue lock (LOCK_NB) keeps two items from training side by side; only a
\* killed watcher, whose training command may survive it, breaks this.
OneTraining ==
    \A i, j \in Items :
        job[i] # "none" /\ job[j] # "none" /\ i # j => left.crashes < MaxCrashes

\* A run directory sees at most one training command, whatever is killed, reset,
\* re-armed or overwritten: the frozen contract pins the version of the queue
\* file that was launched, and every later version differs from it.
TrainedAtMostOnce == \A i \in Items : starts[i] <= 1

\* Each launch_contract recorded in any copy of the queue - the file, a loaded
\* or a frozen document - names the contract that lies in that run directory,
\* and no copy shows an item in training without it.
RefsResolve ==
    \A d \in Docs, i \in Items : LET it == d.items[i] IN
        /\ it.ref \in {0, contract[i].rev}
        /\ it.status = "training" => it.ref # 0

\* What was frozen for a launch is a document in which that very item was
\* pending and approved, not a later or an earlier state of it.
FrozenWasRunnable ==
    \A i \in Items : contract[i] # NoDoc =>
        contract[i].items[i].status = "pending" /\ contract[i].items[i].approved

\* The lifecycle promised to a reader of the queue: the contract of an item is
\* frozen once and stands; its one training starts under it; a verdict is given
\* only when that training wrote the checkpoints that stay, also by a retry
\* next to a training that outlived its watcher.
Kept == EvalIds \ CleanupEvals

Phase == [i \in Items |->
            IF starts[i] = 0 THEN "waiting"
            ELSE IF Kept \subseteq ckpt[i]
                 THEN IF job[i] = "none" THEN "done" ELSE "saved"
                 ELSE IF job[i] = "none" THEN "short" ELSE "saving"]

Under == [i \in Items |-> contract[i].rev]

Once == INSTANCE TrainingOnce WITH phase <- Phase, under <- Under
RefinesOnce == Once!Spec

-----------------------------------------------------------------------------
(* Properties that need operators to keep away from a running worker *)

\* An item shown as training or eval_running is being processed, unless its
\* process was killed: nobody waits on an item that no process owns.
ActiveHasOwner ==
    \A i \in Active(queue) : i \in stale \/ \E p \in Workers : cur[p] = i

\* "complete" is earned: the item was trained, under a recorded contract, and
\* when it has post-evals, the gate shown is the outcome of the last one that
\* ran to its end, not of an earlier attempt.
CompleteIsEarned ==
    \A i \in Items : LET it == queue.items[i] IN
        /\ it.status \in ActiveStatuses => it.ref # 0
        /\ it.status = "complete" =>
            /\ it.ref # 0 /\ starts[i] = 1
            /\ Evals > 0 => it.post = "complete" /\ it.gate = verdict[i]

\* A failed post-eval leaves the actor checkpoints a --post-eval-only retry
\* starts from (where only the last one removes its checkpoint).
FailedEvalRetryable ==
    \A i \in Items : queue.items[i].post = "failed" => ckpt[i] = EvalIds

\* A blocked item becomes pending only while, on disk, it is approved, its
\* dependency is complete and, if asked for, the dependency's last evaluation passed.
PromotionIsSound ==
    [][\A i \in Items :
        /\ queue.items[i].status = "blocked"
        /\ queue'.items[i].status # "blocked"
        => /\ queue.items[i].approved
           /\ queue.items[Dep[i]].status = "complete"
           /\ i \in NeedGate => verdict[Dep[i]] = "pass"]_vars

\* While a watcher stays up it reaches every item that may run: neither an
\* unapproved item before it nor a failed one keeps it from being taken.
ReadyIsTaken ==
    LET Ready(i) == LET it == queue.items[i] IN
            /\ it.approved
            /\ \/ it.status = "pending"
               \/ it.status = "blocked" /\ i \in Promotable(queue)
    IN \A i \in Items : Ready(i) ~> (~Ready(i) \/ lock = Free)
=============================================================================
