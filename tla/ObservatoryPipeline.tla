-------------------------- MODULE ObservatoryPipeline --------------------------
(***************************************************************************)
(* observatory/: a supervisor waits for the preparation of the critics and  *)
(* runs the GPU queue, then the base queue (pipeline_supervisor.py); a      *)
(* watcher starts a further queue when the supervisor's state file says     *)
(* complete (queue_after_state.py); launch_after_prepare.py or a person may *)
(* start a queue too.  A queue process (queue.py) keeps its progress in a   *)
(* state file that the next one resumes from.  Processes know of each other *)
(* by process id, exit code and state file only: there is no lock.          *)
(***************************************************************************)
EXTENDS Naturals, FiniteSets

CONSTANTS
    Size,       \* Size[q]: the number of items of queue q
    Configs,    \* contents of the config file the queues share
    NoConfig,   \* no config yet
    Runners,    \* slots for processes that run observatory.queue
    MaxStarts,  \* bound on starts by a person: queues, supervisors, watchers
    MaxEdits,   \* bound on edits of the config file
    MaxLosses   \* bound on processes killed or ended by an exception

Queues == {"gpu", "base", "next"}

ASSUME SizeAssumption == Size \in [Queues -> Nat \ {0}]
ASSUME ConfigAssumption == NoConfig \notin Configs
ASSUME BoundAssumption == MaxStarts \in Nat /\ MaxEdits \in Nat /\ MaxLosses \in Nat

Items(q) == 1..Size[q]
Entry == [status : {"none", "running", "complete", "failed"}, config : Configs \cup {NoConfig}]
NoEntry == [status |-> "none", config |-> NoConfig]

(* The state document of a queue; status "none" means there is no file.     *)
Doc(q) == [status : {"none", "running", "complete", "failed"},
           config : Configs \cup {NoConfig}, items : [Items(q) -> Entry]]
NoDoc(q) == [status |-> "none", config |-> NoConfig, items |-> [i \in Items(q) |-> NoEntry]]

(* A queue process: its queue, who waits for it ("nobody" for a process     *)
(* started by hand, or whose parent is dead), its copy of the document and  *)
(* the item it has reached.                                                 *)
RunnerOf(q) == [pc : {"off", "load", "begin", "next", "run", "fail", "ok", "bad"},
                queue : {q}, parent : {"supervisor", "watcher", "nobody"},
                doc : Doc(q), at : 1..(Size[q] + 1)]
Idle == [pc |-> "off", queue |-> "gpu", parent |-> "nobody", doc |-> NoDoc("gpu"), at |-> 1]

VARIABLES
    config,     \* the config file
    file,       \* file[q]: the state file of queue q
    runner,     \* runner[r]: the queue process in slot r
    prepare,    \* the preparation process: "running" or "gone"
    report,     \* its report file: "none", "passed" or "failed"
    fetch,      \* the base download: "none", "paused", "running" or "gone"
    sup,        \* the supervisor's next step
    upstream,   \* the status in the supervisor's state file
    watcher,    \* the watcher's next step
    verdict,    \* the status in the watcher's state file
    done,       \* history: <<q, i, c>>, item i of q has succeeded under config c
    lost,       \* processes killed or ended by an exception so far
    starts, edits

watched == <<watcher, verdict>>
supervised == <<sup, upstream>>
prepared == <<prepare, report>>
vars == <<config, file, runner, prepare, report, fetch, sup, upstream,
          watcher, verdict, done, lost, starts, edits>>

TypeOK ==
    /\ config \in Configs
    /\ DOMAIN file = Queues /\ \A q \in Queues : file[q] \in Doc(q)
    /\ DOMAIN runner = Runners
    /\ \A r \in Runners : runner[r].queue \in Queues /\ runner[r] \in RunnerOf(runner[r].queue)
    /\ prepare \in {"running", "gone"} /\ report \in {"none", "passed", "failed"}
    /\ fetch \in {"none", "paused", "running", "gone"}
    /\ sup \in {"off", "critics", "fetch", "signal", "start", "gpu", "download", "stage", "base"}
    /\ upstream \in {"none", "waiting_for_critics", "running", "failed", "complete"}
    /\ watcher \in {"off", "waiting", "ready", "queue"}
    /\ verdict \in {"none", "waiting", "blocked", "running", "complete", "failed"}
    /\ done \subseteq Queues \X Nat \X Configs
    /\ lost \in 0..MaxLosses /\ starts \in 0..MaxStarts /\ edits \in 0..MaxEdits

(* A report may be there from an earlier preparation.                       *)
Init ==
    /\ config \in Configs
    /\ file = [q \in Queues |-> NoDoc(q)]
    /\ runner = [r \in Runners |-> Idle]
    /\ prepare = "running" /\ report \in {"none", "passed", "failed"}
    /\ fetch \in {"none", "paused", "running"}
    /\ sup = "off" /\ upstream = "none"
    /\ watcher = "off" /\ verdict = "none"
    /\ done = {}
    /\ lost = 0 /\ starts = 0 /\ edits = 0

-----------------------------------------------------------------------------
(* queue.py: run_queue *)

Spawned(r, q, who) ==
    /\ runner[r].pc = "off"
    /\ runner' = [runner EXCEPT ![r] =
          [pc |-> "load", queue |-> q, parent |-> who, doc |-> NoDoc(q), at |-> 1]]

(* The config is hashed, the state file of an earlier run read.             *)
Load(r) ==
    /\ runner[r].pc = "load"
    /\ runner' = [runner EXCEPT ![r].pc = "begin", ![r].doc =
          [file[runner[r].queue] EXCEPT !.status = "running", !.config = config]]
    /\ UNCHANGED <<config, file, prepared, fetch, supervised, watched, done, lost, starts, edits>>

(* write_state: the whole document of r replaces the file.                  *)
Write(r, doc, pc, at) ==
    /\ runner' = [runner EXCEPT ![r].pc = pc, ![r].doc = doc, ![r].at = at]
    /\ file' = [file EXCEPT ![runner[r].queue] = doc]

Begin(r) ==
    /\ runner[r].pc = "begin"
    /\ Write(r, runner[r].doc, "next", 1)
    /\ UNCHANGED <<config, prepared, fetch, supervised, watched, done, lost, starts, edits>>

AtItem(r) == runner[r].pc = "next" /\ runner[r].at <= Size[runner[r].queue]

\* Faulty variant: the config hash of the entry is not compared.
BugSkippable(entry, c) == entry.status = "complete"

Skippable(entry, c) == entry.status = "complete" /\ entry.config = c

NextItem(r) == runner[r].at + 1

Skip(r) ==
    /\ AtItem(r) /\ Skippable(runner[r].doc.items[runner[r].at], runner[r].doc.config)
    /\ runner' = [runner EXCEPT ![r].at = NextItem(r)]
    /\ UNCHANGED <<config, file, prepared, fetch, supervised, watched, done, lost, starts, edits>>

Marked(r, status) ==
    [runner[r].doc EXCEPT !.items[runner[r].at] =
        [status |-> status, config |-> runner[r].doc.config]]

RunItem(r) ==
    /\ AtItem(r) /\ ~Skippable(runner[r].doc.items[runner[r].at], runner[r].doc.config)
    /\ Write(r, Marked(r, "running"), "run", runner[r].at)
    /\ UNCHANGED <<config, prepared, fetch, supervised, watched, done, lost, starts, edits>>

(* The item's command has read the config file itself.                      *)
ItemComplete(r) ==
    /\ runner[r].pc = "run"
    /\ Write(r, Marked(r, "complete"), "next", NextItem(r))
    /\ done' = done \cup {<<runner[r].queue, runner[r].at, config>>}
    /\ UNCHANGED <<config, prepared, fetch, supervised, watched, lost, starts, edits>>

ItemFailed(r) ==
    /\ runner[r].pc = "run"
    /\ Write(r, Marked(r, "failed"), "fail", runner[r].at)
    /\ UNCHANGED <<config, prepared, fetch, supervised, watched, done, lost, starts, edits>>

(* The failure of the queue is a second write.                              *)
QueueFailed(r) ==
    /\ runner[r].pc = "fail"
    /\ Write(r, [runner[r].doc EXCEPT !.status = "failed"], "bad", runner[r].at)
    /\ UNCHANGED <<config, prepared, fetch, supervised, watched, done, lost, starts, edits>>

QueueComplete(r) ==
    /\ runner[r].pc = "next" /\ runner[r].at > Size[runner[r].queue]
    /\ Write(r, [runner[r].doc EXCEPT !.status = "complete"], "ok", runner[r].at)
    /\ UNCHANGED <<config, prepared, fetch, supervised, watched, done, lost, starts, edits>>

Ended(r) == runner[r].pc \in {"ok", "bad"}

(* A process nobody waits for is gone once it has ended.                    *)
Reap(r) ==
    /\ Ended(r) /\ runner[r].parent = "nobody"
    /\ runner' = [runner EXCEPT ![r] = Idle]
    /\ UNCHANGED <<config, file, prepared, fetch, supervised, watched, done, lost, starts, edits>>

Loss == lost < MaxLosses /\ lost' = lost + 1

(* Killed, or an exception: an I/O error, an item that names no known phase.*)
(* The state file stays as it is.                                           *)
RunnerLost(r) ==
    /\ runner[r].pc \in {"load", "begin", "next", "run", "fail"} /\ Loss
    /\ runner' = [runner EXCEPT ![r].pc = "bad"]
    /\ UNCHANGED <<config, file, prepared, fetch, supervised, watched, done, starts, edits>>

-----------------------------------------------------------------------------
(* People and the processes the pipeline waits for *)

Started == starts < MaxStarts /\ starts' = starts + 1

(* python -m observatory.queue *)
StartByHand(r, q) ==
    /\ Started /\ Spawned(r, q, "nobody")
    /\ UNCHANGED <<config, file, prepared, fetch, supervised, watched, done, lost, edits>>

(* launch_after_prepare.py: waits for the process, validates its report.    *)
LaunchAfterPrepare(r) ==
    /\ Started /\ prepare = "gone" /\ report = "passed"
    /\ Spawned(r, "gpu", "nobody")
    /\ UNCHANGED <<config, file, prepared, fetch, supervised, watched, done, lost, edits>>

(* A person edits the config file while nothing of the pipeline reads it.   *)
Edit(c) ==
    /\ edits < MaxEdits /\ edits' = edits + 1
    /\ sup = "off" /\ \A r \in Runners : runner[r].pc = "off"
    /\ config' = c
    /\ UNCHANGED <<file, runner, prepared, fetch, supervised, watched, done, lost, starts>>

(* prepare_runtime.py writes its report last; it may end without one.       *)
PrepareEnds ==
    /\ prepare = "running" /\ prepare' = "gone"
    /\ report' \in {"passed", "failed", report}
    /\ UNCHANGED <<config, file, runner, fetch, supervised, watched, done, lost, starts, edits>>

PrepareAgain ==
    /\ Started /\ prepare = "gone"
    /\ prepare' = "running"
    /\ UNCHANGED <<config, file, runner, report, fetch, supervised, watched, done, lost, edits>>

FetchEnds ==
    /\ fetch = "running" /\ fetch' = "gone"
    /\ UNCHANGED <<config, file, runner, prepared, supervised, watched, done, lost, starts, edits>>

FetchLost ==
    /\ fetch \in {"paused", "running"} /\ Loss
    /\ fetch' = "gone"
    /\ UNCHANGED <<config, file, runner, prepared, supervised, watched, done, starts, edits>>

-----------------------------------------------------------------------------
(* pipeline_supervisor.py: main *)

SupervisorStarts ==
    /\ Started /\ sup = "off"
    /\ sup' = "critics" /\ upstream' = "waiting_for_critics"
    /\ UNCHANGED <<config, file, runner, prepared, fetch, watched, done, lost, edits>>

(* The process is gone; the report that is there is read, also when it is   *)
(* from an earlier preparation, and the staged checkpoints are checked.     *)
CriticsPass ==
    /\ sup = "critics" /\ prepare = "gone" /\ report = "passed"
    /\ sup' = "fetch"
    /\ UNCHANGED <<config, file, runner, prepared, fetch, upstream, watched, done, lost, starts, edits>>

(* Also when a stage or a checkpoint the report does not cover is missing.  *)
CriticsFail ==
    /\ sup = "critics" /\ prepare = "gone"
    /\ sup' = "off" /\ upstream' = "failed"
    /\ UNCHANGED <<config, file, runner, prepared, fetch, watched, done, lost, starts, edits>>

(* process_exists, then os.kill(SIGCONT), which raises when it is gone.     *)
FindFetch ==
    /\ sup = "fetch"
    /\ sup' = IF fetch \in {"paused", "running"} THEN "signal" ELSE "start"
    /\ UNCHANGED <<config, file, runner, prepared, fetch, upstream, watched, done, lost, starts, edits>>

SignalFetch ==
    /\ sup = "signal" /\ fetch \in {"paused", "running"}
    /\ fetch' = "running" /\ sup' = "start"
    /\ UNCHANGED <<config, file, runner, prepared, upstream, watched, done, lost, starts, edits>>

SignalRaises ==
    /\ sup = "signal" /\ fetch = "gone"
    /\ sup' = "off"
    /\ UNCHANGED <<config, file, runner, prepared, fetch, upstream, watched, done, lost, starts, edits>>

StartGpuQueue(r) ==
    /\ sup = "start" /\ Spawned(r, "gpu", "supervisor")
    /\ sup' = "gpu" /\ upstream' = "running"
    /\ UNCHANGED <<config, file, prepared, fetch, watched, done, lost, starts, edits>>

\* Faulty variant: the exit code is not looked at.
BugSucceeded(r) == Ended(r)

Succeeded(r) == runner[r].pc = "ok"

Collected(r, who) ==
    /\ Ended(r) /\ runner[r].parent = who
    /\ runner' = [runner EXCEPT ![r] = Idle]

(* Without a download to wait for, the base checkpoint is staged at once.   *)
GpuQueueEnds(r) ==
    /\ sup = "gpu" /\ Collected(r, "supervisor")
    /\ IF Succeeded(r)
       THEN sup' = (IF fetch = "none" THEN "stage" ELSE "download") /\ UNCHANGED upstream
       ELSE sup' = "off" /\ upstream' = "failed"
    /\ UNCHANGED <<config, file, prepared, fetch, watched, done, lost, starts, edits>>

FetchWaitedFor ==
    /\ sup = "download" /\ fetch = "gone"
    /\ sup' = "stage"
    /\ UNCHANGED <<config, file, runner, prepared, fetch, upstream, watched, done, lost, starts, edits>>

(* observatory.fetch_base succeeds and the base queue is started.           *)
BaseStaged(r) ==
    /\ sup = "stage" /\ Spawned(r, "base", "supervisor")
    /\ sup' = "base"
    /\ UNCHANGED <<config, file, prepared, fetch, upstream, watched, done, lost, starts, edits>>

BaseStageFails ==
    /\ sup = "stage"
    /\ sup' = "off" /\ upstream' = "failed"
    /\ UNCHANGED <<config, file, runner, prepared, fetch, watched, done, lost, starts, edits>>

BaseQueueEnds(r) ==
    /\ sup = "base" /\ Collected(r, "supervisor")
    /\ sup' = "off" /\ upstream' = (IF Succeeded(r) THEN "complete" ELSE "failed")
    /\ UNCHANGED <<config, file, prepared, fetch, watched, done, lost, starts, edits>>

Orphaned(who) ==
    runner' = [r \in Runners |-> IF runner[r].parent = who
                                 THEN [runner[r] EXCEPT !.parent = "nobody"] ELSE runner[r]]

(* Its queue process runs on, its state file stays as it is.                *)
SupervisorKilled ==
    /\ sup # "off" /\ Loss
    /\ sup' = "off" /\ Orphaned("supervisor")
    /\ UNCHANGED <<config, file, prepared, fetch, upstream, watched, done, starts, edits>>

-----------------------------------------------------------------------------
(* queue_after_state.py: run *)

WatcherStarts ==
    /\ Started /\ watcher = "off"
    /\ watcher' = "waiting" /\ verdict' = "waiting"
    /\ UNCHANGED <<config, file, runner, prepared, fetch, supervised, done, lost, edits>>

\* Faulty variant: a failure is not terminal.
BugOutcome(status) == IF status = "complete" THEN "ready" ELSE "waiting"

(* upstream_outcome *)
Outcome(status) == CASE status = "complete" -> "ready"
                     [] status = "failed" -> "failed"
                     [] OTHER -> "waiting"

Poll ==
    /\ watcher = "waiting" /\ Outcome(upstream) # "waiting"
    /\ IF Outcome(upstream) = "ready"
       THEN watcher' = "ready" /\ UNCHANGED verdict
       ELSE watcher' = "off" /\ verdict' = "blocked"
    /\ UNCHANGED <<config, file, runner, prepared, fetch, supervised, done, lost, starts, edits>>

StartNextQueue(r) ==
    /\ watcher = "ready" /\ Spawned(r, "next", "watcher")
    /\ watcher' = "queue" /\ verdict' = "running"
    /\ UNCHANGED <<config, file, prepared, fetch, supervised, done, lost, starts, edits>>

NextQueueEnds(r) ==
    /\ watcher = "queue" /\ Collected(r, "watcher")
    /\ watcher' = "off" /\ verdict' = (IF Succeeded(r) THEN "complete" ELSE "failed")
    /\ UNCHANGED <<config, file, prepared, fetch, supervised, done, lost, starts, edits>>

WatcherKilled ==
    /\ watcher # "off" /\ Loss
    /\ watcher' = "off" /\ Orphaned("watcher")
    /\ UNCHANGED <<config, file, prepared, fetch, supervised, verdict, done, starts, edits>>

-----------------------------------------------------------------------------
RunnerStep(r) ==
    \/ Load(r) \/ Begin(r) \/ Skip(r) \/ RunItem(r) \/ ItemComplete(r) \/ ItemFailed(r)
    \/ QueueFailed(r) \/ QueueComplete(r) \/ Reap(r)

SupervisorStep ==
    \/ CriticsPass \/ CriticsFail \/ FindFetch \/ SignalFetch \/ SignalRaises
    \/ FetchWaitedFor \/ BaseStageFails
    \/ \E r \in Runners : StartGpuQueue(r) \/ GpuQueueEnds(r) \/ BaseStaged(r) \/ BaseQueueEnds(r)

WatcherStep == Poll \/ \E r \in Runners : StartNextQueue(r) \/ NextQueueEnds(r)

Person ==
    \/ SupervisorStarts \/ WatcherStarts \/ PrepareAgain
    \/ \E c \in Configs : Edit(c)
    \/ \E r \in Runners : LaunchAfterPrepare(r) \/ \E q \in Queues : StartByHand(r, q)

Killed == SupervisorKilled \/ WatcherKilled \/ FetchLost \/ \E r \in Runners : RunnerLost(r)

Next ==
    \/ \E r \in Runners : RunnerStep(r)
    \/ SupervisorStep \/ WatcherStep \/ PrepareEnds \/ FetchEnds \/ Person \/ Killed

Spec == Init /\ [][Next]_vars

(* Started processes run on, and the commands they wait for end.            *)
Fairness ==
    /\ \A r \in Runners : WF_vars(RunnerStep(r))
    /\ WF_vars(SupervisorStep) /\ WF_vars(WatcherStep)
    /\ WF_vars(PrepareEnds) /\ WF_vars(FetchEnds)

FairSpec == Spec /\ Fairness

-----------------------------------------------------------------------------
(* Properties *)

Earned(q, c) == \A i \in Items(q) : <<q, i, c>> \in done

(* Although several processes may rewrite one state file from copies of     *)
(* their own, and each may be killed between any two writes: a queue that is*)
(* complete by its file, and a process that reports success, has had every  *)
(* item succeed under the very config it names.                             *)
SuccessIsEarned ==
    /\ \A q \in Queues : file[q].status = "complete" => Earned(q, file[q].config)
    /\ \A r \in Runners : runner[r].pc = "ok" => Earned(runner[r].queue, runner[r].doc.config)

(* The base queue is started by the supervisor, and the next one by the     *)
(* watcher, only when everything before has succeeded under one config,     *)
(* however often supervisors, queues and configs were changed before.       *)
StagesAreGated ==
    /\ sup = "base" => Earned("gpu", config)
    /\ watcher \in {"ready", "queue"} =>
         \E c \in Configs : Earned("gpu", c) /\ Earned("base", c)

(* A supervisor that has gone without recording how it ended: it was killed,*)
(* or signalled a download that had just ended.                             *)
NoVerdict == sup = "off" /\ upstream \in {"none", "waiting_for_critics", "running"}

(* A watcher that waits while a supervisor runs gets its answer, whatever   *)
(* fails on the way, as long as the supervisor records one.                 *)
WatcherAnswers == (watcher = "waiting" /\ sup # "off") ~> (watcher # "waiting" \/ NoVerdict)
=============================================================================
