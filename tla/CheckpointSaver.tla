--------------------------- MODULE CheckpointSaver ---------------------------
(***************************************************************************)
(* nla/train_actor.py, save_model: the trainer writes iter_<n>, advances    *)
(* latest_checkpointed_iteration.txt and starts a daemon thread that waits  *)
(* for the previous push, starts a push process and prunes old iter_*       *)
(* directories.  nla/scripts/push_checkpoint.py copies the latest iteration *)
(* to the remote; pull_checkpoint.py restores what the manifest lists.      *)
(*                                                                          *)
(* The trainer, its threads, the prune shell and the push processes run     *)
(* side by side.  A thread reads shared state (the tracker, the directory   *)
(* listing, self._push_proc) at its own pace.                               *)
(***************************************************************************)
EXTENDS Naturals, FiniteSets

CONSTANTS
    MaxSaves,   \* checkpoints the run takes: iter_1 .. iter_<MaxSaves>
    Keep,       \* NLA_KEEP_LOCAL
    Shards,     \* files the trainer's own save writes (model, optimizer)
    Sidecar,    \* what save_model adds after it (sidecar, hf/)
    MaxCrashes  \* bound on crashes

ASSUME SaveAssumption == MaxSaves \in Nat \ {0} /\ MaxCrashes \in Nat
ASSUME KeepAssumption == Keep \in Nat \ {0}     \* max(1, NLA_KEEP_LOCAL)
ASSUME FileAssumption == IsFiniteSet(Shards) /\ Shards # {} /\ Sidecar \notin Shards

Saves == 1..MaxSaves
Files == Shards \cup {Sidecar}

VARIABLES
    up,         \* the trainer runs
    step, cur,  \* its progress: in save_model or between saves; the last save begun
    todo,       \* shards of the current save not yet written
    dirs,       \* the iter_* directories on disk
    files,      \* files[n]: the files in iter_<n>
    tracker,    \* latest_checkpointed_iteration.txt, 0 while it does not exist
    thread,     \* thread[n]: the daemon thread started by save n
    prev,       \* prev[n]: the push it waits for, 0 for none
    pushProc,   \* self._push_proc: the thread that started it, 0 for none
    doomed,     \* directories a prune shell is removing
    push,       \* push[n]: the push process started by thread n
    remote,     \* remote[n]: files of iter_<n> in the remote
    rtracker,   \* the tracker file in the remote, 0 while it does not exist
    manifest,   \* _manifest.txt in the remote: an iteration (0: none) and its files
    crashes     \* crashes left

trainer == <<up, step, cur, todo>>
disk == <<dirs, files, tracker>>
store == <<remote, rtracker, manifest>>
vars == <<trainer, disk, thread, prev, pushProc, doomed, push, store, crashes>>

Push == [state : {"none", "started", "files", "manifest", "over"},
         iter : 0..MaxSaves, listed : SUBSET Files, left : SUBSET Files]
Manifest == [iter : 0..MaxSaves, files : SUBSET Files]

NoPush == [state |-> "none", iter |-> 0, listed |-> {}, left |-> {}]

PushOver == [NoPush EXCEPT !.state = "over"]

TypeOK ==
    /\ up \in BOOLEAN
    /\ step \in {"train", "shards", "sidecar"}
    /\ cur \in 0..MaxSaves
    /\ todo \in SUBSET Shards
    /\ dirs \in SUBSET Saves
    /\ files \in [Saves -> SUBSET Files]
    /\ tracker \in 0..MaxSaves
    /\ thread \in [Saves -> {"none", "prev", "wait", "prune", "over"}]
    /\ prev \in [Saves -> 0..MaxSaves]
    /\ pushProc \in 0..MaxSaves
    /\ doomed \in SUBSET Saves
    /\ push \in [Saves -> Push]
    /\ remote \in [Saves -> SUBSET Files]
    /\ rtracker \in 0..MaxSaves
    /\ manifest \in Manifest
    /\ crashes \in Nat

Init ==
    /\ up = TRUE /\ step = "train" /\ cur = 0 /\ todo = {}
    /\ dirs = {} /\ files = [n \in Saves |-> {}] /\ tracker = 0
    /\ thread = [n \in Saves |-> "none"] /\ prev = [n \in Saves |-> 0]
    /\ pushProc = 0 /\ doomed = {}
    /\ push = [n \in Saves |-> NoPush]
    /\ remote = [n \in Saves |-> {}] /\ rtracker = 0
    /\ manifest = [iter |-> 0, files |-> {}]
    /\ crashes = MaxCrashes

-----------------------------------------------------------------------------
(* The trainer *)

(* The iteration of the next checkpoint: iter_{rollout_id + 1}. *)
NextIter == cur + 1

(* The trainer's own save begins: iter_<n> is created (again, if a crash    *)
(* left it behind) and its shards are to be written.                        *)
BeginSave ==
    /\ up /\ step = "train" /\ cur < MaxSaves
    /\ cur' = NextIter
    /\ step' = "shards"
    /\ todo' = Shards
    /\ dirs' = dirs \cup {NextIter}
    /\ UNCHANGED <<up, files, tracker, thread, prev, pushProc, doomed, push, store, crashes>>

WriteShard(f) ==
    /\ up /\ step = "shards" /\ f \in todo
    /\ todo' = todo \ {f}
    /\ files' = [files EXCEPT ![cur] = @ \cup {f}]
    /\ UNCHANGED <<up, step, cur, dirs, tracker, thread, prev, pushProc, doomed, push,
                   store, crashes>>

(* When everything is written, and only then, the tracker names the save. *)
Track ==
    /\ up /\ step = "shards" /\ todo = {}
    /\ tracker' = cur
    /\ step' = "sidecar"
    /\ UNCHANGED <<up, cur, todo, dirs, files, thread, prev, pushProc, doomed, push,
                   store, crashes>>

(* The rest of save_model: the sidecar, and the thread _bg. *)
FinishSave ==
    /\ up /\ step = "sidecar"
    /\ dirs' = dirs \cup {cur}
    /\ files' = [files EXCEPT ![cur] = @ \cup {Sidecar}]
    /\ thread' = [thread EXCEPT ![cur] = "prev"]
    /\ step' = "train"
    /\ UNCHANGED <<up, cur, todo, tracker, prev, pushProc, doomed, push, store, crashes>>

-----------------------------------------------------------------------------
(* The thread of save n *)

Ended(p) == p # 0 => push[p].state = "over"

(* prev = self._push_proc *)
ReadPrev(n) ==
    /\ thread[n] = "prev"
    /\ prev' = [prev EXCEPT ![n] = pushProc]
    /\ thread' = [thread EXCEPT ![n] = "wait"]
    /\ UNCHANGED <<trainer, disk, pushProc, doomed, push, store, crashes>>

(* prev.wait() returns; Popen of push_checkpoint --only-latest. *)
Fire(n) ==
    /\ thread[n] = "wait" /\ Ended(prev[n])
    /\ push' = [push EXCEPT ![n].state = "started"]
    /\ pushProc' = n
    /\ thread' = [thread EXCEPT ![n] = "prune"]
    /\ prev' = [prev EXCEPT ![n] = 0]
    /\ UNCHANGED <<trainer, disk, doomed, store, crashes>>

\* Faulty variant: an off-by-one keeps one directory less.
BugOld(D) == {d \in D : Cardinality({e \in D : e > d}) >= Keep - 1}

(* ls -1d iter_* | head -n -<Keep>: all but the last Keep of D. *)
Old(D) == {d \in D : Cardinality({e \in D : e > d}) >= Keep}

\* Faulty variant: nothing is pruned while a push runs.
BugPruned == IF \E p \in Saves : push[p].state \notin {"none", "over"} THEN {} ELSE Old(dirs)

(* What the prune shell removes: decided once, by the listing. *)
Pruned == Old(dirs)

Prune(n) ==
    /\ thread[n] = "prune"
    /\ doomed' = doomed \cup Pruned
    /\ thread' = [thread EXCEPT ![n] = "over"]
    /\ UNCHANGED <<trainer, disk, prev, pushProc, push, store, crashes>>

(* rm -rf, file by file, then the directory. *)
Remove(n) ==
    /\ n \in doomed
    /\ \/ \E f \in files[n] :
             /\ files' = [files EXCEPT ![n] = @ \ {f}]
             /\ UNCHANGED <<dirs, doomed>>
       \/ /\ files[n] = {}
          /\ dirs' = dirs \ {n}
          /\ doomed' = doomed \ {n}
          /\ UNCHANGED files
    /\ UNCHANGED <<trainer, tracker, thread, prev, pushProc, push, store, crashes>>

-----------------------------------------------------------------------------
(* The push process started by thread n *)

\* Faulty variant: the push stays one save behind the tracker.
BugLatest == IF tracker > 1 THEN tracker - 1 ELSE tracker

(* --only-latest: the iteration the tracker names. *)
Latest == tracker

(* The process lists that iteration; no tracker, or no file in the          *)
(* directory, ends it.                                                      *)
PushList(n) ==
    /\ push[n].state = "started"
    /\ push' = [push EXCEPT ![n] =
          IF Latest = 0 \/ files[Latest] = {} THEN PushOver
          ELSE [state |-> "files", iter |-> Latest,
                listed |-> files[Latest], left |-> files[Latest]]]
    /\ UNCHANGED <<trainer, disk, thread, prev, pushProc, doomed, store, crashes>>

(* One file is copied; one that was removed meanwhile ends the push. *)
PushFile(n) ==
    /\ push[n].state = "files"
    /\ \E f \in push[n].left :
        \/ /\ f \in files[push[n].iter]
           /\ remote' = [remote EXCEPT ![push[n].iter] = @ \cup {f}]
           /\ push' = [push EXCEPT ![n].left = @ \ {f}]
        \/ /\ f \notin files[push[n].iter]
           /\ push' = [push EXCEPT ![n] = PushOver]
           /\ UNCHANGED remote
    /\ UNCHANGED <<trainer, disk, thread, prev, pushProc, doomed, rtracker, manifest, crashes>>

\* Faulty variant: the manifest is written without waiting for the files.
BugCopied(n) == TRUE

(* Every listed file is in the remote. *)
Copied(n) == push[n].left = {}

(* The tracker file comes last of the files, with its content at this time. *)
PushTracker(n) ==
    /\ push[n].state = "files" /\ Copied(n)
    /\ rtracker' = tracker
    /\ push' = [push EXCEPT ![n].state = "manifest"]
    /\ UNCHANGED <<trainer, disk, thread, prev, pushProc, doomed, remote, manifest, crashes>>

PushManifest(n) ==
    /\ push[n].state = "manifest"
    /\ manifest' = [iter |-> push[n].iter, files |-> push[n].listed]
    /\ push' = [push EXCEPT ![n] = PushOver]
    /\ UNCHANGED <<trainer, disk, thread, prev, pushProc, doomed, remote, rtracker, crashes>>

-----------------------------------------------------------------------------
(* Failures *)

(* The trainer dies, and its threads with it.  A prune shell and a push     *)
(* process (start_new_session) live on, unless the whole machine is lost.   *)
Crash ==
    /\ up /\ crashes > 0
    /\ crashes' = crashes - 1
    /\ up' = FALSE
    /\ thread' = [n \in Saves |-> IF thread[n] = "none" THEN "none" ELSE "over"]
    /\ \/ UNCHANGED <<doomed, push>>
       \/ /\ doomed' = {}
          /\ push' = [n \in Saves |-> IF push[n].state = "none" THEN NoPush
                                      ELSE PushOver]
    /\ prev' = [n \in Saves |-> 0] /\ pushProc' = 0
    /\ UNCHANGED <<step, cur, todo, disk, store>>

(* A new trainer loads the iteration named by the tracker, if any. *)
Restart ==
    /\ ~up
    /\ tracker # 0 => Shards \subseteq files[tracker]
    /\ up' = TRUE /\ step' = "train" /\ cur' = tracker /\ todo' = {}
    /\ UNCHANGED <<disk, thread, prev, pushProc, doomed, push, store, crashes>>

-----------------------------------------------------------------------------
Thread(n) == ReadPrev(n) \/ Fire(n) \/ Prune(n)
Pusher(n) == PushList(n) \/ PushFile(n) \/ PushTracker(n) \/ PushManifest(n)

Next ==
    \/ BeginSave \/ Track \/ FinishSave \/ Crash \/ Restart
    \/ \E f \in Shards : WriteShard(f)
    \/ \E n \in Saves : Thread(n) \/ Remove(n) \/ Pusher(n)

(* Threads, shells and pushes are scheduled and end; the trainer may stop.  *)
Fairness ==
    \A n \in Saves : WF_vars(Thread(n)) /\ WF_vars(Remove(n)) /\ WF_vars(Pusher(n))

Spec == Init /\ [][Next]_vars /\ Fairness

-----------------------------------------------------------------------------
(* Properties *)

(* The checkpoint the tracker names is whole on disk: however late the      *)
(* threads prune, and wherever the trainer dies, it can be resumed.         *)
LatestIsKept == tracker # 0 => Shards \subseteq files[tracker]

(* Whatever pull_checkpoint reads from the manifest is in the remote, whole.*)
ManifestIsBacked ==
    manifest.iter # 0 => /\ manifest.files # {}
                         /\ manifest.files \subseteq remote[manifest.iter]

(* Once the last save has started its thread, the disk comes down to Keep   *)
(* directories, unless the trainer dies before.                             *)
StorageBounded ==
    thread[MaxSaves] = "prev" ~> (Cardinality(dirs) <= Keep \/ ~up)

(* ... and the remote manifest names the last checkpoint at some time.      *)
LastIsPushed ==
    thread[MaxSaves] = "prev" ~> (manifest.iter = MaxSaves \/ ~up)
=============================================================================
