----------------------------- MODULE InputStaging -----------------------------
(***************************************************************************)
(* scripts/nano_rl_queue.py: how a queue process stages a model directory   *)
(* on node-local storage (_stage_directory_tree), starts SGLang on the      *)
(* staged copy, waits for its health URL, prunes the copy                   *)
(* (release_after_health) and stops the server when the training command    *)
(* has ended (managed_sglang_service).                                      *)
(*                                                                          *)
(* One target directory is modelled, the one that SGLang serves from.  For  *)
(* an item with Shared it is also the target of an input_staging entry, so  *)
(* a launch stages it twice and the training command reads it too.  The     *)
(* queue lock is per queue file: processes of several queues may share the  *)
(* target.  An item is named by the source its SGLang serves.               *)
(***************************************************************************)
EXTENDS Naturals, FiniteSets, FiniteSetsExt

CONSTANTS
    Queues,         \* one process per queue file stages into the target
    Sources,        \* source directories, immutable checkpoints
    None,           \* no source
    Files,          \* file names
    Holds,          \* Holds[s]: the files of source s
    Bytes,          \* Bytes[f]: the size of file f
    Pruned,         \* files matched by release_after_health.globs
    Shared,         \* Shared[s]: input_staging has an entry with the same target
    Release,        \* Release[s]: release_after_health.enabled
    ReuseExisting,  \* reuse_existing
    Clean,          \* clean
    Orphans,        \* a server outlives the kill of the process that started it
    MaxLaunches, MaxCrashes     \* bounds on server launches and kills

Launches == 1..MaxLaunches

ASSUME SourceAssumption == None \notin Sources /\ Holds \in [Sources -> SUBSET Files]
ASSUME FileAssumption ==
    IsFiniteSet(Files) /\ Bytes \in [Files -> Nat] /\ Pruned \subseteq Files
ASSUME OptionAssumption ==
    /\ Shared \in [Sources -> BOOLEAN] /\ Release \in [Sources -> BOOLEAN]
    /\ ReuseExisting \in BOOLEAN /\ Clean \in BOOLEAN /\ Orphans \in BOOLEAN
ASSUME LaunchAssumption == MaxLaunches \in Nat /\ MaxCrashes \in Nat

-----------------------------------------------------------------------------
(* A tree: the files it holds, each with the source its content is from. *)
Tree == UNION {[D -> Sources] : D \in SUBSET Files}
Part(s, D) == [f \in D |-> s]
Whole(s) == Part(s, Holds[s])
Empty == Part(None, {})
Drop(t, f) == [g \in DOMAIN t \ {f} |-> t[g]]

(* _tree_signature: number of files and bytes, nothing of their content. *)
Signature(t) ==
    [files |-> Cardinality(DOMAIN t),
     bytes |-> MapThenSumSet(LAMBDA f : Bytes[f], DOMAIN t)]

(* The marker file names the source path and is written under one of two    *)
(* names, by the staging of an input or of the SGLang model.                *)
Phases == {"input", "model"}
Marker == [src : Sources \cup {None}, name : Phases]
NoMarker == [src |-> None, name |-> "input"]

(* An SGLang server: the port of its queue, the source it was launched for, *)
(* what it has loaded from the target by now, whether it has outlived the   *)
(* process that launched it, and whether one that had was on its port then. *)
Server == [state : {"none", "loading", "up", "gone"}, port : Queues,
           src : Sources, got : Tree, orphan : BOOLEAN, rival : BOOLEAN]

VARIABLES
    there,      \* the target directory exists
    tree,       \* the files in it
    marker,     \* the marker file in it, or NoMarker
    pc,         \* per queue process: its next step
    phase,      \* per process: which of its stagings
    src,        \* per process: the source of the item it runs, or None
    temp,       \* per process: its private <target>.tmp.<pid>.<time>
    own,        \* per process: the server launch it waits for, or 0
    server,     \* server[l]: the server of launch l
    used,       \* launches so far
    crashes     \* kills left

target == <<there, tree, marker>>
vars == <<there, tree, marker, pc, phase, src, temp, own, server, used, crashes>>

Steps == {"off", "marker", "count", "replace", "remove", "copy", "publish",
          "start", "health", "release", "train"}

TypeOK ==
    /\ there \in BOOLEAN /\ tree \in Tree /\ marker \in Marker
    /\ pc \in [Queues -> Steps]
    /\ phase \in [Queues -> Phases]
    /\ src \in [Queues -> Sources \cup {None}]
    /\ temp \in [Queues -> Tree]
    /\ own \in [Queues -> 0..MaxLaunches]
    /\ DOMAIN server = 1..used
    /\ \A l \in 1..used : server[l] \in Server
    /\ used \in 0..MaxLaunches
    /\ crashes \in 0..MaxCrashes

Init ==
    /\ there = FALSE /\ tree = Empty /\ marker = NoMarker
    /\ pc = [p \in Queues |-> "off"]
    /\ phase = [p \in Queues |-> "input"]
    /\ src = [p \in Queues |-> None]
    /\ temp = [p \in Queues |-> Empty]
    /\ own = [p \in Queues |-> 0]
    /\ server = [l \in {} |-> None] /\ used = 0
    /\ crashes = MaxCrashes

-----------------------------------------------------------------------------
(* _stage_directory_tree *)

Goto(p, step) == pc' = [pc EXCEPT ![p] = step]

(* process_next_item reaches _stage_run_inputs, or without an input_staging *)
(* entry for this target only _stage_sglang_model.                          *)
Begin(p, s) ==
    /\ pc[p] = "off"
    /\ Goto(p, "marker")
    /\ src' = [src EXCEPT ![p] = s]
    /\ phase' = [phase EXCEPT ![p] = IF Shared[s] THEN "input" ELSE "model"]
    /\ UNCHANGED <<target, temp, own, server, used, crashes>>

(* The staging returns: after the input comes the model, then the server. *)
Staged(p) ==
    /\ phase' = [phase EXCEPT ![p] = "model"]
    /\ Goto(p, IF phase[p] = "input" THEN "marker" ELSE "start")

\* Faulty variant: each staging knows only the marker name it writes.
BugMarkerFits(p) == marker = [src |-> src[p], name |-> phase[p]]

(* One of the compatible markers is there and names this source. *)
MarkerFits(p) == marker.src = src[p]

ReadMarker(p) ==
    /\ pc[p] = "marker"
    /\ Goto(p, IF ReuseExisting /\ there /\ MarkerFits(p) THEN "count" ELSE "replace")
    /\ UNCHANGED <<target, phase, src, temp, own, server, used, crashes>>

\* Faulty variant: the marker is believed and the files are not counted.
BugCurrent(p) == TRUE

Current(p) == Signature(tree) = Signature(Whole(src[p]))

CountFiles(p) ==
    /\ pc[p] = "count"
    /\ IF Current(p) THEN Staged(p) ELSE Goto(p, "replace") /\ UNCHANGED phase
    /\ UNCHANGED <<target, src, temp, own, server, used, crashes>>

(* A target that is not current is removed first, unless clean = false. *)
Replace(p) ==
    /\ pc[p] = "replace" /\ (there => Clean)
    /\ Goto(p, IF there THEN "remove" ELSE "copy")
    /\ UNCHANGED <<target, phase, src, temp, own, server, used, crashes>>

(* shutil.rmtree: entry after entry in any order, then the directory. *)
RemoveFile(p, f) ==
    /\ pc[p] = "remove" /\ f \in DOMAIN tree
    /\ tree' = Drop(tree, f)
    /\ UNCHANGED <<there, marker, pc, phase, src, temp, own, server, used, crashes>>

RemoveMarker(p) ==
    /\ pc[p] = "remove" /\ marker # NoMarker
    /\ marker' = NoMarker
    /\ UNCHANGED <<there, tree, pc, phase, src, temp, own, server, used, crashes>>

RemoveDir(p) ==
    /\ pc[p] = "remove" /\ tree = Empty /\ marker = NoMarker
    /\ there' = FALSE
    /\ Goto(p, "copy")
    /\ UNCHANGED <<tree, marker, phase, src, temp, own, server, used, crashes>>

(* _copytree_with_workers into the private directory.  A copy of a source   *)
(* somebody is changing may miss files.                                     *)
Copy(p) ==
    /\ pc[p] = "copy"
    /\ \E D \in SUBSET Holds[src[p]] : temp' = [temp EXCEPT ![p] = Part(src[p], D)]
    /\ Goto(p, "publish")
    /\ UNCHANGED <<target, phase, src, own, server, used, crashes>>

Verified(p) == Signature(temp[p]) = Signature(Whole(src[p]))

(* Verified, marked and renamed; rename(2) wants an absent or empty target. *)
Publish(p) ==
    /\ pc[p] = "publish" /\ Verified(p)
    /\ tree = Empty /\ marker = NoMarker
    /\ there' = TRUE
    /\ tree' = temp[p]
    /\ marker' = [src |-> src[p], name |-> phase[p]]
    /\ temp' = [temp EXCEPT ![p] = Empty]
    /\ Staged(p)
    /\ UNCHANGED <<src, own, server, used, crashes>>

-----------------------------------------------------------------------------
(* managed_sglang_service *)

(* Nothing looks for a server on the port before another is started.        *)
Survivors(p) == {l \in 1..used : /\ server[l].orphan /\ server[l].port = p
                                 /\ server[l].state # "gone"}

Start(p) ==
    /\ pc[p] = "start" /\ used < MaxLaunches
    /\ used' = used + 1
    /\ server' = [l \in 1..(used + 1) |->
                    IF l \in 1..used THEN server[l]
                    ELSE [state |-> "loading", port |-> p, src |-> src[p], got |-> Empty,
                          orphan |-> FALSE, rival |-> Survivors(p) # {}]]
    /\ own' = [own EXCEPT ![p] = used + 1]
    /\ Goto(p, "health")
    /\ UNCHANGED <<target, phase, src, temp, crashes>>

Missing(l) == Holds[server[l].src] \ DOMAIN server[l].got

With(t, f) == [g \in DOMAIN t \cup {f} |-> IF g = f THEN tree[f] ELSE t[g]]

(* The server loads one file after the other; without the file it exits. *)
Load(l, f) ==
    /\ server[l].state = "loading" /\ f \in Missing(l)
    /\ server' = [server EXCEPT ![l] =
                    IF f \in DOMAIN tree
                    THEN [server[l] EXCEPT !.got = With(server[l].got, f)]
                    ELSE [server[l] EXCEPT !.state = "gone"]]
    /\ UNCHANGED <<target, pc, phase, src, temp, own, used, crashes>>

Answering(p) == {l \in 1..used : server[l].state = "up" /\ server[l].port = p}

(* Loaded, it binds its port, or exits because the port is taken. *)
Bind(l) ==
    /\ server[l].state = "loading" /\ Missing(l) = {}
    /\ server' = [server EXCEPT ![l].state =
                    IF Answering(server[l].port) = {} THEN "up" ELSE "gone"]
    /\ UNCHANGED <<target, pc, phase, src, temp, own, used, crashes>>

ServerExit(l) ==
    /\ server[l].state \in {"loading", "up"}
    /\ server' = [server EXCEPT ![l].state = "gone"]
    /\ UNCHANGED <<target, pc, phase, src, temp, own, used, crashes>>

(* _wait_for_service_health: no process has exited and the URL answers. *)
Healthy(p) == server[own[p]].state # "gone" /\ Answering(p) # {}

PassHealth(p) ==
    /\ pc[p] = "health" /\ Healthy(p)
    /\ Goto(p, IF Release[src[p]] THEN "release" ELSE "train")
    /\ UNCHANGED <<target, phase, src, temp, own, server, used, crashes>>

(* _release_sglang_staged_files, then the training command is started. *)
ReleaseFile(p, f) ==
    /\ pc[p] = "release" /\ f \in Pruned \cap DOMAIN tree
    /\ tree' = Drop(tree, f)
    /\ UNCHANGED <<there, marker, pc, phase, src, temp, own, server, used, crashes>>

Released(p) ==
    /\ pc[p] = "release" /\ there /\ Pruned \cap DOMAIN tree = {}
    /\ Goto(p, "train")
    /\ UNCHANGED <<target, phase, src, temp, own, server, used, crashes>>

Ended(p) ==
    /\ pc' = [pc EXCEPT ![p] = "off"]
    /\ src' = [src EXCEPT ![p] = None]
    /\ temp' = [temp EXCEPT ![p] = Empty]
    /\ own' = [own EXCEPT ![p] = 0]

\* Servers after that of process p has stopped.
WithoutOwn(p) ==
    [l \in 1..used |-> IF l = own[p]
                       THEN [server[l] EXCEPT !.state = "gone", !.got = Empty]
                       ELSE server[l]]

\* Faulty variant: the servers are left running.
BugStopped(p) == server

(* _terminate_service_processes *)
Stopped(p) == WithoutOwn(p)

(* The training command has ended, or any step before it has raised (I/O    *)
(* error, mismatch, clean = false, server exited, health timeout): the copy *)
(* is removed and the server terminated.                                    *)
Leave(p) ==
    /\ pc[p] # "off"
    /\ Ended(p)
    /\ server' = Stopped(p)
    /\ UNCHANGED <<target, phase, used, crashes>>

(* The process is killed: no except or finally clause runs.  Its server, a  *)
(* child that nothing ties to it, may go on.                                *)
Orphaned(p) == [l \in 1..used |-> [server[l] EXCEPT !.orphan = @ \/ l = own[p]]]

Kill(p) ==
    /\ pc[p] # "off" /\ crashes > 0
    /\ crashes' = crashes - 1
    /\ Ended(p)
    /\ server' = IF Orphans THEN Orphaned(p) ELSE WithoutOwn(p)
    /\ UNCHANGED <<target, phase, used>>

Stage(p) ==
    \/ \E s \in Sources : Begin(p, s)
    \/ ReadMarker(p) \/ CountFiles(p) \/ Replace(p)
    \/ \E f \in Files : RemoveFile(p, f)
    \/ RemoveMarker(p) \/ RemoveDir(p) \/ Copy(p) \/ Publish(p)

Serve(p) ==
    \/ Start(p) \/ PassHealth(p) \/ Released(p) \/ Leave(p) \/ Kill(p)
    \/ \E f \in Files : ReleaseFile(p, f)

ServerNext(l) == Bind(l) \/ ServerExit(l) \/ \E f \in Files : Load(l, f)

Next == \/ \E p \in Queues : Stage(p) \/ Serve(p)
        \/ \E l \in 1..used : ServerNext(l)

Spec == Init /\ [][Next]_vars

-----------------------------------------------------------------------------
(* Properties *)

(* Between processes that check, remove and rename the same target without  *)
(* a common lock, the target never holds files of two sources, nor files of *)
(* another source than its marker names.                                    *)
TreeIsOne ==
    /\ \A f, g \in DOMAIN tree : tree[f] = tree[g]
    /\ marker # NoMarker => \A f \in DOMAIN tree : tree[f] = marker.src

(* With one queue: whatever a kill left half removed, half copied or pruned,*)
(* a server is started, and a training command reads its shared input, only *)
(* when the target is the whole tree of the item's own source.              *)
StagedIsWhole ==
    \A p \in Queues :
        pc[p] \in {"start", "health"} \/ (pc[p] = "train" /\ Shared[src[p]])
        => there /\ tree = Whole(src[p])

(* With one queue the model staging of a launch finds the tree its input    *)
(* staging published: the checkpoint is copied once per launch.             *)
CopiedOnce ==
    \A p \in Queues :
        pc[p] \in {"replace", "remove", "copy", "publish"} /\ phase[p] = "model"
        => ~Shared[src[p]]

(* With one queue, past the health check the server of this launch has      *)
(* loaded the whole model of this item: nothing is pruned that it still has *)
(* to read, and it is not an earlier server that answered, unless that one  *)
(* outlived the kill of its process and was there at the launch.  What the  *)
(* health check then passes is that server, whatever it has loaded.         *)
ServedByOwn ==
    \A p \in Queues : pc[p] \in {"release", "train"} =>
        server[own[p]].got = Whole(src[p]) \/ server[own[p]].rival
=============================================================================
