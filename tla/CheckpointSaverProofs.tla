------------------------ MODULE CheckpointSaverProofs ------------------------
(***************************************************************************)
(* Proofs about CheckpointSaver, for any number of saves, any set of shards *)
(* and any number of crashes: with Keep at least 2 the checkpoint the       *)
(* tracker names is never pruned, and a manifest only lists what the remote *)
(* has.                                                                     *)
(***************************************************************************)
EXTENDS CheckpointSaver, FiniteSetTheorems, TLAPS

(* A save in progress has a number. *)
StepInv == step # "train" => cur \in Saves

(* The trainer is at most one save ahead of the tracker, and so are the     *)
(* directories; what is being removed is older than the tracker.            *)
AheadInv ==
    /\ \A d \in dirs : d <= tracker + 1
    /\ \A d \in doomed : d < tracker
    /\ up => cur = (IF step = "shards" THEN tracker + 1 ELSE tracker)
    /\ up /\ step = "shards" => Shards \ todo \subseteq files[cur]

KeepInv == TypeOK /\ StepInv /\ AheadInv /\ LatestIsKept

(* A push has copied what it no longer has left of its list. *)
PushInv ==
    \A n \in Saves : push[n].state \in {"files", "manifest"} =>
        /\ push[n].iter # 0 /\ push[n].listed # {}
        /\ push[n].listed \ push[n].left \subseteq remote[push[n].iter]
        /\ push[n].state = "manifest" => push[n].left = {}

BackedInv == TypeOK /\ StepInv /\ PushInv /\ ManifestIsBacked

States == {"none", "started", "files", "manifest", "over"}
ThreadStates == {"none", "prev", "wait", "prune", "over"}

-----------------------------------------------------------------------------
(* Types *)

LEMMA PushRecords ==
    /\ NoPush \in Push /\ PushOver \in Push
    /\ PushOver.state = "over"
    /\ \A p \in Push, l \in SUBSET Files, s \in States :
          /\ [p EXCEPT !.state = s] \in Push
          /\ [p EXCEPT !.left = l] \in Push
          /\ [p EXCEPT !.state = s].iter = p.iter
          /\ [p EXCEPT !.state = s].listed = p.listed
          /\ [p EXCEPT !.state = s].left = p.left
          /\ [p EXCEPT !.state = s].state = s
          /\ [p EXCEPT !.left = l].iter = p.iter
          /\ [p EXCEPT !.left = l].listed = p.listed
          /\ [p EXCEPT !.left = l].left = l
          /\ [p EXCEPT !.left = l].state = p.state
<1>1. 0 \in 0..MaxSaves
  BY SaveAssumption
<1>2. NoPush \in Push /\ PushOver \in Push /\ PushOver.state = "over"
  BY <1>1 DEF NoPush, PushOver, Push
<1> QED BY <1>2 DEF Push, States

LEMMA LeftRecord ==
    ASSUME NEW p \in Push, NEW l \in SUBSET Files
    PROVE  [p EXCEPT !.left = l] \in Push
BY DEF Push

LEMMA StateRecord ==
    ASSUME NEW p \in Push, NEW s \in States
    PROVE  /\ [p EXCEPT !.state = s].iter = p.iter
           /\ [p EXCEPT !.state = s].listed = p.listed
           /\ [p EXCEPT !.state = s].left = p.left
           /\ [p EXCEPT !.state = s].state = s
BY DEF Push, States

LEMMA TypeStep ==
    ASSUME TypeOK, StepInv, [Next]_vars
    PROVE  TypeOK' /\ StepInv'
<1> USE SaveAssumption DEF Saves
<1>1. CASE BeginSave
  <2>1. NextIter \in Saves
    BY <1>1 DEF BeginSave, NextIter, TypeOK
  <2> QED BY <1>1, <2>1 DEF BeginSave, TypeOK, StepInv, store
<1>2. ASSUME NEW f \in Shards, WriteShard(f) PROVE TypeOK' /\ StepInv'
  BY <1>2 DEF WriteShard, TypeOK, StepInv, Files, store
<1>3. CASE Track
  BY <1>3 DEF Track, TypeOK, StepInv, store
<1>4. CASE FinishSave
  <2>1. cur \in Saves
    BY <1>4 DEF FinishSave, StepInv
  <2> QED BY <1>4, <2>1 DEF FinishSave, TypeOK, StepInv, Files, store
<1>5. CASE Crash
  <2>1. push' \in [Saves -> Push]
    <3>1. NoPush \in Push /\ PushOver \in Push
      BY PushRecords
    <3>2. CASE UNCHANGED push
      BY <3>2 DEF TypeOK
    <3>3. CASE push' = [n \in Saves |-> IF push[n].state = "none" THEN NoPush ELSE PushOver]
      BY <3>1, <3>3
    <3> QED BY <1>5, <3>2, <3>3 DEF Crash
  <2>2. /\ thread' \in [Saves -> ThreadStates] /\ prev' \in [Saves -> 0..MaxSaves]
        /\ pushProc' \in 0..MaxSaves /\ doomed' \in SUBSET Saves
        /\ crashes' \in Nat /\ up' \in BOOLEAN
    <3>1. 0 \in 0..MaxSaves
      OBVIOUS
    <3>2. thread' \in [Saves -> ThreadStates]
      BY <1>5 DEF Crash, TypeOK, ThreadStates
    <3>3. prev' \in [Saves -> 0..MaxSaves] /\ pushProc' \in 0..MaxSaves
      BY <1>5, <3>1 DEF Crash
    <3>4. doomed' \in SUBSET Saves
      <4>1. doomed' = doomed \/ doomed' = {}
        BY <1>5 DEF Crash
      <4> QED BY <4>1 DEF TypeOK
    <3>5. crashes' \in Nat /\ up' \in BOOLEAN
      <4>1. crashes \in Nat /\ crashes > 0 /\ crashes' = crashes - 1 /\ up' = FALSE
        BY <1>5 DEF Crash, TypeOK
      <4>2. crashes' \in Nat
        BY <4>1
      <4> QED BY <4>1, <4>2
    <3> QED BY <3>2, <3>3, <3>4, <3>5
  <2>3. UNCHANGED <<step, cur, todo, dirs, files, tracker, remote, rtracker, manifest>>
    BY <1>5 DEF Crash, disk, store
  <2> QED BY <2>1, <2>2, <2>3 DEF TypeOK, StepInv, ThreadStates
<1>6. CASE Restart
  BY <1>6 DEF Restart, TypeOK, StepInv, disk, store
<1>7. ASSUME NEW n \in Saves, Thread(n) PROVE TypeOK' /\ StepInv'
  <2>1. CASE ReadPrev(n)
    BY <2>1 DEF ReadPrev, TypeOK, StepInv, trainer, disk, store
  <2>2. CASE Fire(n)
    <3>1. push' \in [Saves -> Push]
      BY <2>2, PushRecords DEF Fire, TypeOK, States
    <3> QED BY <2>2, <3>1 DEF Fire, TypeOK, StepInv, trainer, disk, store
  <2>3. CASE Prune(n)
    BY <2>3 DEF Prune, Pruned, Old, TypeOK, StepInv, trainer, disk, store
  <2> QED BY <1>7, <2>1, <2>2, <2>3 DEF Thread
<1>8. ASSUME NEW n \in Saves, Remove(n) PROVE TypeOK' /\ StepInv'
  BY <1>8 DEF Remove, TypeOK, StepInv, trainer, store
<1>9. ASSUME NEW n \in Saves, Pusher(n) PROVE TypeOK' /\ StepInv'
  <2>1. CASE PushList(n)
    <3>1. push' \in [Saves -> Push]
      <4>1. CASE Latest = 0 \/ files[Latest] = {}
        BY <2>1, <4>1, PushRecords DEF PushList, TypeOK
      <4>2. CASE ~(Latest = 0 \/ files[Latest] = {})
        <5>1. Latest \in Saves /\ files[Latest] \in SUBSET Files
          BY <4>2 DEF Latest, TypeOK
        <5>2. [state |-> "files", iter |-> Latest,
               listed |-> files[Latest], left |-> files[Latest]] \in Push
          BY <5>1 DEF Push
        <5> QED BY <2>1, <4>2, <5>2 DEF PushList, TypeOK
      <4> QED BY <4>1, <4>2
    <3> QED BY <2>1, <3>1 DEF PushList, TypeOK, StepInv, trainer, disk, store
  <2>2. CASE PushFile(n)
    <3>1. PICK f \in push[n].left :
            \/ /\ remote' = [remote EXCEPT ![push[n].iter] = @ \cup {f}]
               /\ push' = [push EXCEPT ![n].left = @ \ {f}]
            \/ push' = [push EXCEPT ![n] = PushOver] /\ UNCHANGED remote
      BY <2>2 DEF PushFile
    <3>2. push[n] \in Push /\ f \in Files /\ push[n].left \ {f} \in SUBSET Files
      BY DEF TypeOK, Push
    <3>3. push' \in [Saves -> Push]
      <4>1. PushOver \in Push /\ [push[n] EXCEPT !.left = push[n].left \ {f}] \in Push
        BY <3>2, PushRecords, LeftRecord
      <4>2. \/ push' = [push EXCEPT ![n] = [push[n] EXCEPT !.left = push[n].left \ {f}]]
            \/ push' = [push EXCEPT ![n] = PushOver]
        BY <3>1 DEF TypeOK
      <4> QED BY <4>1, <4>2 DEF TypeOK
    <3>4. remote' \in [Saves -> SUBSET Files]
      BY <3>1, <3>2 DEF TypeOK
    <3> QED BY <2>2, <3>3, <3>4 DEF PushFile, TypeOK, StepInv, trainer, disk
  <2>3. CASE PushTracker(n)
    <3>1. push' \in [Saves -> Push]
      BY <2>3, PushRecords DEF PushTracker, TypeOK, States
    <3> QED BY <2>3, <3>1 DEF PushTracker, TypeOK, StepInv, trainer, disk
  <2>4. CASE PushManifest(n)
    <3>1. push' \in [Saves -> Push] /\ push[n] \in Push
      BY <2>4, PushRecords DEF PushManifest, TypeOK
    <3>2. manifest' \in Manifest
      BY <2>4, <3>1 DEF PushManifest, Push, Manifest
    <3> QED BY <2>4, <3>1, <3>2 DEF PushManifest, TypeOK, StepInv, trainer, disk
  <2> QED BY <1>9, <2>1, <2>2, <2>3, <2>4 DEF Pusher
<1>10. CASE UNCHANGED vars
  BY <1>10 DEF vars, TypeOK, StepInv, trainer, disk, store
<1> QED BY <1>1, <1>2, <1>3, <1>4, <1>5, <1>6, <1>7, <1>8, <1>9, <1>10 DEF Next

-----------------------------------------------------------------------------
(* Keeping the latest checkpoint *)

(* With Keep at least 2 the shell only removes what is older than the        *)
(* tracker: at most one directory is newer.                                  *)
LEMMA PrunedIsOlder ==
    ASSUME Keep >= 2, TypeOK, AheadInv, NEW d \in Pruned
    PROVE  d \in dirs /\ d < tracker
<1> DEFINE newer == {e \in dirs : e > d}
<1>1. d \in dirs /\ Cardinality(newer) >= Keep
  BY DEF Pruned, Old
<1>2. ASSUME ~(d < tracker) PROVE FALSE
  <2>1. d \in Nat /\ tracker \in Nat /\ \A e \in dirs : e \in Nat
    BY <1>1 DEF TypeOK, Saves
  <2>2. newer \subseteq {tracker + 1}
    BY <1>2, <2>1 DEF AheadInv
  <2>3. IsFiniteSet({tracker + 1}) /\ Cardinality({tracker + 1}) = 1
    BY FS_Singleton
  <2>4. IsFiniteSet(newer) /\ Cardinality(newer) <= 1
    BY <2>2, <2>3, FS_Subset
  <2>5. Cardinality(newer) \in Nat
    BY <2>4, FS_CardinalityType
  <2> HIDE DEF newer
  <2> QED BY <1>1, <2>4, <2>5, KeepAssumption
<1> QED BY <1>1, <1>2

LEMMA KeepStep ==
    ASSUME Keep >= 2, KeepInv, [Next]_vars
    PROVE  KeepInv'
<1>1. TypeOK' /\ StepInv'
  BY TypeStep DEF KeepInv
<1>2. AheadInv' /\ LatestIsKept'
  <2> USE SaveAssumption DEF KeepInv, Saves
  <2>1. CASE BeginSave
    BY <2>1 DEF BeginSave, NextIter, TypeOK, AheadInv, LatestIsKept
  <2>2. ASSUME NEW f \in Shards, WriteShard(f) PROVE AheadInv' /\ LatestIsKept'
    BY <2>2 DEF WriteShard, TypeOK, StepInv, AheadInv, LatestIsKept
  <2>3. CASE Track
    BY <2>3 DEF Track, TypeOK, AheadInv, LatestIsKept
  <2>4. CASE FinishSave
    BY <2>4 DEF FinishSave, TypeOK, StepInv, AheadInv, LatestIsKept
  <2>5. CASE Crash
    BY <2>5 DEF Crash, TypeOK, AheadInv, LatestIsKept, disk
  <2>6. CASE Restart
    BY <2>6 DEF Restart, TypeOK, AheadInv, LatestIsKept, disk
  <2>7. ASSUME NEW n \in Saves, Thread(n) PROVE AheadInv' /\ LatestIsKept'
    <3>1. CASE ReadPrev(n) \/ Fire(n)
      BY <3>1 DEF ReadPrev, Fire, AheadInv, LatestIsKept, trainer, disk
    <3>2. CASE Prune(n)
      <4>1. \A d \in Pruned : d < tracker
        BY PrunedIsOlder
      <4> QED BY <3>2, <4>1 DEF Prune, AheadInv, LatestIsKept, trainer, disk
    <3> QED BY <2>7, <3>1, <3>2 DEF Thread
  <2>8. ASSUME NEW n \in Saves, Remove(n) PROVE AheadInv' /\ LatestIsKept'
    <3>1. n < tracker /\ n \in Nat /\ tracker \in Nat
      BY <2>8 DEF Remove, AheadInv, TypeOK
    <3>2. UNCHANGED <<up, step, cur, todo, tracker>>
      BY <2>8 DEF Remove, trainer
    <3>3. \A m \in Saves : m # n => files'[m] = files[m]
      BY <2>8 DEF Remove, TypeOK
    <3>4. dirs' \subseteq dirs /\ doomed' \subseteq doomed
      BY <2>8 DEF Remove
    <3>5. LatestIsKept'
      BY <3>1, <3>2, <3>3 DEF LatestIsKept, TypeOK
    <3>6. AheadInv'
      BY <3>1, <3>2, <3>3, <3>4 DEF AheadInv, StepInv, TypeOK
    <3> QED BY <3>5, <3>6
  <2>9. ASSUME NEW n \in Saves, Pusher(n) PROVE AheadInv' /\ LatestIsKept'
    BY <2>9 DEF Pusher, PushList, PushFile, PushTracker, PushManifest,
                AheadInv, LatestIsKept, trainer, disk
  <2>10. CASE UNCHANGED vars
    BY <2>10 DEF vars, AheadInv, LatestIsKept, trainer, disk
  <2> QED BY <2>1, <2>2, <2>3, <2>4, <2>5, <2>6, <2>7, <2>8, <2>9, <2>10 DEF Next
<1> QED BY <1>1, <1>2 DEF KeepInv

-----------------------------------------------------------------------------
(* The manifest *)

(* A step that leaves the push processes and the remote alone. *)
LEMMA BackedFrame ==
    ASSUME PushInv, ManifestIsBacked, UNCHANGED <<push, remote, manifest>>
    PROVE  PushInv' /\ ManifestIsBacked'
BY DEF PushInv, ManifestIsBacked

(* A step that changes one push, or ends pushes, and lets the remote grow.  *)
LEMMA PushStep ==
    ASSUME TypeOK, PushInv, ManifestIsBacked, TypeOK',
           \A m \in Saves : remote[m] \subseteq remote'[m],
           NEW n \in Saves,
           \A m \in Saves \ {n} : push'[m] = push[m],
           push'[n].state \in {"files", "manifest"} =>
              /\ push'[n].iter # 0 /\ push'[n].listed # {}
              /\ push'[n].listed \ push'[n].left \subseteq remote'[push'[n].iter]
              /\ push'[n].state = "manifest" => push'[n].left = {},
           \/ UNCHANGED manifest
           \/ /\ push[n].state = "manifest"
              /\ manifest' = [iter |-> push[n].iter, files |-> push[n].listed]
    PROVE  PushInv' /\ ManifestIsBacked'
<1>1. PushInv'
  <2> SUFFICES ASSUME NEW m \in Saves, m # n, push[m].state \in {"files", "manifest"}
               PROVE  /\ push[m].iter # 0 /\ push[m].listed # {}
                      /\ push[m].listed \ push[m].left \subseteq remote'[push[m].iter]
                      /\ push[m].state = "manifest" => push[m].left = {}
    BY DEF PushInv
  <2>1. push[m].iter \in Saves
    <3>1. push[m] \in Push
      BY DEF TypeOK
    <3>2. push[m].iter \in 0..MaxSaves
      BY <3>1 DEF Push
    <3>3. push[m].iter # 0
      BY DEF PushInv
    <3> QED BY <3>2, <3>3, SaveAssumption DEF Saves
  <2> QED BY <2>1 DEF PushInv
<1>2. ManifestIsBacked'
  <2>1. CASE UNCHANGED manifest
    <3>1. manifest.iter # 0 => manifest.iter \in Saves
      BY DEF TypeOK, Manifest, Saves
    <3> QED BY <2>1, <3>1 DEF ManifestIsBacked
  <2>2. CASE /\ push[n].state = "manifest"
             /\ manifest' = [iter |-> push[n].iter, files |-> push[n].listed]
    <3>1. push[n].iter \in Saves
      BY <2>2 DEF PushInv, TypeOK, Push, Saves
    <3> QED BY <2>2, <3>1 DEF PushInv, ManifestIsBacked
  <2> QED BY <2>1, <2>2
<1> QED BY <1>1, <1>2

LEMMA BackedStep ==
    ASSUME BackedInv, [Next]_vars
    PROVE  BackedInv'
<1> USE DEF BackedInv
<1>1. TypeOK' /\ StepInv'
  BY TypeStep
<1>2. CASE \/ BeginSave \/ Track \/ FinishSave \/ Restart \/ UNCHANGED vars
           \/ \E f \in Shards : WriteShard(f)
           \/ \E n \in Saves : ReadPrev(n) \/ Prune(n) \/ Remove(n)
  <2>1. UNCHANGED <<push, remote, manifest>>
    BY <1>2 DEF BeginSave, Track, FinishSave, Restart, vars, WriteShard, ReadPrev,
                Prune, Remove, store
  <2> QED BY <1>1, <2>1, BackedFrame
<1>3. CASE Crash
  <2>1. UNCHANGED <<remote, manifest>>
    BY <1>3 DEF Crash, store
  <2>2. NoPush.state = "none" /\ PushOver.state = "over"
    BY PushRecords DEF NoPush
  <2>3. \A n \in Saves : push'[n].state \in {"files", "manifest"} => push'[n] = push[n]
    BY <1>3, <2>2 DEF Crash
  <2> QED BY <1>1, <2>1, <2>3 DEF PushInv, ManifestIsBacked
<1>4. ASSUME NEW n \in Saves, Fire(n) PROVE PushInv' /\ ManifestIsBacked'
  <2>1. /\ push' = [push EXCEPT ![n] = [push[n] EXCEPT !.state = "started"]]
        /\ UNCHANGED <<remote, manifest>>
    BY <1>4 DEF Fire, store, TypeOK
  <2>2. push'[n].state = "started"
    BY <2>1, PushRecords DEF TypeOK, States
  <2>3. \A m \in Saves \ {n} : push'[m] = push[m]
    BY <2>1 DEF TypeOK
  <2> QED BY <1>1, <2>1, <2>2, <2>3, PushStep
<1>5. ASSUME NEW n \in Saves, PushList(n) PROVE PushInv' /\ ManifestIsBacked'
  <2>1. UNCHANGED <<remote, manifest>> /\ \A m \in Saves \ {n} : push'[m] = push[m]
    BY <1>5 DEF PushList, store, TypeOK
  <2>2. \/ push'[n] = PushOver
        \/ /\ Latest # 0 /\ files[Latest] # {}
           /\ push'[n] = [state |-> "files", iter |-> Latest,
                          listed |-> files[Latest], left |-> files[Latest]]
    BY <1>5 DEF PushList, TypeOK
  <2>3. push'[n].state \in {"files", "manifest"} =>
          /\ push'[n].iter # 0 /\ push'[n].listed # {}
          /\ push'[n].listed \ push'[n].left = {}
          /\ push'[n].state = "files"
    BY <2>2, PushRecords
  <2> QED BY <1>1, <2>1, <2>3, PushStep
<1>6. ASSUME NEW n \in Saves, PushFile(n) PROVE PushInv' /\ ManifestIsBacked'
  <2>1. PICK f \in push[n].left :
          \/ /\ remote' = [remote EXCEPT ![push[n].iter] = @ \cup {f}]
             /\ push' = [push EXCEPT ![n].left = @ \ {f}]
          \/ push' = [push EXCEPT ![n] = PushOver] /\ UNCHANGED remote
    BY <1>6 DEF PushFile
  <2>2. /\ push[n] \in Push /\ push[n].state = "files" /\ push[n].iter \in Saves
        /\ f \in Files /\ UNCHANGED manifest
    BY <1>6 DEF PushFile, PushInv, TypeOK, Push, Saves
  <2>3. CASE /\ remote' = [remote EXCEPT ![push[n].iter] = @ \cup {f}]
             /\ push' = [push EXCEPT ![n].left = @ \ {f}]
    <3>1. push' = [push EXCEPT ![n] = [push[n] EXCEPT !.left = @ \ {f}]]
      BY <2>3 DEF TypeOK
    <3>2. push'[n] = [push[n] EXCEPT !.left = push[n].left \ {f}]
      BY <2>2, <3>1 DEF TypeOK, Push
    <3>3. push[n].left \ {f} \in SUBSET Files
      BY <2>2 DEF Push
    <3>4. /\ push'[n].iter = push[n].iter /\ push'[n].listed = push[n].listed
          /\ push'[n].left = push[n].left \ {f} /\ push'[n].state = "files"
      BY <2>2, <3>2, <3>3, PushRecords
    <3>5. /\ \A m \in Saves : remote[m] \subseteq remote'[m]
          /\ remote'[push[n].iter] = remote[push[n].iter] \cup {f}
          /\ \A m \in Saves \ {n} : push'[m] = push[m]
      BY <2>2, <2>3, <3>1 DEF TypeOK
    <3>6. push'[n].listed \ push'[n].left \subseteq remote'[push'[n].iter]
      BY <2>2, <3>4, <3>5 DEF PushInv
    <3>7. push'[n].iter # 0 /\ push'[n].listed # {}
      BY <2>2, <3>4 DEF PushInv
    <3> QED BY <1>1, <2>2, <3>4, <3>5, <3>6, <3>7, PushStep
  <2>4. CASE push' = [push EXCEPT ![n] = PushOver] /\ UNCHANGED remote
    <3>1. push'[n].state = "over" /\ \A m \in Saves \ {n} : push'[m] = push[m]
      BY <2>4, PushRecords DEF TypeOK
    <3> QED BY <1>1, <2>2, <2>4, <3>1, PushStep
  <2> QED BY <2>1, <2>3, <2>4
<1>7. ASSUME NEW n \in Saves, PushTracker(n) PROVE PushInv' /\ ManifestIsBacked'
  <2>1. /\ push[n].state = "files" /\ push[n].left = {} /\ push[n] \in Push
        /\ push' = [push EXCEPT ![n] = [push[n] EXCEPT !.state = "manifest"]]
        /\ UNCHANGED <<remote, manifest>>
    BY <1>7 DEF PushTracker, Copied, TypeOK
  <2>2. /\ push'[n] = [push[n] EXCEPT !.state = "manifest"]
        /\ \A m \in Saves \ {n} : push'[m] = push[m]
    BY <2>1 DEF TypeOK
  <2>3. /\ push'[n].iter = push[n].iter /\ push'[n].listed = push[n].listed
        /\ push'[n].left = push[n].left /\ push'[n].state = "manifest"
    <3>1. "manifest" \in States
      BY DEF States
    <3>2. /\ [push[n] EXCEPT !.state = "manifest"].iter = push[n].iter
          /\ [push[n] EXCEPT !.state = "manifest"].listed = push[n].listed
          /\ [push[n] EXCEPT !.state = "manifest"].left = push[n].left
          /\ [push[n] EXCEPT !.state = "manifest"].state = "manifest"
      BY <2>1, <3>1, StateRecord
    <3> QED BY <2>2, <3>2
  <2>4. /\ push'[n].iter # 0 /\ push'[n].listed # {}
        /\ push'[n].listed \ push'[n].left \subseteq remote'[push'[n].iter]
    BY <2>1, <2>3 DEF PushInv
  <2> QED BY <1>1, <2>1, <2>2, <2>3, <2>4, PushStep
<1>8. ASSUME NEW n \in Saves, PushManifest(n) PROVE PushInv' /\ ManifestIsBacked'
  <2>1. /\ push[n].state = "manifest"
        /\ manifest' = [iter |-> push[n].iter, files |-> push[n].listed]
        /\ push' = [push EXCEPT ![n] = PushOver] /\ UNCHANGED remote
    BY <1>8 DEF PushManifest
  <2>2. push'[n].state = "over" /\ \A m \in Saves \ {n} : push'[m] = push[m]
    BY <2>1, PushRecords DEF TypeOK
  <2> QED BY <1>1, <2>1, <2>2, PushStep
<1> QED
  BY <1>1, <1>2, <1>3, <1>4, <1>5, <1>6, <1>7, <1>8 DEF Next, Thread, Pusher

-----------------------------------------------------------------------------
(* Theorems *)

LEMMA SaverInit == Init => KeepInv /\ BackedInv
<1> SUFFICES ASSUME Init PROVE KeepInv /\ BackedInv
  OBVIOUS
<1>1. TypeOK
  BY SaveAssumption, PushRecords DEF Init, TypeOK, Manifest
<1>2. StepInv /\ AheadInv /\ LatestIsKept /\ ManifestIsBacked
  BY DEF Init, StepInv, AheadInv, LatestIsKept, ManifestIsBacked
<1>3. PushInv
  BY DEF Init, PushInv, NoPush
<1> QED BY <1>1, <1>2, <1>3 DEF KeepInv, BackedInv

(* All reachable states of the saver are well typed. *)
THEOREM SaverTypes == Spec => []TypeOK
<1>1. BackedInv => TypeOK
  BY DEF BackedInv
<1> QED BY <1>1, SaverInit, BackedStep, PTL DEF Spec

(* NLA_KEEP_LOCAL of at least 2 is enough for the prune of save_model never  *)
(* to touch the checkpoint the tracker names, however late it runs.          *)
THEOREM LatestSurvives == Keep >= 2 => (Spec => []LatestIsKept)
<1> SUFFICES ASSUME Keep >= 2 PROVE Spec => []LatestIsKept
  OBVIOUS
<1>1. Init => KeepInv
  BY SaverInit
<1>2. KeepInv /\ [Next]_vars => KeepInv'
  BY KeepStep
<1>3. KeepInv => LatestIsKept
  BY DEF KeepInv
<1> QED BY <1>1, <1>2, <1>3, PTL DEF Spec

(* The manifest, written last, only lists files the remote has: crashes and  *)
(* prunes in the middle of a push do not truncate a published checkpoint.    *)
THEOREM ManifestIsHonest == Spec => []ManifestIsBacked
<1>1. BackedInv => ManifestIsBacked
  BY DEF BackedInv
<1> QED BY <1>1, SaverInit, BackedStep, PTL DEF Spec
=============================================================================
