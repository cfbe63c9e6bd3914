-------------------------- MODULE InputStagingProofs --------------------------
(***************************************************************************)
(* Proofs about InputStaging.  For any number of queues: its typing, and    *)
(* that the shared target never mixes sources.  For one queue: what is      *)
(* served and read is the whole checkpoint of the item.                     *)
(***************************************************************************)
EXTENDS InputStaging, FiniteSetTheorems, TLAPS

-----------------------------------------------------------------------------
(* Trees *)

LEMMA PartIsTree ==
    ASSUME NEW s \in Sources, NEW D \in SUBSET Files
    PROVE  Part(s, D) \in Tree
BY DEF Part, Tree

LEMMA EmptyIsTree == Empty \in Tree /\ DOMAIN Empty = {}
BY DEF Empty, Part, Tree

(* A tree is a function from some of the files to sources. *)
LEMMA TreeShape ==
    ASSUME NEW t \in Tree
    PROVE  /\ DOMAIN t \in SUBSET Files
           /\ t = [f \in DOMAIN t |-> t[f]]
           /\ \A f \in DOMAIN t : t[f] \in Sources
BY DEF Tree

LEMMA DropIsTree ==
    ASSUME NEW t \in Tree, NEW f
    PROVE  /\ Drop(t, f) \in Tree
           /\ DOMAIN Drop(t, f) \subseteq DOMAIN t
           /\ \A g \in DOMAIN Drop(t, f) : Drop(t, f)[g] = t[g]
<1> DEFINE D == DOMAIN t \ {f}
<1>1. D \in SUBSET Files /\ Drop(t, f) \in [D -> Sources]
  BY TreeShape DEF Drop
<1>2. Drop(t, f) \in Tree
  BY <1>1 DEF Tree
<1> QED BY <1>2 DEF Drop

LEMMA AddIsTree ==
    ASSUME NEW t \in Tree, NEW f \in Files, NEW s \in Sources
    PROVE  [g \in DOMAIN t \cup {f} |-> IF g = f THEN s ELSE t[g]] \in Tree
<1> DEFINE D == DOMAIN t \cup {f}
           u == [g \in D |-> IF g = f THEN s ELSE t[g]]
<1>1. D \in SUBSET Files /\ u \in [D -> Sources]
  BY TreeShape
<1> QED BY <1>1 DEF Tree

(* Part of a source with the signature of the whole of it is the whole. *)
LEMMA SameSignature ==
    ASSUME NEW s \in Sources, NEW t \in Tree,
           \A f \in DOMAIN t : t[f] = s /\ f \in Holds[s],
           Signature(t) = Signature(Whole(s))
    PROVE  t = Whole(s)
<1>1. IsFiniteSet(Holds[s])
  BY SourceAssumption, FileAssumption, FS_Subset
<1>2. DOMAIN Whole(s) = Holds[s]
  BY DEF Whole, Part
<1>3. Cardinality(DOMAIN t) = Cardinality(Holds[s])
  BY <1>2 DEF Signature
<1>4. DOMAIN t \in SUBSET Holds[s]
  OBVIOUS
<1>5. DOMAIN t = Holds[s]
  BY <1>1, <1>3, <1>4, FS_Subset
<1> QED BY <1>5, TreeShape DEF Whole, Part

-----------------------------------------------------------------------------
(* Typing *)

(* A process at work has a source. *)
HasSource == \A p \in Queues : pc[p] # "off" => src[p] \in Sources

Typed == TypeOK /\ HasSource

LEMMA TypedInit == Init => Typed
<1> SUFFICES ASSUME Init PROVE Typed
  OBVIOUS
<1>1. tree \in Tree /\ temp \in [Queues -> Tree]
  BY EmptyIsTree DEF Init
<1>2. 1..used = {} /\ DOMAIN server = {}
  BY DEF Init
<1>3. used \in 0..MaxLaunches /\ crashes \in 0..MaxCrashes /\ own \in [Queues -> 0..MaxLaunches]
  BY LaunchAssumption DEF Init
<1>4. marker \in Marker
  BY DEF Init, Marker, NoMarker, Phases
<1>5. /\ there \in BOOLEAN /\ pc \in [Queues -> Steps] /\ phase \in [Queues -> Phases]
      /\ src \in [Queues -> Sources \cup {None}] /\ HasSource
  BY DEF Init, Steps, Phases, HasSource
<1> QED BY <1>1, <1>2, <1>3, <1>4, <1>5 DEF Typed, TypeOK

LEMMA StoppedTyped ==
    ASSUME Typed, NEW p \in Queues
    PROVE  /\ DOMAIN WithoutOwn(p) = 1..used
           /\ \A l \in 1..used : WithoutOwn(p)[l] \in Server
<1> SUFFICES ASSUME NEW l \in 1..used PROVE WithoutOwn(p)[l] \in Server
  BY DEF WithoutOwn
<1>1. server[l] \in Server
  BY DEF Typed, TypeOK
<1> QED BY <1>1, EmptyIsTree DEF WithoutOwn, Server

LEMMA OrphanedTyped ==
    ASSUME Typed, NEW p \in Queues
    PROVE  /\ DOMAIN Orphaned(p) = 1..used
           /\ \A l \in 1..used : Orphaned(p)[l] \in Server
<1> SUFFICES ASSUME NEW l \in 1..used PROVE Orphaned(p)[l] \in Server
  BY DEF Orphaned
<1>1. server[l] \in Server
  BY DEF Typed, TypeOK
<1> QED BY <1>1 DEF Orphaned, Server

LEMMA TypedStage ==
    ASSUME Typed, NEW p \in Queues, Stage(p)
    PROVE  Typed'
<1> USE DEF Typed, TypeOK, HasSource, Goto, target, Staged
<1>1. ASSUME NEW s \in Sources, Begin(p, s) PROVE Typed'
  BY <1>1 DEF Begin, Phases, Steps
<1>2. CASE ReadMarker(p)
  BY <1>2 DEF ReadMarker, Steps
<1>3. CASE CountFiles(p)
  BY <1>3 DEF CountFiles, Steps, Phases
<1>4. CASE Replace(p)
  BY <1>4 DEF Replace, Steps
<1>5. ASSUME NEW f \in Files, RemoveFile(p, f) PROVE Typed'
  BY <1>5, DropIsTree DEF RemoveFile
<1>6. CASE RemoveMarker(p)
  BY <1>6 DEF RemoveMarker, Marker, NoMarker, Phases
<1>7. CASE RemoveDir(p)
  BY <1>7 DEF RemoveDir, Steps
<1>8. CASE Copy(p)
  <2>1. PICK D \in SUBSET Holds[src[p]] : temp' = [temp EXCEPT ![p] = Part(src[p], D)]
    BY <1>8 DEF Copy
  <2>2. src[p] \in Sources /\ D \in SUBSET Files
    BY <1>8, SourceAssumption DEF Copy
  <2>3. temp' \in [Queues -> Tree]
    BY <2>1, <2>2, PartIsTree
  <2> QED BY <1>8, <2>3 DEF Copy, Steps
<1>9. CASE Publish(p)
  <2>1. marker' \in Marker
    BY <1>9 DEF Publish, Marker
  <2>2. tree' \in Tree /\ temp' \in [Queues -> Tree]
    BY <1>9, EmptyIsTree DEF Publish
  <2> QED BY <1>9, <2>1, <2>2 DEF Publish, Steps, Phases
<1> QED BY <1>1, <1>2, <1>3, <1>4, <1>5, <1>6, <1>7, <1>8, <1>9 DEF Stage

LEMMA TypedServe ==
    ASSUME Typed, NEW p \in Queues, Serve(p)
    PROVE  Typed'
<1> USE DEF Typed, TypeOK, HasSource, Goto, target
<1>1. CASE Start(p)
  <2> DEFINE new == [state |-> "loading", port |-> p, src |-> src[p], got |-> Empty,
                     orphan |-> FALSE, rival |-> Survivors(p) # {}]
  <2>1. new \in Server
    BY <1>1, EmptyIsTree DEF Start, Server
  <2>2. used' \in 0..MaxLaunches /\ used + 1 \in 0..MaxLaunches
    BY <1>1, LaunchAssumption DEF Start
  <2>3. \A l \in 1..used' : server'[l] \in Server
    BY <1>1, <2>1 DEF Start
  <2> QED BY <1>1, <2>2, <2>3 DEF Start, Steps
<1>2. CASE PassHealth(p)
  BY <1>2 DEF PassHealth, Steps
<1>3. CASE Released(p)
  BY <1>3 DEF Released, Steps
<1>4. CASE Leave(p)
  BY <1>4, StoppedTyped, EmptyIsTree, LaunchAssumption DEF Leave, Ended, Stopped, Steps
<1>5. CASE Kill(p)
  <2>0. DOMAIN Orphaned(p) = 1..used /\ \A l \in 1..used : Orphaned(p)[l] \in Server
    BY OrphanedTyped
  <2>1. DOMAIN server' = 1..used /\ \A l \in 1..used : server'[l] \in Server
    BY <1>5, <2>0, StoppedTyped DEF Kill
  <2>2. crashes' \in 0..MaxCrashes
    BY <1>5, LaunchAssumption DEF Kill
  <2> QED BY <1>5, <2>1, <2>2, EmptyIsTree, LaunchAssumption DEF Kill, Ended, Steps
<1>6. ASSUME NEW f \in Files, ReleaseFile(p, f) PROVE Typed'
  BY <1>6, DropIsTree DEF ReleaseFile
<1> QED BY <1>1, <1>2, <1>3, <1>4, <1>5, <1>6 DEF Serve

LEMMA TypedServer ==
    ASSUME Typed, NEW l \in 1..used, ServerNext(l)
    PROVE  Typed'
<1> USE DEF Typed, TypeOK, HasSource, target
<1>0. server[l] \in Server
  OBVIOUS
<1>1. CASE Bind(l)
  BY <1>0, <1>1 DEF Bind, Server
<1>2. CASE ServerExit(l)
  BY <1>0, <1>2 DEF ServerExit, Server
<1>3. ASSUME NEW f \in Files, Load(l, f) PROVE Typed'
  <2>1. server[l].got \in Tree
    BY <1>0 DEF Server
  <2>2. f \in DOMAIN tree => With(server[l].got, f) \in Tree
    BY <2>1, AddIsTree, TreeShape DEF With
  <2>3. server'[l] \in Server
    BY <1>0, <1>3, <2>2 DEF Load, Server
  <2> QED BY <1>3, <2>3 DEF Load
<1> QED BY <1>1, <1>2, <1>3 DEF ServerNext

LEMMA TypedStep == Typed /\ [Next]_vars => Typed'
<1> SUFFICES ASSUME Typed, [Next]_vars PROVE Typed'
  OBVIOUS
<1>1. CASE UNCHANGED vars
  BY <1>1 DEF vars, Typed, TypeOK, HasSource
<1> QED BY <1>1, TypedStage, TypedServe, TypedServer DEF Next

(* Every state has its type, for any number of queues, sources and files. *)
THEOREM Typing == Spec => []TypeOK
<1>1. Spec => []Typed
  BY TypedInit, TypedStep, PTL DEF Spec
<1> QED BY <1>1, PTL DEF Typed

-----------------------------------------------------------------------------
(* One source, however many queues stage into the target *)

(* The files of a tree are files of source s, with its content. *)
From(t, s) == \A f \in DOMAIN t : t[f] = s /\ f \in Holds[s]

TempsOwn ==
    \A p \in Queues :
        /\ From(temp[p], src[p])
        /\ pc[p] = "off" => DOMAIN temp[p] = {}

TargetOne ==
    /\ marker = NoMarker \/ marker.src \in Sources
    /\ \A f, g \in DOMAIN tree : tree[f] = tree[g]
    /\ \A f \in DOMAIN tree : f \in Holds[tree[f]]
    /\ marker # NoMarker => From(tree, marker.src)

OneInv == TempsOwn /\ TargetOne

LEMMA DropKeepsOne ==
    ASSUME TargetOne, NEW f, tree \in Tree, tree' = Drop(tree, f), UNCHANGED marker
    PROVE  TargetOne'
BY DropIsTree DEF TargetOne, From

LEMMA OneStep == Typed /\ OneInv /\ [Next]_vars => OneInv'
<1> SUFFICES ASSUME Typed, OneInv, [Next]_vars PROVE OneInv'
  OBVIOUS
<1> USE DEF OneInv, target
<1>0. tree \in Tree /\ DOMAIN Empty = {}
  BY EmptyIsTree DEF Typed, TypeOK
<1>1. ASSUME UNCHANGED <<tree, marker, temp, src>>,
             \A q \in Queues : pc'[q] = "off" => pc[q] = "off"
      PROVE  OneInv'
  BY <1>1 DEF TempsOwn, TargetOne, From
<1>2. ASSUME NEW p \in Queues, Ended(p), UNCHANGED <<tree, marker>> PROVE OneInv'
  <2>1. TempsOwn'
    BY <1>0, <1>2 DEF Typed, TypeOK, TempsOwn, From, Ended
  <2> QED BY <1>2, <2>1 DEF TargetOne, From
<1>3. ASSUME NEW p \in Queues, NEW f, UNCHANGED <<marker, pc, temp, src>>, tree' = Drop(tree, f)
      PROVE  OneInv'
  BY <1>0, <1>3, DropKeepsOne DEF TempsOwn, From
<1>4. ASSUME NEW p \in Queues, NEW s \in Sources, Begin(p, s) PROVE OneInv'
  <2>1. TempsOwn'
    BY <1>4 DEF Begin, Goto, TempsOwn, From, Typed, TypeOK
  <2> QED BY <1>4, <2>1 DEF Begin, TargetOne, From
<1>5. ASSUME NEW p \in Queues, RemoveMarker(p) PROVE OneInv'
  BY <1>5 DEF RemoveMarker, TempsOwn, TargetOne, From
<1>6. ASSUME NEW p \in Queues, Copy(p) PROVE OneInv'
  <2>1. PICK D \in SUBSET Holds[src[p]] : temp' = [temp EXCEPT ![p] = Part(src[p], D)]
    BY <1>6 DEF Copy
  <2>2. From(Part(src[p], D), src[p])
    BY DEF From, Part
  <2>3. TempsOwn'
    BY <1>6, <2>1, <2>2 DEF Typed, TypeOK, TempsOwn, Copy, Goto, From
  <2> QED BY <1>6, <2>3 DEF Copy, TargetOne, From
<1>7. ASSUME NEW p \in Queues, Publish(p) PROVE OneInv'
  <2>0. pc[p] = "publish"
    BY <1>7 DEF Publish
  <2>1. src[p] \in Sources /\ From(temp[p], src[p])
    BY <2>0 DEF Typed, HasSource, TempsOwn
  <2>2. tree' = temp[p] /\ marker'.src = src[p]
    BY <1>7 DEF Publish
  <2>3. TargetOne'
    BY <2>1, <2>2 DEF TargetOne, From
  <2>4. TempsOwn'
    BY <1>0, <1>7 DEF Publish, Staged, Goto, Typed, TypeOK, TempsOwn, From
  <2> QED BY <2>3, <2>4
<1>8. ASSUME NEW p \in Queues, Stage(p) PROVE OneInv'
  <2>1. CASE ReadMarker(p) \/ CountFiles(p) \/ Replace(p) \/ RemoveDir(p)
    BY <1>1, <2>1 DEF ReadMarker, CountFiles, Staged, Replace, RemoveDir, Goto, Typed, TypeOK
  <2>2. ASSUME NEW f \in Files, RemoveFile(p, f) PROVE OneInv'
    BY <1>3, <2>2 DEF RemoveFile
  <2> QED BY <1>4, <1>5, <1>6, <1>7, <1>8, <2>1, <2>2 DEF Stage
<1>9. ASSUME NEW p \in Queues, Serve(p) PROVE OneInv'
  <2>1. CASE Start(p) \/ PassHealth(p) \/ Released(p)
    BY <1>1, <2>1 DEF Start, PassHealth, Released, Goto, Typed, TypeOK
  <2>2. CASE Leave(p) \/ Kill(p)
    BY <1>2, <2>2 DEF Leave, Kill
  <2>3. ASSUME NEW f \in Files, ReleaseFile(p, f) PROVE OneInv'
    BY <1>3, <2>3 DEF ReleaseFile
  <2> QED BY <1>9, <2>1, <2>2, <2>3 DEF Serve
<1>10. ASSUME NEW l \in 1..used, ServerNext(l) PROVE OneInv'
  BY <1>1, <1>10 DEF ServerNext, Bind, ServerExit, Load
<1> QED BY <1>1, <1>8, <1>9, <1>10 DEF Next, vars

(* The shared target never holds the files of two sources, and its marker   *)
(* never names another than the one its files are from, for any number of   *)
(* queues that stage into it and any kills.                                 *)
THEOREM TargetUnmixed == Spec => []TreeIsOne
<1>1. Init => OneInv
  BY EmptyIsTree DEF Init, OneInv, TempsOwn, TargetOne, From
<1>2. OneInv => TreeIsOne
  BY DEF OneInv, TargetOne, From, TreeIsOne
<1> QED BY <1>1, <1>2, TypedInit, TypedStep, OneStep, PTL DEF Spec

-----------------------------------------------------------------------------
(* One queue: what is staged is the whole of its own source *)

OneQueue == \A p, q \in Queues : p = q
Apart == \A s \in Sources : ~(Shared[s] /\ Release[s])

OwnTree(p) == there /\ tree = Whole(src[p])
SecondStage(p) == Shared[src[p]] /\ phase[p] = "model"

StagedAt(p) ==
    /\ pc[p] = "count" => there /\ marker.src = src[p]
    /\ pc[p] \in {"start", "health"} \/ (pc[p] = "train" /\ Shared[src[p]]) => OwnTree(p)
    /\ SecondStage(p) /\ pc[p] \in {"marker", "count"} => OwnTree(p) /\ marker.src = src[p]
    /\ SecondStage(p) /\ ReuseExisting
       => pc[p] \notin {"replace", "remove", "copy", "publish"}
    /\ pc[p] = "release" => Release[src[p]]

StagedInv == \A p \in Queues : StagedAt(p)

(* A marker of this source on files with its signature: the whole of it. *)
LEMMA CurrentIsWhole ==
    ASSUME Typed, OneInv, NEW p \in Queues, src[p] \in Sources,
           marker.src = src[p], Current(p)
    PROVE  tree = Whole(src[p])
<1>1. marker # NoMarker
  BY SourceAssumption DEF NoMarker
<1>2. From(tree, src[p])
  BY <1>1 DEF OneInv, TargetOne
<1> QED BY <1>2, SameSignature DEF Typed, TypeOK, Current, From

LEMMA VerifiedIsWhole ==
    ASSUME Typed, OneInv, NEW p \in Queues, src[p] \in Sources, Verified(p)
    PROVE  temp[p] = Whole(src[p])
BY SameSignature DEF Typed, TypeOK, OneInv, TempsOwn, Verified, From

LEMMA StagedStage ==
    ASSUME OneQueue, Typed, OneInv, StagedInv, NEW p \in Queues, Stage(p)
    PROVE  StagedInv'
<1> SUFFICES StagedAt(p)'
  BY DEF OneQueue, StagedInv
<1>0. /\ StagedAt(p) /\ phase[p] \in Phases /\ (pc[p] # "off" => src[p] \in Sources)
      /\ pc \in [Queues -> Steps] /\ phase \in [Queues -> Phases]
      /\ src \in [Queues -> Sources \cup {None}]
  BY DEF StagedInv, Typed, TypeOK, HasSource
<1> USE DEF StagedAt, OwnTree, SecondStage, Goto, target, Phases
<1>1. ASSUME NEW s \in Sources, Begin(p, s) PROVE StagedAt(p)'
  BY <1>0, <1>1 DEF Begin
<1>2. CASE ReadMarker(p)
  BY <1>0, <1>2 DEF ReadMarker, MarkerFits
<1>3. CASE CountFiles(p)
  <2>0. pc[p] = "count" /\ src[p] \in Sources /\ there /\ marker.src = src[p]
    BY <1>0, <1>3 DEF CountFiles
  <2>1. CASE Current(p)
    <3>1. OwnTree(p) /\ UNCHANGED <<there, tree, marker, src>> /\ Staged(p)
      BY <1>3, <2>0, <2>1, CurrentIsWhole DEF CountFiles
    <3> QED BY <1>0, <2>0, <3>1 DEF Staged
  <2>2. CASE ~Current(p)
    <3>1. UNCHANGED <<there, tree, marker, src, phase>> /\ Goto(p, "replace")
      BY <1>3, <2>2 DEF CountFiles
    <3>2. ~SecondStage(p)
      BY <1>0, <2>0, <2>2 DEF Current
    <3> QED BY <1>0, <3>1, <3>2
  <2> QED BY <2>1, <2>2
<1>4. CASE Replace(p)
  BY <1>0, <1>4 DEF Replace
<1>5. ASSUME NEW f \in Files, RemoveFile(p, f) PROVE StagedAt(p)'
  BY <1>0, <1>5 DEF RemoveFile
<1>6. CASE RemoveMarker(p)
  BY <1>0, <1>6 DEF RemoveMarker
<1>7. CASE RemoveDir(p)
  BY <1>0, <1>7 DEF RemoveDir
<1>8. CASE Copy(p)
  BY <1>0, <1>8 DEF Copy
<1>9. CASE Publish(p)
  <2>1. pc[p] = "publish" /\ Verified(p) /\ there' /\ tree' = temp[p] /\ marker'.src = src[p]
        /\ Staged(p) /\ src' = src
    BY <1>9 DEF Publish
  <2>2. tree' = Whole(src[p])
    BY <1>0, <2>1, VerifiedIsWhole
  <2> QED BY <1>0, <2>1, <2>2 DEF Staged
<1> QED BY <1>1, <1>2, <1>3, <1>4, <1>5, <1>6, <1>7, <1>8, <1>9 DEF Stage

LEMMA StagedServe ==
    ASSUME OneQueue, Apart, Typed, StagedInv, NEW p \in Queues, Serve(p)
    PROVE  StagedInv'
<1> SUFFICES StagedAt(p)'
  BY DEF OneQueue, StagedInv
<1>0. StagedAt(p) /\ pc \in [Queues -> Steps] /\ (pc[p] # "off" => src[p] \in Sources)
  BY DEF StagedInv, Typed, TypeOK, HasSource
<1> USE DEF StagedAt, OwnTree, SecondStage, Goto, target
<1>1. CASE Start(p)
  BY <1>0, <1>1 DEF Start
<1>2. CASE PassHealth(p)
  BY <1>0, <1>2 DEF PassHealth, Apart
<1>3. CASE Released(p)
  <2>1. ~Shared[src[p]] \/ ~(pc[p] = "release")
    BY <1>0, <1>3 DEF Released, Apart
  <2> QED BY <1>0, <1>3, <2>1 DEF Released
<1>4. CASE Leave(p) \/ Kill(p)
  BY <1>0, <1>4 DEF Leave, Kill, Ended
<1>5. ASSUME NEW f \in Files, ReleaseFile(p, f) PROVE StagedAt(p)'
  BY <1>0, <1>5 DEF ReleaseFile, Apart
<1> QED BY <1>1, <1>2, <1>3, <1>4, <1>5 DEF Serve

LEMMA StagedStep ==
    ASSUME OneQueue, Apart
    PROVE  Typed /\ OneInv /\ StagedInv /\ [Next]_vars => StagedInv'
<1> SUFFICES ASSUME Typed, OneInv, StagedInv, [Next]_vars PROVE StagedInv'
  OBVIOUS
<1>1. ASSUME UNCHANGED <<target, pc, phase, src>> PROVE StagedInv'
  BY <1>1 DEF StagedInv, StagedAt, OwnTree, SecondStage, target
<1>2. ASSUME NEW l \in 1..used, ServerNext(l) PROVE StagedInv'
  BY <1>1, <1>2 DEF ServerNext, Bind, ServerExit, Load
<1>3. ASSUME NEW p \in Queues, Stage(p) \/ Serve(p) PROVE StagedInv'
  BY <1>3, StagedStage, StagedServe
<1>4. CASE UNCHANGED vars
  BY <1>1, <1>4 DEF vars, target
<1> QED BY <1>2, <1>3, <1>4 DEF Next

LEMMA StagedAlways ==
    ASSUME OneQueue, Apart
    PROVE  Spec => [](Typed /\ OneInv /\ StagedInv)
<1>1. Init => OneInv
  BY EmptyIsTree DEF Init, OneInv, TempsOwn, TargetOne, From
<1>2. Init => StagedInv
  BY DEF Init, StagedInv, StagedAt
<1> QED BY <1>1, <1>2, TypedInit, TypedStep, OneStep, StagedStep, PTL DEF Spec

(* With one queue, and release_after_health only where the trainer does not *)
(* share the target: every server is started, and every training command    *)
(* begins, on the whole tree of the item's own source.                      *)
THEOREM WholeTreeServed ==
    ASSUME OneQueue, Apart
    PROVE  Spec => []StagedIsWhole
<1>1. StagedInv => StagedIsWhole
  BY DEF StagedInv, StagedAt, OwnTree, StagedIsWhole
<1> QED BY <1>1, StagedAlways, PTL

(* With one queue and reuse_existing a launch copies its checkpoint once.   *)
THEOREM CopiedOncePerLaunch ==
    ASSUME OneQueue, Apart, ReuseExisting
    PROVE  Spec => []CopiedOnce
<1>1. StagedInv => CopiedOnce
  BY DEF StagedInv, StagedAt, SecondStage, CopiedOnce
<1> QED BY <1>1, StagedAlways, PTL

-----------------------------------------------------------------------------
(* One queue: it is its own server that answers the health URL, or one that *)
(* outlived a killed process.                                               *)

Serving == {"health", "release", "train"}
Loaded(l) == Holds[server[l].src] \subseteq DOMAIN server[l].got

(* The server of p was launched onto a port nobody else was on.             *)
Sole(p) == ~server[own[p]].rival

ServingAt(p) ==
    /\ \A l \in 1..used : l # own[p] => server[l].state = "gone" \/ server[l].orphan
    /\ pc[p] \notin Serving => own[p] = 0
    /\ pc[p] \in Serving => own[p] \in 1..used
    /\ pc[p] \in Serving /\ Sole(p) =>
          /\ \A l \in 1..used : l # own[p] => server[l].state = "gone"
          /\ server[own[p]].state = "up" => Loaded(own[p])
          /\ server[own[p]].src = src[p] /\ From(server[own[p]].got, src[p])
    /\ pc[p] \in {"release", "train"} /\ Sole(p) => Loaded(own[p])

ServingInv == \A p \in Queues : ServingAt(p)

(* A step of the process that leaves its server alone. *)
LEMMA ServingKept ==
    ASSUME NEW p \in Queues, ServingAt(p), UNCHANGED <<own, server, used>>,
           pc'[p] \in Serving <=> pc[p] \in Serving,
           pc[p] \in Serving => src'[p] = src[p],
           pc'[p] \in {"release", "train"} =>
               pc[p] \in {"release", "train"} \/ (Sole(p) => Loaded(own[p]))
    PROVE  ServingAt(p)'
BY DEF ServingAt, Sole, Loaded, From

LEMMA ServingStage ==
    ASSUME OneQueue, Typed, ServingInv, NEW p \in Queues, Stage(p)
    PROVE  ServingInv'
<1> SUFFICES ServingAt(p)'
  BY DEF OneQueue, ServingInv
<1>1. UNCHANGED <<own, server, used>> /\ pc[p] \notin Serving /\ pc'[p] \notin Serving
  <2>1. pc \in [Queues -> Steps]
    BY DEF Typed, TypeOK
  <2>2. ASSUME NEW s \in Sources, Begin(p, s)
        PROVE  UNCHANGED <<own, server, used>> /\ pc[p] \notin Serving /\ pc'[p] \notin Serving
    BY <2>1, <2>2 DEF Begin, Goto, Serving
  <2>3. ASSUME NEW f \in Files, RemoveFile(p, f)
        PROVE  UNCHANGED <<own, server, used>> /\ pc[p] \notin Serving /\ pc'[p] \notin Serving
    BY <2>1, <2>3 DEF RemoveFile, Serving
  <2>4. CASE ReadMarker(p) \/ CountFiles(p) \/ Replace(p)
    BY <2>1, <2>4 DEF ReadMarker, CountFiles, Replace, Staged, Goto, Serving
  <2>5. CASE RemoveMarker(p) \/ RemoveDir(p) \/ Copy(p)
    BY <2>1, <2>5 DEF RemoveMarker, RemoveDir, Copy, Goto, Serving
  <2>6. CASE Publish(p)
    <3>1. pc[p] = "publish" /\ Staged(p) /\ UNCHANGED <<own, server, used>>
      BY <2>6 DEF Publish
    <3> QED BY <2>1, <3>1 DEF Staged, Goto, Serving
  <2> QED BY <2>2, <2>3, <2>4, <2>5, <2>6 DEF Stage
<1>2. ServingAt(p)
  BY DEF ServingInv
<1> QED BY <1>1, <1>2 DEF ServingAt, Serving

LEMMA ServingServe ==
    ASSUME OneQueue, Typed, ServingInv, NEW p \in Queues, Serve(p)
    PROVE  ServingInv'
<1> SUFFICES ServingAt(p)'
  BY DEF OneQueue, ServingInv
<1>0. /\ ServingAt(p)
      /\ pc \in [Queues -> Steps] /\ src \in [Queues -> Sources \cup {None}]
      /\ own \in [Queues -> 0..MaxLaunches] /\ used \in Nat
      /\ DOMAIN server = 1..used /\ \A l \in 1..used : server[l] \in Server
      /\ DOMAIN Empty = {}
  BY EmptyIsTree, LaunchAssumption DEF ServingInv, Typed, TypeOK
<1>1. CASE Start(p)
  <2>1. own[p] = 0 /\ pc[p] = "start"
    BY <1>0, <1>1 DEF Start, ServingAt, Serving
  <2>2. /\ used' = used + 1 /\ own'[p] = used + 1 /\ pc'[p] = "health" /\ src' = src
        /\ \A l \in 1..used : server'[l] = server[l]
        /\ server'[used + 1].state = "loading"
        /\ server'[used + 1].src = src[p]
        /\ server'[used + 1].got = Empty
        /\ server'[used + 1].rival = (Survivors(p) # {})
    BY <1>0, <1>1 DEF Start, Goto
  <2>3. \A l \in 1..(used + 1) : l \in 1..used \/ l = used + 1
    BY <1>0
  <2>4. \A l \in 1..used : l # used + 1 /\ (server[l].state = "gone" \/ server[l].orphan)
    BY <1>0, <2>1 DEF ServingAt
  <2>5. Survivors(p) = {} => \A l \in 1..used : server[l].state = "gone"
    BY <1>0, <2>4 DEF Survivors, OneQueue, Server
  <2>6. own'[p] = used + 1 /\ Sole(p)' => Survivors(p) = {}
    BY <2>2 DEF Sole
  <2> QED BY <1>0, <2>2, <2>3, <2>4, <2>5, <2>6 DEF ServingAt, Serving, From
<1>2. CASE PassHealth(p)
  <2>1. pc[p] = "health" /\ Healthy(p) /\ UNCHANGED <<src, own, server, used>>
        /\ pc'[p] \in {"release", "train"}
    BY <1>0, <1>2 DEF PassHealth, Goto
  <2>2. PICK l \in 1..used : server[l].state = "up"
    BY <2>1 DEF Healthy, Answering
  <2>3. Sole(p) => Loaded(own[p])
    BY <1>0, <2>1, <2>2 DEF ServingAt, Serving
  <2> QED BY <1>0, <2>1, <2>3, ServingKept DEF Serving
<1>3. CASE Released(p)
  <2>1. pc[p] = "release" /\ pc'[p] = "train" /\ UNCHANGED <<src, own, server, used>>
    BY <1>0, <1>3 DEF Released, Goto
  <2> QED BY <1>0, <2>1, ServingKept DEF Serving
<1>4. CASE Leave(p) \/ Kill(p)
  <2>1. used' = used /\ pc'[p] = "off" /\ own'[p] = 0
    BY <1>0, <1>4 DEF Leave, Kill, Ended
  <2>2. server' = WithoutOwn(p) \/ server' = Orphaned(p)
    BY <1>4 DEF Leave, Stopped, Kill
  <2>3. ASSUME NEW l \in 1..used PROVE server'[l].state = "gone" \/ server'[l].orphan
    <3>1. server[l] \in Server /\ (l # own[p] => server[l].state = "gone" \/ server[l].orphan)
      BY <1>0 DEF ServingAt
    <3>2. CASE server' = WithoutOwn(p)
      <4>1. l # own[p] => server'[l] = server[l]
        BY <3>2 DEF WithoutOwn
      <4>2. l = own[p] => server'[l] = [server[l] EXCEPT !.state = "gone", !.got = Empty]
        BY <3>2 DEF WithoutOwn
      <4>3. l = own[p] => server'[l].state = "gone"
        BY <3>1, <4>2 DEF Server
      <4> QED BY <3>1, <4>1, <4>3
    <3>3. CASE server' = Orphaned(p)
      BY <3>1, <3>3 DEF Orphaned, Server
    <3> QED BY <2>2, <3>2, <3>3
  <2> QED BY <2>1, <2>3 DEF ServingAt, Serving
<1>5. ASSUME NEW f \in Files, ReleaseFile(p, f) PROVE ServingAt(p)'
  BY <1>0, <1>5, ServingKept DEF ReleaseFile
<1> QED BY <1>1, <1>2, <1>3, <1>4, <1>5 DEF Serve

LEMMA ServingServer ==
    ASSUME OneQueue, Apart, Typed, OneInv, StagedInv, ServingInv,
           NEW l \in 1..used, ServerNext(l)
    PROVE  ServingInv'
<1> SUFFICES ASSUME NEW p \in Queues PROVE ServingAt(p)'
  BY DEF ServingInv
<1>0. ServingAt(p) /\ DOMAIN server = 1..used /\ server[l] \in Server /\ l # 0
  BY LaunchAssumption DEF ServingInv, Typed, TypeOK
<1>1. UNCHANGED <<pc, src, own, used>>
  BY DEF ServerNext, Bind, ServerExit, Load
<1>2. /\ server' = [server EXCEPT ![l] = server'[l]] /\ server[l].state # "gone"
      /\ server'[l].orphan = server[l].orphan /\ server'[l].rival = server[l].rival
  <2>1. CASE Bind(l)
    BY <1>0, <2>1 DEF Bind, Server
  <2>2. CASE ServerExit(l)
    BY <1>0, <2>2 DEF ServerExit, Server
  <2>3. ASSUME NEW f \in Files, Load(l, f), f \in DOMAIN tree
        PROVE  /\ server' = [server EXCEPT ![l] = server'[l]] /\ server[l].state # "gone"
               /\ server'[l].orphan = server[l].orphan /\ server'[l].rival = server[l].rival
    BY <1>0, <2>3 DEF Load, Server
  <2>4. ASSUME NEW f \in Files, Load(l, f), f \notin DOMAIN tree
        PROVE  /\ server' = [server EXCEPT ![l] = server'[l]] /\ server[l].state # "gone"
               /\ server'[l].orphan = server[l].orphan /\ server'[l].rival = server[l].rival
    BY <1>0, <2>4 DEF Load, Server
  <2> QED BY <2>1, <2>2, <2>3, <2>4 DEF ServerNext
<1>3. CASE l # own[p]
  <2>1. server[l].orphan /\ ~(pc[p] \in Serving /\ Sole(p))
    BY <1>0, <1>2, <1>3 DEF ServingAt
  <2>2. \A k \in 1..used : k # l => server'[k] = server[k]
    BY <1>0, <1>2
  <2> QED BY <1>0, <1>1, <1>2, <1>3, <2>1, <2>2 DEF ServingAt, Sole, Serving
<1>4. CASE l = own[p] /\ ~Sole(p)
  BY <1>0, <1>1, <1>2, <1>4 DEF ServingAt, Sole
<1>5. CASE l = own[p] /\ Sole(p)
  <2>0. /\ pc[p] \in Serving /\ server[l].src = src[p] /\ From(server[l].got, src[p])
        /\ \A k \in 1..used : k # l => server'[k] = server[k]
    BY <1>0, <1>2, <1>5 DEF ServingAt, Sole
  <2>1. ASSUME server'[l].src = server[l].src, From(server'[l].got, src[p]),
               DOMAIN server[l].got \subseteq DOMAIN server'[l].got,
               server'[l].state = "up" => Holds[server[l].src] \subseteq DOMAIN server'[l].got
        PROVE  ServingAt(p)'
    BY <1>0, <1>1, <1>2, <1>5, <2>0, <2>1 DEF ServingAt, Sole, Loaded
  <2>2. CASE Bind(l)
    BY <1>0, <2>0, <2>1, <2>2 DEF Bind, Missing, Server
  <2>3. CASE ServerExit(l)
    BY <1>0, <2>0, <2>1, <2>3 DEF ServerExit, Server
  <2>4. ASSUME NEW f \in Files, Load(l, f) PROVE ServingAt(p)'
    <3>1. server[l].state = "loading" /\ f \in Missing(l) /\ f \in Holds[src[p]]
      BY <2>0, <2>4 DEF Load, Missing
    <3>2. pc[p] = "health"
      BY <1>0, <1>5, <2>0, <3>1 DEF ServingAt, Loaded, Missing, Serving
    <3>3. tree = Whole(src[p])
      BY <3>2 DEF StagedInv, StagedAt, OwnTree
    <3>4. f \in DOMAIN tree /\ tree[f] = src[p]
      BY <3>1, <3>3 DEF Whole, Part
    <3>5. From(With(server[l].got, f), src[p])
      BY <2>0, <3>1, <3>4 DEF From, With
    <3>6. server'[l] = [server[l] EXCEPT !.got = With(server[l].got, f)]
      BY <1>0, <2>4, <3>4 DEF Load
    <3>7. DOMAIN server[l].got \subseteq DOMAIN With(server[l].got, f)
      BY DEF With
    <3> QED BY <1>0, <2>1, <3>1, <3>5, <3>6, <3>7 DEF Server
  <2> QED BY <2>2, <2>3, <2>4 DEF ServerNext
<1> QED BY <1>3, <1>4, <1>5

LEMMA ServingStep ==
    ASSUME OneQueue, Apart
    PROVE  Typed /\ OneInv /\ StagedInv /\ ServingInv /\ [Next]_vars => ServingInv'
<1> SUFFICES ASSUME Typed, OneInv, StagedInv, ServingInv, [Next]_vars PROVE ServingInv'
  OBVIOUS
<1>1. CASE UNCHANGED vars
  BY <1>1 DEF vars, ServingInv, ServingAt, Sole, Loaded, From
<1>2. ASSUME NEW p \in Queues, Stage(p) \/ Serve(p) PROVE ServingInv'
  BY <1>2, ServingStage, ServingServe
<1>3. ASSUME NEW l \in 1..used, ServerNext(l) PROVE ServingInv'
  BY <1>3, ServingServer
<1> QED BY <1>1, <1>2, <1>3 DEF Next

LEMMA ServingAlways ==
    ASSUME OneQueue, Apart
    PROVE  Spec => [](Typed /\ ServingInv)
<1>1. Init => ServingInv
  BY DEF Init, ServingInv, ServingAt, Serving
<1> QED BY <1>1, StagedAlways, ServingStep, PTL DEF Spec

(* With one queue, whether or not servers outlive its killed process: a     *)
(* launch onto a port that no such server is on is past its health check    *)
(* served by its own server, loaded with the whole model of its item.       *)
THEOREM OwnServerAnswers ==
    ASSUME OneQueue, Apart
    PROVE  Spec => []ServedByOwn
<1>1. Typed /\ ServingInv => ServedByOwn
  <2> SUFFICES ASSUME Typed, ServingInv, NEW p \in Queues, pc[p] \in {"release", "train"},
                      Sole(p)
               PROVE  server[own[p]].got = Whole(src[p])
    BY DEF ServedByOwn, Sole
  <2>1. /\ own[p] \in 1..used /\ server[own[p]].src = src[p]
        /\ From(server[own[p]].got, src[p]) /\ Loaded(own[p])
    BY DEF ServingInv, ServingAt, Serving
  <2>2. server[own[p]].got \in Tree
    BY <2>1 DEF Typed, TypeOK, Server
  <2>3. DOMAIN server[own[p]].got = Holds[src[p]]
    BY <2>1 DEF From, Loaded
  <2> QED BY <2>1, <2>2, <2>3, TreeShape DEF Whole, Part, From
<1> QED BY <1>1, ServingAlways, PTL
=============================================================================
