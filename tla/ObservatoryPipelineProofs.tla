------------------------ MODULE ObservatoryPipelineProofs ------------------------
(* Theorems about ObservatoryPipeline, for all queues, configs and slots.    *)
EXTENDS ObservatoryPipeline, TLAPS

(* The completions a document names have happened.                          *)
DocEarned(q, d, D) ==
    \A i \in Items(q) : d.items[i].status = "complete" => <<q, i, d.items[i].config>> \in D

AllEarned(q, c, D) == \A i \in Items(q) : <<q, i, c>> \in D

FileOK(q, d, D) ==
    DocEarned(q, d, D) /\ (d.status = "complete" => AllEarned(q, d.config, D))

(* What a queue process knows, by the step it has reached.                  *)
RunnerOK(n, c, D) ==
    /\ DocEarned(n.queue, n.doc, D)
    /\ n.pc \in {"begin", "next", "run", "fail"} => n.doc.config = c /\ n.doc.status = "running"
    /\ n.pc \in {"next", "run"} => \A j \in 1..(n.at - 1) : <<n.queue, j, c>> \in D
    /\ n.pc = "run" => n.at \in Items(n.queue)
    /\ n.pc = "ok" => n.doc.config = c /\ AllEarned(n.queue, c, D)

(* The supervisor has at most one child, that of the queue it is at.        *)
ChildInv ==
    /\ \A r \in Runners : runner[r].parent = "supervisor" => runner[r].queue = sup
    /\ \A r, s \in Runners :
         runner[r].parent = "supervisor" /\ runner[s].parent = "supervisor" => r = s

BothEarned == \E c \in Configs : AllEarned("gpu", c, done) /\ AllEarned("base", c, done)

GateInv ==
    /\ sup \in {"download", "stage", "base"} => AllEarned("gpu", config, done)
    /\ upstream = "complete" => BothEarned
    /\ watcher \in {"ready", "queue"} => BothEarned

FileInv == \A q \in Queues : FileOK(q, file[q], done)
RunnerInv == \A r \in Runners : RunnerOK(runner[r], config, done)

IInv == TypeOK /\ FileInv /\ RunnerInv /\ ChildInv /\ GateInv

(* A larger history keeps everything that was earned.                       *)
LEMMA Grow ==
    ASSUME NEW D, NEW E, D \subseteq E
    PROVE  /\ \A q, d : FileOK(q, d, D) => FileOK(q, d, E)
           /\ \A n, c : RunnerOK(n, c, D) => RunnerOK(n, c, E)
           /\ \A q, c : AllEarned(q, c, D) => AllEarned(q, c, E)
  BY DEF FileOK, RunnerOK, DocEarned, AllEarned

LEMMA EmptyDoc ==
    ASSUME NEW q \in Queues
    PROVE  /\ NoDoc(q) \in Doc(q)
           /\ \A D : DocEarned(q, NoDoc(q), D) /\ FileOK(q, NoDoc(q), D)
  BY DEF NoDoc, Doc, NoEntry, Entry, DocEarned, FileOK, Items

LEMMA IdleOK ==
    /\ Idle.queue \in Queues /\ Idle \in RunnerOf(Idle.queue)
    /\ Idle.pc = "off" /\ Idle.parent = "nobody"
    /\ \A c, D : RunnerOK(Idle, c, D)
  <1>1. "gpu" \in Queues
    BY DEF Queues
  <1>2. 1 \in 1..(Size["gpu"] + 1)
    BY <1>1, SizeAssumption
  <1> QED
    BY <1>1, <1>2, EmptyDoc DEF Idle, RunnerOf, RunnerOK

LEMMA InitInv == Init => IInv
  <1> SUFFICES ASSUME Init PROVE IInv
    OBVIOUS
  <1>1. TypeOK
    <2>1. DOMAIN file = Queues /\ \A q \in Queues : file[q] \in Doc(q)
      BY EmptyDoc DEF Init
    <2>2. DOMAIN runner = Runners
      BY DEF Init
    <2>3. \A r \in Runners : runner[r].queue \in Queues /\ runner[r] \in RunnerOf(runner[r].queue)
      BY IdleOK DEF Init
    <2>4. done \subseteq Queues \X Nat \X Configs
      BY DEF Init
    <2>5. lost \in 0..MaxLosses /\ starts \in 0..MaxStarts /\ edits \in 0..MaxEdits
      BY BoundAssumption DEF Init
    <2> QED
      BY <2>1, <2>2, <2>3, <2>4, <2>5 DEF Init, TypeOK
  <1>2. FileInv
    BY EmptyDoc DEF Init, FileInv
  <1>3. RunnerInv
    BY IdleOK DEF Init, RunnerInv
  <1>4. ChildInv /\ GateInv
    BY IdleOK DEF Init, ChildInv, GateInv
  <1> QED
    BY <1>1, <1>2, <1>3, <1>4 DEF IInv

(* One process changes, and the state file of its queue with it.            *)
LEMMA OwnStep ==
    ASSUME IInv, NEW r \in Runners, NEW n,
           runner' = [runner EXCEPT ![r] = n],
           n.queue = runner[r].queue, n.parent = runner[r].parent,
           n \in RunnerOf(n.queue), RunnerOK(n, config, done'),
           \/ UNCHANGED file
           \/ file' = [file EXCEPT ![n.queue] = n.doc] /\ FileOK(n.queue, n.doc, done'),
           done \subseteq done', done' \subseteq Queues \X Nat \X Configs,
           UNCHANGED <<config, prepared, fetch, supervised, watched, starts, edits>>,
           lost' \in 0..MaxLosses
    PROVE  IInv'
  <1> USE DEF IInv
  <1>0. n.queue \in Queues /\ n.doc \in Doc(n.queue)
    BY DEF TypeOK, RunnerOf
  <1>1. TypeOK'
    BY <1>0 DEF TypeOK, prepared, supervised, watched
  <1>2. FileInv'
    BY <1>0, Grow DEF FileInv, TypeOK
  <1>3. RunnerInv'
    BY Grow DEF RunnerInv, TypeOK
  <1>4. ChildInv'
    BY DEF ChildInv, TypeOK, supervised
  <1>5. GateInv'
    BY Grow DEF GateInv, BothEarned, supervised, watched
  <1> QED
    BY <1>1, <1>2, <1>3, <1>4, <1>5

-----------------------------------------------------------------------------
(* The steps of a queue process *)

LEMMA LoadInv ==
    ASSUME IInv, NEW r \in Runners, Load(r) PROVE IInv'
  <1> DEFINE q == runner[r].queue
  <1> DEFINE d == [file[q] EXCEPT !.status = "running", !.config = config]
  <1> DEFINE n == [runner[r] EXCEPT !.pc = "begin", !.doc = d]
  <1>1. q \in Queues /\ file[q] \in Doc(q) /\ runner[r] \in RunnerOf(q) /\ config \in Configs
    BY DEF IInv, TypeOK
  <1>2. d \in Doc(q) /\ d.status = "running" /\ d.config = config /\ d.items = file[q].items
    BY <1>1 DEF Doc
  <1>3. n \in RunnerOf(q) /\ n.queue = q /\ n.parent = runner[r].parent /\ n.pc = "begin" /\ n.doc = d
    BY <1>1, <1>2 DEF RunnerOf
  <1>4. DocEarned(q, d, done)
    BY <1>1, <1>2 DEF IInv, FileInv, FileOK, DocEarned
  <1>5. RunnerOK(n, config, done)
    BY <1>2, <1>3, <1>4 DEF RunnerOK
  <1>6. runner' = [runner EXCEPT ![r] = n]
    BY <1>1 DEF Load, IInv, TypeOK
  <1> HIDE DEF n, d
  <1> QED
    BY <1>1, <1>3, <1>5, <1>6, OwnStep DEF Load, IInv, TypeOK

(* A queue process writes its document d to the file of its queue.          *)
LEMMA WriteInv ==
    ASSUME IInv, NEW r \in Runners, NEW d, NEW pc, NEW at,
           Write(r, d, pc, at), d \in Doc(runner[r].queue),
           pc \in {"next", "run", "fail", "ok", "bad"}, at \in 1..(Size[runner[r].queue] + 1),
           FileOK(runner[r].queue, d, done'),
           RunnerOK([runner[r] EXCEPT !.pc = pc, !.doc = d, !.at = at], config, done'),
           done \subseteq done', done' \subseteq Queues \X Nat \X Configs,
           UNCHANGED <<config, prepared, fetch, supervised, watched, lost, starts, edits>>
    PROVE  IInv'
  <1> DEFINE n == [runner[r] EXCEPT !.pc = pc, !.doc = d, !.at = at]
  <1>1. runner[r].queue \in Queues /\ runner[r] \in RunnerOf(runner[r].queue)
    BY DEF IInv, TypeOK
  <1>2. n \in RunnerOf(runner[r].queue) /\ n.queue = runner[r].queue /\ n.doc = d
        /\ n.parent = runner[r].parent
    BY <1>1 DEF RunnerOf
  <1>3. runner' = [runner EXCEPT ![r] = n]
    BY <1>1 DEF Write, IInv, TypeOK
  <1>4. file' = [file EXCEPT ![n.queue] = n.doc]
    BY <1>2 DEF Write
  <1>5. RunnerOK(n, config, done') /\ FileOK(n.queue, n.doc, done')
    BY <1>2
  <1> HIDE DEF n
  <1> QED
    BY <1>1, <1>2, <1>3, <1>4, <1>5, OwnStep DEF IInv, TypeOK

LEMMA BeginInv ==
    ASSUME IInv, NEW r \in Runners, Begin(r) PROVE IInv'
  <1> DEFINE q == runner[r].queue
  <1> DEFINE n == [runner[r] EXCEPT !.pc = "next", !.doc = runner[r].doc, !.at = 1]
  <1>1. q \in Queues /\ runner[r] \in RunnerOf(q) /\ runner[r].doc \in Doc(q)
    BY DEF IInv, TypeOK, RunnerOf
  <1>2. RunnerOK(runner[r], config, done) /\ runner[r].pc = "begin"
    BY DEF IInv, RunnerInv, Begin
  <1>3. 1 \in 1..(Size[q] + 1) /\ 1 \in Items(q)
    BY <1>1, SizeAssumption DEF Items
  <1>4. FileOK(q, runner[r].doc, done)
    BY <1>2 DEF RunnerOK, FileOK
  <1>5. n.pc = "next" /\ n.at = 1 /\ n.doc = runner[r].doc /\ n.queue = q
    BY <1>1 DEF RunnerOf
  <1>6. RunnerOK(n, config, done)
    BY <1>2, <1>5 DEF RunnerOK
  <1> QED
    BY <1>1, <1>3, <1>4, <1>6, WriteInv DEF Begin, IInv, TypeOK

LEMMA SkipInv ==
    ASSUME IInv, NEW r \in Runners, Skip(r) PROVE IInv'
  <1> DEFINE q == runner[r].queue
  <1> DEFINE n == [runner[r] EXCEPT !.at = runner[r].at + 1]
  <1>1. q \in Queues /\ runner[r] \in RunnerOf(q) /\ runner[r].doc \in Doc(q)
        /\ runner[r].at \in Items(q) /\ Size[q] \in Nat
    BY SizeAssumption DEF IInv, TypeOK, RunnerOf, Items, Skip, AtItem
  <1>2. RunnerOK(runner[r], config, done) /\ runner[r].pc = "next"
    BY DEF IInv, RunnerInv, Skip, AtItem
  <1>3. n \in RunnerOf(q) /\ n.pc = "next" /\ n.at = runner[r].at + 1 /\ n.doc = runner[r].doc
        /\ n.queue = q /\ n.parent = runner[r].parent
    BY <1>1, <1>2 DEF RunnerOf, Items
  <1>4. <<q, runner[r].at, config>> \in done
    BY <1>1, <1>2 DEF Skip, Skippable, RunnerOK, DocEarned
  <1>5. RunnerOK(n, config, done)
    <2>1. \A j \in 1..(n.at - 1) : <<q, j, config>> \in done
      <3> TAKE j \in 1..(n.at - 1)
      <3>1. j \in 1..(runner[r].at - 1) \/ j = runner[r].at
        BY <1>1, <1>3 DEF Items
      <3> QED
        BY <3>1, <1>2, <1>4 DEF RunnerOK
    <2> QED
      BY <1>2, <1>3, <2>1 DEF RunnerOK
  <1>6. runner' = [runner EXCEPT ![r] = n]
    BY <1>1 DEF Skip, NextItem, IInv, TypeOK
  <1> HIDE DEF n
  <1> QED
    BY <1>1, <1>3, <1>5, <1>6, OwnStep DEF Skip, IInv, TypeOK

(* The document with the entry of the item r has reached.                   *)
LEMMA MarkedDoc ==
    ASSUME IInv, NEW r \in Runners, NEW status \in {"running", "complete", "failed"},
           runner[r].pc \in {"next", "run"}, runner[r].at \in Items(runner[r].queue)
    PROVE  /\ Marked(r, status) \in Doc(runner[r].queue)
           /\ Marked(r, status).status = "running" /\ Marked(r, status).config = config
           /\ \A i \in Items(runner[r].queue) : Marked(r, status).items[i] =
                IF i = runner[r].at THEN [status |-> status, config |-> config]
                                    ELSE runner[r].doc.items[i]
  <1> DEFINE q == runner[r].queue
  <1> DEFINE d == runner[r].doc
  <1> DEFINE e == [status |-> status, config |-> config]
  <1>1. q \in Queues /\ d \in Doc(q) /\ config \in Configs
    BY DEF IInv, TypeOK, RunnerOf
  <1>2. d.config = config /\ d.status = "running"
    BY DEF IInv, RunnerInv, RunnerOK
  <1>3. e \in Entry
    BY <1>1 DEF Entry
  <1>4. Marked(r, status) = [d EXCEPT !.items = [d.items EXCEPT ![runner[r].at] = e]]
    BY <1>1, <1>2 DEF Marked, Doc
  <1> QED
    BY <1>1, <1>2, <1>3, <1>4 DEF Doc

(* An unfinished item earns nothing and needs nothing.                      *)
LEMMA MarkedEarned ==
    ASSUME IInv, NEW r \in Runners, NEW status \in {"running", "failed"},
           runner[r].pc \in {"next", "run"}, runner[r].at \in Items(runner[r].queue)
    PROVE  /\ DocEarned(runner[r].queue, Marked(r, status), done)
           /\ FileOK(runner[r].queue, Marked(r, status), done)
  <1>1. DocEarned(runner[r].queue, runner[r].doc, done)
    BY DEF IInv, RunnerInv, RunnerOK
  <1> QED
    BY <1>1, MarkedDoc DEF DocEarned, FileOK

LEMMA RunItemInv ==
    ASSUME IInv, NEW r \in Runners, RunItem(r) PROVE IInv'
  <1> DEFINE q == runner[r].queue
  <1> DEFINE d == Marked(r, "running")
  <1> DEFINE n == [runner[r] EXCEPT !.pc = "run", !.doc = d, !.at = runner[r].at]
  <1>1. q \in Queues /\ runner[r] \in RunnerOf(q) /\ runner[r].pc = "next"
        /\ runner[r].at \in Items(q) /\ runner[r].at \in 1..(Size[q] + 1)
    BY SizeAssumption DEF IInv, TypeOK, RunnerOf, Items, RunItem, AtItem
  <1>2. RunnerOK(runner[r], config, done)
    BY DEF IInv, RunnerInv
  <1>3. /\ d \in Doc(q) /\ d.status = "running" /\ d.config = config
        /\ DocEarned(q, d, done) /\ FileOK(q, d, done)
    BY <1>1, MarkedDoc, MarkedEarned
  <1>4. n.pc = "run" /\ n.at = runner[r].at /\ n.doc = d /\ n.queue = q
    BY <1>1 DEF RunnerOf
  <1> HIDE DEF n, d
  <1>5. RunnerOK(n, config, done)
    BY <1>1, <1>2, <1>3, <1>4 DEF RunnerOK
  <1> QED
    BY <1>1, <1>3, <1>5, WriteInv DEF RunItem, IInv, TypeOK, n, d

LEMMA ItemCompleteInv ==
    ASSUME IInv, NEW r \in Runners, ItemComplete(r) PROVE IInv'
  <1> DEFINE q == runner[r].queue
  <1> DEFINE d == Marked(r, "complete")
  <1> DEFINE n == [runner[r] EXCEPT !.pc = "next", !.doc = d, !.at = runner[r].at + 1]
  <1>1. q \in Queues /\ runner[r] \in RunnerOf(q) /\ runner[r].pc = "run"
    BY DEF IInv, TypeOK, ItemComplete
  <1>2. RunnerOK(runner[r], config, done) /\ runner[r].at \in Items(q)
    BY <1>1 DEF IInv, RunnerInv, RunnerOK
  <1>3. done \subseteq done' /\ <<q, runner[r].at, config>> \in done'
    BY DEF ItemComplete
  <1>4. done' \subseteq Queues \X Nat \X Configs
    <2>1. runner[r].at \in Nat /\ config \in Configs /\ done \subseteq Queues \X Nat \X Configs
      BY <1>1, <1>2, SizeAssumption DEF Items, IInv, TypeOK
    <2> QED
      BY <2>1, <1>1 DEF ItemComplete
  <1>5. /\ d \in Doc(q) /\ d.status = "running" /\ d.config = config
        /\ DocEarned(q, d, done') /\ FileOK(q, d, done')
    <2>1. DocEarned(q, runner[r].doc, done')
      BY <1>2, <1>3 DEF RunnerOK, DocEarned
    <2>2. /\ d \in Doc(q) /\ d.status = "running" /\ d.config = config
          /\ \A i \in Items(q) : d.items[i] =
               IF i = runner[r].at THEN [status |-> "complete", config |-> config]
                                   ELSE runner[r].doc.items[i]
      BY <1>1, <1>2, MarkedDoc
    <2> HIDE DEF d
    <2> QED
      BY <1>3, <2>1, <2>2 DEF DocEarned, FileOK
  <1>6. n.pc = "next" /\ n.at = runner[r].at + 1 /\ n.doc = d /\ n.queue = q
    BY <1>1 DEF RunnerOf
  <1>7. runner[r].at + 1 \in 1..(Size[q] + 1)
    BY <1>1, <1>2, SizeAssumption DEF Items
  <1> HIDE DEF n, d
  <1>8. \A j \in 1..(n.at - 1) : <<q, j, config>> \in done'
    <2> TAKE j \in 1..(n.at - 1)
    <2>1. j \in 1..(runner[r].at - 1) \/ j = runner[r].at
      BY <1>1, <1>2, <1>6, SizeAssumption DEF Items
    <2>2. CASE j \in 1..(runner[r].at - 1)
      BY <2>2, <1>1, <1>2, <1>3 DEF RunnerOK
    <2> QED
      BY <2>1, <2>2, <1>3
  <1>9. RunnerOK(n, config, done')
    BY <1>5, <1>6, <1>8 DEF RunnerOK
  <1> QED
    BY <1>1, <1>3, <1>4, <1>5, <1>7, <1>9, WriteInv DEF ItemComplete, NextItem, n, d

LEMMA ItemFailedInv ==
    ASSUME IInv, NEW r \in Runners, ItemFailed(r) PROVE IInv'
  <1> DEFINE q == runner[r].queue
  <1> DEFINE d == Marked(r, "failed")
  <1> DEFINE n == [runner[r] EXCEPT !.pc = "fail", !.doc = d, !.at = runner[r].at]
  <1>1. q \in Queues /\ runner[r] \in RunnerOf(q) /\ runner[r].pc = "run"
        /\ runner[r].at \in 1..(Size[q] + 1)
    BY DEF IInv, TypeOK, RunnerOf, ItemFailed
  <1>2. runner[r].at \in Items(q)
    BY <1>1 DEF IInv, RunnerInv, RunnerOK
  <1>3. /\ d \in Doc(q) /\ d.status = "running" /\ d.config = config
        /\ DocEarned(q, d, done) /\ FileOK(q, d, done)
    BY <1>1, <1>2, MarkedDoc, MarkedEarned
  <1>4. n.pc = "fail" /\ n.doc = d /\ n.queue = q
    BY <1>1 DEF RunnerOf
  <1> HIDE DEF n, d
  <1>5. RunnerOK(n, config, done)
    BY <1>3, <1>4 DEF RunnerOK
  <1> QED
    BY <1>1, <1>3, <1>5, WriteInv DEF ItemFailed, IInv, TypeOK, n, d

LEMMA QueueFailedInv ==
    ASSUME IInv, NEW r \in Runners, QueueFailed(r) PROVE IInv'
  <1> DEFINE q == runner[r].queue
  <1> DEFINE d == [runner[r].doc EXCEPT !.status = "failed"]
  <1> DEFINE n == [runner[r] EXCEPT !.pc = "bad", !.doc = d, !.at = runner[r].at]
  <1>1. q \in Queues /\ runner[r] \in RunnerOf(q) /\ runner[r].doc \in Doc(q)
        /\ runner[r].at \in 1..(Size[q] + 1)
    BY DEF IInv, TypeOK, RunnerOf
  <1>2. d \in Doc(q) /\ d.status = "failed" /\ d.items = runner[r].doc.items
    BY <1>1 DEF Doc
  <1>3. DocEarned(q, d, done)
    BY <1>2 DEF IInv, RunnerInv, RunnerOK, DocEarned
  <1>4. n.pc = "bad" /\ n.doc = d /\ n.queue = q
    BY <1>1 DEF RunnerOf
  <1> HIDE DEF n, d
  <1>5. RunnerOK(n, config, done) /\ FileOK(q, d, done)
    BY <1>2, <1>3, <1>4 DEF RunnerOK, FileOK
  <1> QED
    BY <1>1, <1>2, <1>5, WriteInv DEF QueueFailed, IInv, TypeOK, n, d

LEMMA QueueCompleteInv ==
    ASSUME IInv, NEW r \in Runners, QueueComplete(r) PROVE IInv'
  <1> DEFINE q == runner[r].queue
  <1> DEFINE d == [runner[r].doc EXCEPT !.status = "complete"]
  <1> DEFINE n == [runner[r] EXCEPT !.pc = "ok", !.doc = d, !.at = runner[r].at]
  <1>1. q \in Queues /\ runner[r] \in RunnerOf(q) /\ runner[r].doc \in Doc(q)
        /\ runner[r].at \in 1..(Size[q] + 1)
    BY DEF IInv, TypeOK, RunnerOf
  <1>2. RunnerOK(runner[r], config, done) /\ runner[r].pc = "next"
    BY DEF IInv, RunnerInv, QueueComplete
  <1>3. /\ d \in Doc(q) /\ d.status = "complete" /\ d.items = runner[r].doc.items
        /\ d.config = config
    BY <1>1, <1>2 DEF Doc, RunnerOK
  <1>4. DocEarned(q, d, done)
    BY <1>2, <1>3 DEF RunnerOK, DocEarned
  <1>5. AllEarned(q, config, done)
    BY <1>1, <1>2, SizeAssumption DEF AllEarned, Items, RunnerOK, QueueComplete
  <1>6. n.pc = "ok" /\ n.doc = d /\ n.queue = q
    BY <1>1 DEF RunnerOf
  <1> HIDE DEF n, d
  <1>7. RunnerOK(n, config, done) /\ FileOK(q, d, done)
    BY <1>3, <1>4, <1>5, <1>6 DEF RunnerOK, FileOK
  <1> QED
    BY <1>1, <1>3, <1>7, WriteInv DEF QueueComplete, IInv, TypeOK, n, d

LEMMA RunnerLostInv ==
    ASSUME IInv, NEW r \in Runners, RunnerLost(r) PROVE IInv'
  <1> DEFINE n == [runner[r] EXCEPT !.pc = "bad"]
  <1>1. runner[r].queue \in Queues /\ runner[r] \in RunnerOf(runner[r].queue)
    BY DEF IInv, TypeOK
  <1>2. RunnerOK(runner[r], config, done)
    BY DEF IInv, RunnerInv
  <1>3. n \in RunnerOf(n.queue) /\ n.pc = "bad" /\ n.doc = runner[r].doc
        /\ n.queue = runner[r].queue /\ n.parent = runner[r].parent
    BY <1>1 DEF RunnerOf
  <1>4. lost' \in 0..MaxLosses
    BY BoundAssumption DEF RunnerLost, Loss, IInv, TypeOK
  <1> HIDE DEF n
  <1>5. RunnerOK(n, config, done)
    BY <1>2, <1>3 DEF RunnerOK
  <1>6. runner' = [runner EXCEPT ![r] = n]
    BY <1>1 DEF RunnerLost, IInv, TypeOK, n
  <1> QED
    BY <1>3, <1>4, <1>5, <1>6, OwnStep DEF RunnerLost, IInv, TypeOK

-----------------------------------------------------------------------------
(* The other steps *)

(* A slot gets a new process, or loses the one it had.                      *)
SlotInv ==
    /\ config \in Configs /\ done \subseteq Queues \X Nat \X Configs
    /\ DOMAIN file = Queues /\ \A q \in Queues : file[q] \in Doc(q)
    /\ DOMAIN runner = Runners
    /\ \A r \in Runners : runner[r].queue \in Queues /\ runner[r] \in RunnerOf(runner[r].queue)
    /\ FileInv /\ RunnerInv

LEMMA SpawnedSlot ==
    ASSUME IInv, NEW r \in Runners, NEW q \in Queues,
           NEW who \in {"supervisor", "watcher", "nobody"},
           Spawned(r, q, who), UNCHANGED <<config, file, done>>
    PROVE  SlotInv'
  <1> DEFINE n == [pc |-> "load", queue |-> q, parent |-> who, doc |-> NoDoc(q), at |-> 1]
  <1>1. 1 \in 1..(Size[q] + 1)
    BY SizeAssumption
  <1>2. n \in RunnerOf(n.queue) /\ n.queue \in Queues /\ RunnerOK(n, config, done)
    BY <1>1, EmptyDoc DEF RunnerOf, RunnerOK
  <1>3. runner' = [runner EXCEPT ![r] = n]
    BY DEF Spawned
  <1> HIDE DEF n
  <1> QED
    BY <1>2, <1>3 DEF SlotInv, IInv, TypeOK, FileInv, RunnerInv

LEMMA FreedSlot ==
    ASSUME IInv, NEW r \in Runners, runner' = [runner EXCEPT ![r] = Idle],
           UNCHANGED <<config, file, done>>
    PROVE  SlotInv'
  BY IdleOK DEF SlotInv, IInv, TypeOK, FileInv, RunnerInv

LEMMA OrphanedSlots ==
    ASSUME IInv, NEW who, Orphaned(who), UNCHANGED <<config, file, done>>
    PROVE  /\ SlotInv'
           /\ \A r \in Runners : /\ runner'[r].queue = runner[r].queue
                                 /\ runner'[r].parent \in {runner[r].parent, "nobody"}
                                 /\ runner'[r].parent # "nobody" => runner'[r].parent # who
  <1> SUFFICES ASSUME NEW r \in Runners
               PROVE  /\ runner'[r] \in RunnerOf(runner[r].queue)
                      /\ runner'[r].queue = runner[r].queue
                      /\ runner'[r].parent \in {runner[r].parent, "nobody"}
                      /\ runner'[r].parent # "nobody" => runner'[r].parent # who
                      /\ RunnerOK(runner'[r], config, done)
    BY DEF SlotInv, IInv, TypeOK, FileInv, RunnerInv, Orphaned
  <1>1. runner[r] \in RunnerOf(runner[r].queue) /\ RunnerOK(runner[r], config, done)
    BY DEF IInv, TypeOK, RunnerInv
  <1> DEFINE n == [runner[r] EXCEPT !.parent = "nobody"]
  <1>2. /\ n \in RunnerOf(runner[r].queue) /\ n.queue = runner[r].queue
        /\ n.parent = "nobody" /\ n.pc = runner[r].pc /\ n.doc = runner[r].doc
        /\ n.at = runner[r].at
    BY <1>1 DEF RunnerOf
  <1> HIDE DEF n
  <1>3. RunnerOK(n, config, done)
    BY <1>1, <1>2 DEF RunnerOK
  <1>4. runner'[r] = IF runner[r].parent = who THEN n ELSE runner[r]
    BY DEF Orphaned, n
  <1> QED
    BY <1>1, <1>2, <1>3, <1>4

LEMMA SameSlots ==
    ASSUME IInv, UNCHANGED <<config, file, runner, done>>
    PROVE  SlotInv'
  BY DEF SlotInv, IInv, TypeOK, FileInv, RunnerInv

LEMMA ReapInv ==
    ASSUME IInv, NEW r \in Runners, Reap(r) PROVE IInv'
  <1>1. SlotInv'
    BY FreedSlot DEF Reap
  <1>2. ChildInv'
    BY IdleOK DEF Reap, supervised, IInv, ChildInv, TypeOK
  <1> QED
    BY <1>1, <1>2
    DEF Reap, SlotInv, IInv, TypeOK, GateInv, BothEarned, prepared, supervised, watched

LEMMA PersonInv ==
    ASSUME IInv, Person PROVE IInv'
  <1> USE BoundAssumption
  <1>1. CASE SupervisorStarts
    <2>1. SlotInv'
      BY <1>1, SameSlots DEF SupervisorStarts
    <2>2. ChildInv' /\ GateInv'
      BY <1>1 DEF SupervisorStarts, IInv, ChildInv, GateInv, BothEarned, TypeOK, Queues, watched
    <2> QED
      BY <1>1, <2>1, <2>2 DEF SupervisorStarts, SlotInv, IInv, TypeOK, Started, prepared, watched
  <1>2. CASE WatcherStarts
    <2>1. SlotInv'
      BY <1>2, SameSlots DEF WatcherStarts
    <2>2. ChildInv' /\ GateInv'
      BY <1>2 DEF WatcherStarts, IInv, ChildInv, GateInv, BothEarned, supervised
    <2> QED
      BY <1>2, <2>1, <2>2 DEF WatcherStarts, SlotInv, IInv, TypeOK, Started, prepared, supervised
  <1>3. CASE PrepareAgain
    <2>1. SlotInv'
      BY <1>3, SameSlots DEF PrepareAgain
    <2>2. ChildInv' /\ GateInv'
      BY <1>3 DEF PrepareAgain, IInv, ChildInv, GateInv, BothEarned, supervised, watched
    <2> QED
      BY <1>3, <2>1, <2>2
      DEF PrepareAgain, SlotInv, IInv, TypeOK, Started, supervised, watched
  <1>4. CASE \E c \in Configs : Edit(c)
    <2>1. PICK c \in Configs : Edit(c)
      BY <1>4
    <2>2. RunnerInv'
      BY <2>1 DEF Edit, IInv, RunnerInv, RunnerOK
    <2>3. FileInv' /\ ChildInv' /\ GateInv'
      BY <2>1 DEF Edit, IInv, FileInv, ChildInv, GateInv, BothEarned, supervised, watched
    <2> QED
      BY <2>1, <2>2, <2>3 DEF Edit, IInv, TypeOK, prepared, supervised, watched
  <1>5. ASSUME NEW r \in Runners, NEW q \in Queues, Started, Spawned(r, q, "nobody"),
               UNCHANGED <<config, file, prepared, fetch, supervised, watched, done, lost, edits>>
        PROVE  IInv'
    <2>1. SlotInv'
      BY <1>5, SpawnedSlot
    <2>2. ChildInv' /\ GateInv'
      BY <1>5 DEF Spawned, IInv, TypeOK, ChildInv, GateInv, BothEarned, supervised, watched
    <2> QED
      BY <1>5, <2>1, <2>2 DEF SlotInv, IInv, TypeOK, Started, prepared, supervised, watched
  <1>6. CASE \E r \in Runners : LaunchAfterPrepare(r) \/ \E q \in Queues : StartByHand(r, q)
    BY <1>5, <1>6 DEF LaunchAfterPrepare, StartByHand, Queues
  <1> QED
    BY <1>1, <1>2, <1>3, <1>4, <1>6 DEF Person

LEMMA OutsideInv ==
    ASSUME IInv, PrepareEnds \/ FetchEnds \/ FetchLost PROVE IInv'
  <1>1. SlotInv'
    BY SameSlots DEF PrepareEnds, FetchEnds, FetchLost
  <1>2. ChildInv' /\ GateInv'
    BY DEF PrepareEnds, FetchEnds, FetchLost, IInv, ChildInv, GateInv, BothEarned, supervised,
           watched
  <1> QED
    BY <1>1, <1>2, BoundAssumption
    DEF PrepareEnds, FetchEnds, FetchLost, Loss, SlotInv, IInv, TypeOK, prepared, supervised, watched

LEMMA WatcherInv ==
    ASSUME IInv, WatcherStep \/ WatcherKilled PROVE IInv'
  <1>1. CASE Poll
    <2>1. SlotInv'
      BY <1>1, SameSlots DEF Poll
    <2>2. ChildInv' /\ GateInv'
      BY <1>1 DEF Poll, Outcome, IInv, ChildInv, GateInv, BothEarned, supervised
    <2> QED
      BY <1>1, <2>1, <2>2 DEF Poll, SlotInv, IInv, TypeOK, prepared, supervised
  <1>2. ASSUME NEW r \in Runners, StartNextQueue(r) PROVE IInv'
    <2>1. SlotInv'
      BY <1>2, SpawnedSlot DEF StartNextQueue, Queues
    <2>2. ChildInv' /\ GateInv'
      BY <1>2 DEF StartNextQueue, Spawned, IInv, TypeOK, ChildInv, GateInv, BothEarned, supervised
    <2> QED
      BY <1>2, <2>1, <2>2 DEF StartNextQueue, SlotInv, IInv, TypeOK, prepared, supervised
  <1>3. ASSUME NEW r \in Runners, NextQueueEnds(r) PROVE IInv'
    <2>1. SlotInv'
      BY <1>3, FreedSlot DEF NextQueueEnds, Collected
    <2>2. ChildInv' /\ GateInv'
      BY <1>3, IdleOK
      DEF NextQueueEnds, Collected, IInv, TypeOK, ChildInv, GateInv, BothEarned, supervised
    <2> QED
      BY <1>3, <2>1, <2>2 DEF NextQueueEnds, SlotInv, IInv, TypeOK, prepared, supervised
  <1>4. CASE WatcherKilled
    <2>1. /\ SlotInv'
          /\ \A r \in Runners : /\ runner'[r].queue = runner[r].queue
                                /\ runner'[r].parent \in {runner[r].parent, "nobody"}
      BY <1>4, OrphanedSlots DEF WatcherKilled
    <2>2. ChildInv' /\ GateInv'
      BY <1>4, <2>1 DEF WatcherKilled, IInv, ChildInv, GateInv, BothEarned, supervised
    <2> QED
      BY <1>4, <2>1, <2>2, BoundAssumption
      DEF WatcherKilled, Loss, SlotInv, IInv, TypeOK, prepared, supervised
  <1> QED
    BY <1>1, <1>2, <1>3, <1>4 DEF WatcherStep

(* The supervisor has no child where it is not at a queue.                  *)
LEMMA NoChild ==
    ASSUME IInv, sup \notin Queues
    PROVE  \A r \in Runners : runner[r].parent # "supervisor"
  BY DEF IInv, TypeOK, ChildInv

LEMMA SupervisorInv ==
    ASSUME IInv, SupervisorStep \/ SupervisorKilled PROVE IInv'
  <1>1. CASE CriticsPass \/ CriticsFail \/ FindFetch \/ SignalFetch \/ SignalRaises
             \/ FetchWaitedFor \/ BaseStageFails
    <2> USE <1>1 DEF CriticsPass, CriticsFail, FindFetch, SignalFetch, SignalRaises,
                     FetchWaitedFor, BaseStageFails
    <2>1. SlotInv'
      BY SameSlots
    <2>2. ChildInv'
      <3>1. \A r \in Runners : runner[r].parent # "supervisor"
        BY NoChild DEF Queues
      <3> QED
        BY <3>1 DEF ChildInv
    <2>3. GateInv'
      BY DEF IInv, GateInv, BothEarned, watched
    <2> QED
      BY <2>1, <2>2, <2>3 DEF SlotInv, IInv, TypeOK, prepared, watched
  <1>2. ASSUME NEW r \in Runners, StartGpuQueue(r) \/ BaseStaged(r) PROVE IInv'
    <2> USE <1>2 DEF StartGpuQueue, BaseStaged
    <2>1. SlotInv'
      BY SpawnedSlot DEF Queues
    <2>2. ChildInv'
      <3>1. \A s \in Runners : runner[s].parent # "supervisor"
        BY NoChild DEF Queues
      <3>2. runner'[r].queue = sup' /\ \A s \in Runners : s # r => runner'[s] = runner[s]
        BY DEF Spawned, IInv, TypeOK
      <3> QED
        BY <3>1, <3>2 DEF ChildInv
    <2>3. GateInv'
      BY DEF IInv, GateInv, BothEarned, watched
    <2> QED
      BY <2>1, <2>2, <2>3 DEF SlotInv, IInv, TypeOK, prepared, watched
  <1>3. ASSUME NEW r \in Runners, GpuQueueEnds(r) \/ BaseQueueEnds(r) PROVE IInv'
    <2> USE <1>3 DEF GpuQueueEnds, BaseQueueEnds
    <2>1. SlotInv'
      BY FreedSlot DEF Collected
    <2>2. ChildInv'
      <3>1. \A s \in Runners : runner'[s].parent # "supervisor"
        BY IdleOK DEF Collected, IInv, TypeOK, ChildInv
      <3> QED
        BY <3>1 DEF ChildInv
    <2>3. Succeeded(r) => AllEarned(sup, config, done)
      BY DEF Collected, Succeeded, IInv, ChildInv, RunnerInv, RunnerOK
    <2>4. GateInv'
      BY <2>3 DEF IInv, TypeOK, GateInv, BothEarned, watched
    <2> QED
      BY <2>1, <2>2, <2>4 DEF SlotInv, IInv, TypeOK, prepared, watched
  <1>4. CASE SupervisorKilled
    <2>1. /\ SlotInv'
          /\ \A r \in Runners : /\ runner'[r].parent \in {runner[r].parent, "nobody"}
                                /\ runner'[r].parent # "nobody"
                                     => runner'[r].parent # "supervisor"
      BY <1>4, OrphanedSlots DEF SupervisorKilled
    <2>2. ChildInv' /\ GateInv'
      BY <1>4, <2>1 DEF SupervisorKilled, IInv, ChildInv, GateInv, BothEarned, watched
    <2> QED
      BY <1>4, <2>1, <2>2, BoundAssumption
      DEF SupervisorKilled, Loss, SlotInv, IInv, TypeOK, prepared, watched
  <1> QED
    BY <1>1, <1>2, <1>3, <1>4 DEF SupervisorStep

-----------------------------------------------------------------------------
(* Theorems *)

LEMMA RunnerStepInv ==
    ASSUME IInv, NEW r \in Runners, RunnerStep(r) PROVE IInv'
  BY LoadInv, BeginInv, SkipInv, RunItemInv, ItemCompleteInv, ItemFailedInv, QueueFailedInv,
     QueueCompleteInv, ReapInv DEF RunnerStep

LEMMA StutterInv ==
    ASSUME IInv, UNCHANGED vars PROVE IInv'
  BY DEF vars, IInv, TypeOK, FileInv, RunnerInv, ChildInv, GateInv, BothEarned

(* The inductive invariant: every "complete" in a file, a copy or an exit   *)
(* code stands for successes that happened, and the supervisor's child is   *)
(* the queue whose success it is about to act on.                           *)
THEOREM PipelineInvariance == Spec => []IInv
  <1>1. IInv /\ [Next]_vars => IInv'
    BY RunnerStepInv, RunnerLostInv, SupervisorInv, WatcherInv, OutsideInv, PersonInv, StutterInv
    DEF Next, Killed
  <1> QED
    BY InitInv, <1>1, PTL DEF Spec

(* The variables of the pipeline keep their types.                          *)
THEOREM PipelineTypes == Spec => []TypeOK
  <1>1. IInv => TypeOK
    BY DEF IInv
  <1> QED
    BY <1>1, PipelineInvariance, PTL

(* For any number of queue processes that rewrite one state file and may be *)
(* killed between two writes: success that is recorded or reported was had  *)
(* by every item, under the config that is named (queue.py: run_queue).     *)
THEOREM SuccessWasEarned == Spec => []SuccessIsEarned
  <1>1. IInv => SuccessIsEarned
    BY DEF IInv, FileInv, FileOK, RunnerInv, RunnerOK, SuccessIsEarned, Earned, AllEarned
  <1> QED
    BY <1>1, PipelineInvariance, PTL

(* Base queue and follower start only on the success of what comes before   *)
(* (pipeline_supervisor.py, queue_after_state.py).                          *)
THEOREM GatesHold == Spec => []StagesAreGated
  <1>1. IInv => StagesAreGated
    BY DEF IInv, GateInv, BothEarned, StagesAreGated, Earned, AllEarned
  <1> QED
    BY <1>1, PipelineInvariance, PTL
=============================================================================
