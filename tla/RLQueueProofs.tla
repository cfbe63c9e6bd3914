---------------------------- MODULE RLQueueProofs ----------------------------
(***************************************************************************)
(* Theorems about RLQueue, for every number of items, every configuration   *)
(* and any number of workers, operators, operator commands, retries and     *)
(* crashes.                                                                  *)
(***************************************************************************)
EXTENDS RLQueue, TLAPS

(* ----- What the operators on documents preserve ----- *)

\* NoDoc is a document: the placeholder for "nothing loaded" is well typed.
LEMMA NoDocType == NoDoc \in Doc /\ NoDoc.rev = 0
  BY DEF NoDoc, Doc, FreshItem, Item, Statuses

\* Changing the status of a set of items (promotion, reset) yields a document.
LEMMA WithStatusType ==
  ASSUME NEW d \in Doc, NEW S, NEW s \in Statuses
  PROVE  /\ WithStatus(d, S, s) \in Doc
         /\ WithStatus(d, S, s).rev = d.rev
         /\ \A i \in Items : WithStatus(d, S, s).items[i].ref = d.items[i].ref
         /\ \A i \in Items : WithStatus(d, S, s).items[i].status =
                                IF i \in S THEN s ELSE d.items[i].status
  <1> DEFINE f == [i \in Items |-> IF i \in S THEN [d.items[i] EXCEPT !.status = s]
                                   ELSE d.items[i]]
  <1>1. d.items \in [Items -> Item]
    BY DEF Doc
  <1>2. f \in [Items -> Item]
    BY <1>1 DEF Item
  <1>3. WithStatus(d, S, s) = [rev |-> d.rev, items |-> f]
    BY DEF WithStatus, Doc
  <1>4. \A i \in Items : /\ f[i].ref = d.items[i].ref
                         /\ f[i].status = IF i \in S THEN s ELSE d.items[i].status
    BY <1>1 DEF Item
  <1> HIDE DEF f
  <1> QED
    BY <1>2, <1>3, <1>4 DEF Doc

\* write_queue keeps the items of the copy and gives the file a fresh version.
LEMMA WrittenType ==
  ASSUME queue \in Doc, NEW d \in Doc
  PROVE  /\ Written(d) \in Doc
         /\ Written(d).rev = queue.rev + 1 /\ Written(d).rev > 0
         /\ Written(d).items = d.items
  BY DEF Written, Doc

\* update_item yields an item, whatever the update.
LEMMA UpdatedType ==
  ASSUME NEW u \in Updates, NEW it \in Item, NEW c \in Doc, NEW r
  PROVE  Updated(u, it, c, r) \in Item
  <1>1. c.rev \in Nat
    BY DEF Doc
  <1> QED
    BY <1>1 DEF Updated, Updates, Item, Statuses, ActiveStatuses

\* One item of a document replaced by another item.
LEMMA SetItemType ==
  ASSUME NEW d \in Doc, NEW i \in Items, NEW it \in Item
  PROVE  /\ [d EXCEPT !.items[i] = it] \in Doc
         /\ [d EXCEPT !.items[i] = it].rev = d.rev
         /\ [d EXCEPT !.items[i] = it].items = [d.items EXCEPT ![i] = it]
  BY DEF Doc

\* set_item_approval changes neither the contract nor the status of any item.
LEMMA ApproveType ==
  ASSUME NEW d \in Doc, NEW i, NEW b \in BOOLEAN
  PROVE  /\ WithApproval(d, i, b) \in Doc
         /\ WithApproval(d, i, b).rev = d.rev
         /\ \A j \in Items :
               /\ WithApproval(d, i, b).items[j].ref = d.items[j].ref
               /\ WithApproval(d, i, b).items[j].status = d.items[j].status
               /\ WithApproval(d, i, b).items[j].post = d.items[j].post
               /\ WithApproval(d, i, b).items[j].gate = d.items[j].gate
  <1>1. PICK r \in Nat, f \in [Items -> Item] : d = [rev |-> r, items |-> f]
    BY DEF Doc
  <1> DEFINE g == [f EXCEPT ![i].approved = b]
  <1>2. g \in [Items -> Item]
    BY <1>1 DEF Item
  <1>3. \A j \in Items : /\ g[j].ref = f[j].ref /\ g[j].status = f[j].status
                         /\ g[j].post = f[j].post /\ g[j].gate = f[j].gate
    BY <1>1 DEF Item
  <1>4. WithApproval(d, i, b) = [rev |-> r, items |-> g]
    BY <1>1 DEF WithApproval
  <1> HIDE DEF g
  <1> QED
    BY <1>1, <1>2, <1>3, <1>4 DEF Doc

(* ----- Type correctness ----- *)

\* Moving a worker's program counter, with or without an update in progress.
LEMMA GotoType ==
  ASSUME TypeOK, NEW p, NEW s \in Steps, NEW u \in Updates \cup {"none"}, Goto(p, s, u)
  PROVE  /\ pc' \in [Workers -> Steps]
         /\ upd' \in [Workers -> Updates \cup {"none"}]
  BY DEF TypeOK, Goto

LEMMA CallType ==
  ASSUME TypeOK, NEW p, NEW u \in Updates, Call(p, u)
  PROVE  /\ pc' \in [Workers -> Steps]
         /\ upd' \in [Workers -> Updates \cup {"none"}]
  BY GotoType DEF Call, Steps

\* Spending one unit of a bound leaves natural numbers.
LEMMA BudgetType ==
  ASSUME NEW b \in Budget
  PROVE  /\ b.ops > 0 => [b EXCEPT !.ops = @ - 1] \in Budget
         /\ b.retries > 0 => [b EXCEPT !.retries = @ - 1] \in Budget
         /\ b.crashes > 0 => [b EXCEPT !.crashes = @ - 1] \in Budget
  BY DEF Budget

\* A worker that is processing has an item to process.
CurInv == \A p \in Workers : pc[p] \in InItem => cur[p] \in Items

LEMMA StopType ==
  ASSUME TypeOK, NEW p \in Workers, Stop(p)
  PROVE  /\ lock' \in Workers \cup {Free}
         /\ pc' \in [Workers -> Steps]
         /\ mode' \in [Workers -> {"none", "watch", "once", "retry"}]
         /\ upd' \in [Workers -> Updates \cup {"none"}]
         /\ cur' \in [Workers -> 0..N]
         /\ mem' \in [Workers -> Doc]
         /\ results' \in [Workers -> Seq({"pass", "fail", "skip"})]
  <1>1. 0 \in 0..N /\ "off" \in Steps /\ <<>> \in Seq({"pass", "fail", "skip"})
    BY NAssumption DEF Steps
  <1> QED
    BY <1>1, NoDocType DEF TypeOK, Stop

\* What a worker writes back is a document one version later.
LEMMA WriteBackType ==
  ASSUME TypeOK, NEW p \in Workers, cur[p] \in Items, upd[p] \in Updates, WriteBack(p)
  PROVE  /\ queue' \in Doc /\ queue'.rev = queue.rev + 1 /\ queue'.rev > 0
         /\ queue'.items = [mem[p].items EXCEPT ![cur[p]] =
                Updated(upd[p], mem[p].items[cur[p]], contract[cur[p]], results[p])]
         /\ stale' \in SUBSET Items
  <1> DEFINE i == cur[p]
             it == Updated(upd[p], mem[p].items[i], contract[i], results[p])
             d == [mem[p] EXCEPT !.items[i] = it]
  <1>1. /\ mem[p] \in Doc /\ contract[i] \in Doc /\ i \in Items /\ queue \in Doc
        /\ mem[p].items[i] \in Item
    BY DEF TypeOK, Doc
  <1>2. it \in Item
    BY <1>1, UpdatedType
  <1> HIDE DEF it
  <1>3. d \in Doc /\ d.items = [mem[p].items EXCEPT ![i] = it]
    BY <1>1, <1>2, SetItemType
  <1>4. queue' = Written(d) /\ stale' = stale \ {i}
    BY DEF WriteBack, it
  <1> HIDE DEF d
  <1> QED
    BY <1>1, <1>3, <1>4, WrittenType DEF TypeOK, it

\* The type invariant is preserved by every step, given that a processing
\* worker has an item.
LEMMA TypeStep ==
  ASSUME TypeOK, CurInv, [Next]_vars
  PROVE  TypeOK'
  <1> USE DEF TypeOK
  <1>0. 0 \in 0..N /\ Items \subseteq 0..N
    BY NAssumption DEF Items
  <1>25. OpOff \in OpState
    BY <1>0, NoDocType DEF OpOff, OpState
  <1>1. ASSUME NEW p \in Workers, NEW m \in {"watch", "once"}, StartWatcher(p, m)
        PROVE TypeOK'
    BY <1>1 DEF StartWatcher, TakeLock, Goto, Steps, files, ghosts
  <1>2. ASSUME NEW p \in Workers, LoadNext(p) PROVE TypeOK'
    BY <1>2 DEF LoadNext, Goto, Steps, files, ghosts
  <1>3. ASSUME NEW p \in Workers, Promote(p) PROVE TypeOK'
    <2>1. Promoted(mem[p]) \in Doc
      BY WithStatusType DEF Promoted, Statuses
    <2>2. queue' \in Doc /\ queue'.rev > 0
      BY <1>3, <2>1, WrittenType DEF Promote
    <2> QED
      BY <1>3, <2>2, NoDocType DEF Promote, Goto, Steps, ghosts
  <1>4. ASSUME NEW p \in Workers, Reload(p) PROVE TypeOK'
    BY <1>4 DEF Reload, Goto, Steps, files, ghosts
  <1>5. ASSUME NEW p \in Workers, Pick(p) PROVE TypeOK'
    BY <1>5, <1>0 DEF Pick, NextPending, Runnable, Goto, Steps, files, ghosts
  <1>6. ASSUME NEW p \in Workers, Idle(p) PROVE TypeOK'
    <2>1. CASE mode[p] = "once" \/ StopWhenIdle
      BY <1>6, <2>1, StopType DEF Idle, files, ghosts
    <2>2. CASE ~(mode[p] = "once" \/ StopWhenIdle)
      <3>1. Goto(p, "top", "none") /\ mem' \in [Workers -> Doc]
        BY <1>6, <2>2, NoDocType DEF Idle
      <3>2. pc' \in [Workers -> Steps] /\ upd' \in [Workers -> Updates \cup {"none"}]
        BY <3>1, GotoType DEF Steps
      <3> QED
        BY <1>6, <2>2, <3>1, <3>2 DEF Idle, files, ghosts
    <2> QED
      BY <2>1, <2>2
  <1>7. ASSUME NEW p \in Workers, Prepare(p) PROVE TypeOK'
    BY <1>7 DEF Prepare, Goto, Call, Steps, Updates, files, ghosts
  <1>8. ASSUME NEW p \in Workers, Freeze(p) PROVE TypeOK'
    <2>1. pc' \in [Workers -> Steps] /\ upd' \in [Workers -> Updates \cup {"none"}]
      BY <1>8, CallType DEF Freeze, Updates
    <2>2. contract' \in [Items -> Doc] /\ mem' \in [Workers -> Doc]
      <3>1. \/ contract' = contract
            \/ contract' = [contract EXCEPT ![cur[p]] =
                              IF contract[cur[p]] = NoDoc THEN mem[p] ELSE contract[cur[p]]]
        BY <1>8 DEF Freeze, Frozen
      <3>2. mem' = [mem EXCEPT ![p] = NoDoc]
        BY <1>8 DEF Freeze
      <3>3. cur[p] \in Items
        BY <1>8 DEF Freeze, CurInv, InItem
      <3>4. mem' \in [Workers -> Doc]
        BY <3>2, NoDocType
      <3>5. mem[p] \in Doc /\ contract[cur[p]] \in Doc
        BY <3>3
      <3>6. contract' \in [Items -> Doc]
        <4> DEFINE c == IF contract[cur[p]] = NoDoc THEN mem[p] ELSE contract[cur[p]]
        <4>1. c \in Doc
          BY <3>5
        <4> HIDE DEF c
        <4>2. contract' = contract \/ contract' = [contract EXCEPT ![cur[p]] = c]
          BY <3>1 DEF c
        <4> QED
          BY <4>1, <4>2
      <3> QED
        BY <3>4, <3>6
    <2> QED
      BY <1>8, <2>1, <2>2 DEF Freeze, ghosts
  <1>9. ASSUME NEW p \in Workers, UpdateLoad(p) PROVE TypeOK'
    BY <1>9 DEF UpdateLoad, Goto, Steps, files, ghosts
  <1>10. ASSUME NEW p \in Workers, UpdateWrite(p) PROVE TypeOK'
    <2>1. upd[p] \in Updates /\ cur[p] \in Items
      BY <1>10 DEF UpdateWrite, Updates, CurInv, InItem
    <2>2. /\ queue' \in Doc /\ queue'.rev > 0
          /\ stale' \in SUBSET Items
      BY <1>10, <2>1, WriteBackType DEF UpdateWrite
    <2>3. pc' \in [Workers -> Steps] /\ upd' \in [Workers -> Updates \cup {"none"}]
      BY <1>10 DEF UpdateWrite, BeginEval, Call, Goto, Steps, Updates
    <2> QED
      BY <1>10, <2>2, <2>3, NoDocType DEF UpdateWrite
  <1>11. ASSUME NEW p \in Workers, Finish(p) PROVE TypeOK'
    <2>1. upd[p] \in Updates /\ cur[p] \in Items
      BY <1>11 DEF Finish, Updates, CurInv, InItem
    <2>2. /\ queue' \in Doc /\ queue'.rev > 0
          /\ stale' \in SUBSET Items
      BY <1>11, <2>1, WriteBackType DEF Finish
    <2>3. CASE Leaves(p)
      BY <1>11, <2>2, <2>3, StopType DEF Finish
    <2>4. CASE ~Leaves(p)
      <3>1. Goto(p, "top", "none")
        BY <1>11, <2>4 DEF Finish
      <3>2. pc' \in [Workers -> Steps] /\ upd' \in [Workers -> Updates \cup {"none"}]
        BY <3>1, GotoType DEF Steps
      <3>3. <<>> \in Seq({"pass", "fail", "skip"})
        OBVIOUS
      <3>4. /\ cur' \in [Workers -> 0..N] /\ mem' \in [Workers -> Doc]
            /\ results' \in [Workers -> Seq({"pass", "fail", "skip"})]
        BY <1>11, <1>0, <2>4, <3>3, NoDocType DEF Finish
      <3> QED
        BY <1>11, <2>2, <2>4, <3>2, <3>4 DEF Finish
    <2> QED
      BY <2>3, <2>4
  <1>12. ASSUME NEW p \in Workers, Launch(p) PROVE TypeOK'
    <2>1. pc' \in [Workers -> Steps] /\ upd' \in [Workers -> Updates \cup {"none"}]
      BY <1>12, CallType, GotoType DEF Launch, Updates, Steps
    <2>2. starts' \in [Items -> Nat]
      <3>1. cur[p] \in Items /\ starts[cur[p]] + 1 \in Nat
        BY <1>12 DEF Launch, CurInv, InItem
      <3>2. starts' = starts \/ starts' = [starts EXCEPT ![cur[p]] = starts[cur[p]] + 1]
        BY <1>12 DEF Launch
      <3> QED
        BY <3>1, <3>2
    <2>3. job' \in [Items -> {"none", "saving", "saved"}]
      BY <1>12 DEF Launch
    <2> QED
      BY <1>12, <2>1, <2>2, <2>3 DEF Launch
  <1>13. ASSUME NEW p \in Workers, TrainEnd(p) PROVE TypeOK'
    <2>1. pc' \in [Workers -> Steps] /\ upd' \in [Workers -> Updates \cup {"none"}]
      BY <1>13, CallType, GotoType DEF TrainEnd, BeginEval, Updates, Steps
    <2>2. job' \in [Items -> {"none", "saving", "saved"}]
      BY <1>13 DEF TrainEnd
    <2> QED
      BY <1>13, <2>1, <2>2 DEF TrainEnd, ghosts
  <1>14. ASSUME NEW p \in Workers, Retain(p) PROVE TypeOK'
    BY <1>14 DEF Retain, Goto, Call, Steps, Updates, files, ghosts
  <1>15. ASSUME NEW p \in Workers, EvalSkip(p) PROVE TypeOK'
    BY <1>15 DEF EvalSkip, files, ghosts
  <1>16. ASSUME NEW p \in Workers, EvalRun(p) PROVE TypeOK'
    <2>1. pc' \in [Workers -> Steps] /\ upd' \in [Workers -> Updates \cup {"none"}]
      BY <1>16, CallType DEF EvalRun, Updates
    <2>2. ckpt' \in [Items -> SUBSET EvalIds]
      <3>1. PICK S : ckpt' = [ckpt EXCEPT ![cur[p]] = ckpt[cur[p]] \ S]
        BY <1>16 DEF EvalRun
      <3>2. cur[p] \in Items
        BY <1>16 DEF EvalRun, CurInv, InItem
      <3> QED
        BY <3>1, <3>2
    <2>3. results' \in [Workers -> Seq({"pass", "fail", "skip"})]
      <3>1. \/ results' = results
            \/ \E r \in {"pass", "fail"} :
                  results' = [results EXCEPT ![p] = Append(results[p], r)]
        BY <1>16 DEF EvalRun
      <3>2. \A r \in {"pass", "fail"} :
                Append(results[p], r) \in Seq({"pass", "fail", "skip"})
        OBVIOUS
      <3> QED
        BY <3>1, <3>2
    <2> QED
      BY <1>16, <2>1, <2>2, <2>3 DEF EvalRun, ghosts
  <1>17. ASSUME NEW p \in Workers, EvalEnd(p) PROVE TypeOK'
    BY <1>17 DEF EvalEnd, Goto, Call, Steps, Updates, files
  <1>18. ASSUME NEW p \in Workers, NEW i \in Items, StartRetry(p, i) PROVE TypeOK'
    <2>1. pc' \in [Workers -> Steps] /\ upd' \in [Workers -> Updates \cup {"none"}]
      BY <1>18, CallType DEF StartRetry, Updates
    <2>2. /\ lock' \in Workers \cup {Free} /\ cur' \in [Workers -> 0..N]
          /\ mode' \in [Workers -> {"none", "watch", "once", "retry"}]
      BY <1>18, <1>0 DEF StartRetry, TakeLock
    <2>3. left' \in Budget
      BY <1>18, BudgetType DEF StartRetry
    <2> QED
      BY <1>18, <2>1, <2>2, <2>3 DEF StartRetry, files, ghosts
  <1>19. ASSUME NEW p \in Workers, Crash(p) PROVE TypeOK'
    <2>1. stale' \in SUBSET Items
      BY <1>19 DEF Crash, Active
    <2>2. left' \in Budget
      BY <1>19, BudgetType DEF Crash
    <2>3. job' \in [Items -> {"none", "saving", "saved"}]
      BY <1>19 DEF Crash
    <2> QED
      BY <1>19, <2>1, <2>2, <2>3, StopType DEF Crash
  <1>20. ASSUME NEW o \in Operators, NEW i \in Items, NEW c \in {"arm", "disarm"},
                ApproveLoad(o, i, c)
         PROVE TypeOK'
    <2>1. [cmd |-> c, item |-> i, mem |-> queue] \in OpState
      BY <1>0 DEF OpState
    <2>2. left' \in Budget
      BY <1>20, BudgetType DEF ApproveLoad
    <2> QED
      BY <1>20, <2>1, <2>2 DEF ApproveLoad, files, ghosts, procs
  <1>21. ASSUME NEW o \in Operators, ApproveWrite(o) PROVE TypeOK'
    <2>1. op[o].mem \in Doc
      BY DEF OpState
    <2>2. WithApproval(op[o].mem, op[o].item, op[o].cmd = "arm") \in Doc
      BY <2>1, ApproveType
    <2>3. queue' \in Doc /\ queue'.rev > 0
      BY <1>21, <2>2, WrittenType DEF ApproveWrite
    <2> QED
      BY <1>21, <1>25, <2>3 DEF ApproveWrite, ghosts, procs
  <1>22. ASSUME NEW o \in Operators, ResetLoad(o) PROVE TypeOK'
    <2>1. [cmd |-> "reset", item |-> 0, mem |-> queue] \in OpState
      BY <1>0 DEF OpState
    <2>2. left' \in Budget
      BY <1>22, BudgetType DEF ResetLoad
    <2> QED
      BY <1>22, <2>1, <2>2 DEF ResetLoad, files, ghosts, procs
  <1>23. ASSUME NEW o \in Operators, ResetWrite(o) PROVE TypeOK'
    <2>1. WithStatus(op[o].mem, Active(op[o].mem), "pending") \in Doc
      BY WithStatusType DEF Statuses, OpState
    <2>2. queue' \in Doc /\ queue'.rev > 0
      BY <1>23, <2>1, WrittenType DEF ResetWrite
    <2> QED
      BY <1>23, <1>25, <2>2 DEF ResetWrite, procs
  <1>26. ASSUME NEW i \in Items, NEW k \in EvalIds, Save(i, k) PROVE TypeOK'
    <2>1. ckpt' \in [Items -> SUBSET EvalIds]
      BY <1>26 DEF Save
    <2>2. job' \in [Items -> {"none", "saving", "saved"}]
      <3>1. PICK v \in {"none", "saving", "saved"} : job' = [job EXCEPT ![i] = v]
        BY <1>26 DEF Save
      <3> QED
        BY <3>1
    <2> QED
      BY <1>26, <2>1, <2>2 DEF Save, ghosts, procs
  <1>27. ASSUME NEW i \in Items, OrphanEnd(i) PROVE TypeOK'
    BY <1>27 DEF OrphanEnd, ghosts, procs
  <1>24. CASE UNCHANGED vars
    BY <1>24 DEF vars
  <1> QED
    BY <1>1, <1>2, <1>3, <1>4, <1>5, <1>6, <1>7, <1>8, <1>9, <1>10, <1>11, <1>12,
       <1>13, <1>14, <1>15, <1>16, <1>17, <1>18, <1>19, <1>20, <1>21, <1>22, <1>23,
       <1>24, <1>26, <1>27 DEF Next, WorkerNext, Work, OperatorNext, TrainingNext

(* ----- The lock ----- *)

\* The holder of the flock is exactly the process that is running.
LockInv == \A p \in Workers : pc[p] # "off" <=> lock = p

\* What a step may do to the lock and to the program counters: one worker moves
\* on with the lock, takes it when free, or stops and frees it.
Moves(p) ==
    /\ pc[p] # "off" /\ lock' = lock
    /\ \E s \in Steps \ {"off"}, u \in Updates \cup {"none"} : Goto(p, s, u)
    /\ \/ cur' = cur
       \/ \E i \in 0..N : cur' = [cur EXCEPT ![p] = i]
    /\ pc'[p] \in InItem => cur'[p] \in Items

Enters(p) ==
    /\ pc[p] = "off" /\ lock = Free /\ lock' = p
    /\ \E s \in Steps \ {"off"}, u \in Updates \cup {"none"} : Goto(p, s, u)
    /\ \E i \in 0..N : cur' = [cur EXCEPT ![p] = i]
    /\ pc'[p] \in InItem => cur'[p] \in Items

Stops(p) == pc[p] # "off" /\ Stop(p)

LEMMA StepShape ==
  ASSUME TypeOK, CurInv, [Next]_vars
  PROVE  \/ \E p \in Workers : Moves(p) \/ Enters(p) \/ Stops(p)
         \/ UNCHANGED <<lock, pc, cur, upd>>
  <1>0. 0 \in 0..N /\ Items \subseteq 0..N
    BY NAssumption DEF Items
  <1>1. ASSUME NEW p \in Workers, NEW m \in {"watch", "once"}, StartWatcher(p, m)
        PROVE Enters(p)
    <2>1. Goto(p, "top", "none") /\ cur' = [cur EXCEPT ![p] = cur[p]]
      BY <1>1 DEF StartWatcher, TypeOK
    <2>2. pc'[p] = "top" /\ cur[p] \in 0..N
      BY <2>1 DEF Goto, TypeOK
    <2> QED
      BY <1>1, <2>1, <2>2 DEF StartWatcher, TakeLock, Enters, Steps, InItem
  <1>2. ASSUME NEW p \in Workers, NEW i \in Items, StartRetry(p, i) PROVE Enters(p)
    <2>1. PICK u \in Updates : Goto(p, "load", u)
      BY <1>2 DEF StartRetry, Call, Updates
    <2>2. pc'[p] = "load"
      BY <2>1 DEF Goto, TypeOK
    <2>3. cur' = [cur EXCEPT ![p] = i] /\ cur'[p] = i
      BY <1>2 DEF StartRetry, TypeOK
    <2> QED
      BY <1>0, <1>2, <2>1, <2>2, <2>3 DEF StartRetry, TakeLock, Enters, Steps
  <1>3. ASSUME NEW p \in Workers, Crash(p) PROVE Stops(p)
    BY <1>3 DEF Crash, Stops
  <1>4. ASSUME NEW p \in Workers, Pick(p) PROVE Moves(p)
    <2>1. PICK i \in Items : cur' = [cur EXCEPT ![p] = i]
      BY <1>4 DEF Pick, NextPending, Runnable
    <2>2. Goto(p, "prepare", "none") /\ cur'[p] = i /\ pc[p] = "pick" /\ lock' = lock
      BY <1>4, <2>1 DEF Pick, TypeOK
    <2> QED
      BY <1>0, <2>1, <2>2 DEF Moves, Steps
  <1>5. ASSUME NEW p \in Workers, Idle(p) PROVE Moves(p) \/ Stops(p)
    <2>1. CASE mode[p] = "once" \/ StopWhenIdle
      BY <1>5, <2>1 DEF Idle, Stops
    <2>2. CASE ~(mode[p] = "once" \/ StopWhenIdle)
      <3>1. Goto(p, "top", "none") /\ cur' = cur /\ pc[p] = "pick" /\ lock' = lock
        BY <1>5, <2>2 DEF Idle
      <3>2. pc'[p] = "top"
        BY <3>1 DEF Goto, TypeOK
      <3> QED
        BY <3>1, <3>2 DEF Moves, Steps, InItem
    <2> QED
      BY <2>1, <2>2
  <1>6. ASSUME NEW p \in Workers, Finish(p) PROVE Moves(p) \/ Stops(p)
    <2>1. CASE Leaves(p)
      BY <1>6, <2>1 DEF Finish, Stops
    <2>2. CASE ~Leaves(p)
      <3>1. /\ Goto(p, "top", "none") /\ cur' = [cur EXCEPT ![p] = 0]
            /\ pc[p] = "write" /\ lock' = lock
        BY <1>6, <2>2 DEF Finish
      <3>2. pc'[p] = "top"
        BY <3>1 DEF Goto, TypeOK
      <3> QED
        BY <1>0, <3>1, <3>2 DEF Moves, Steps, InItem
    <2> QED
      BY <2>1, <2>2
  <1>7. ASSUME NEW p \in Workers, LoadNext(p) \/ Promote(p) \/ Reload(p)
        PROVE Moves(p)
    <2>1. /\ pc[p] # "off" /\ cur' = cur /\ lock' = lock
          /\ \E s \in {"promote", "pick", "reload"} : Goto(p, s, "none")
      BY <1>7 DEF LoadNext, Promote, Reload
    <2>2. pc'[p] \notin InItem
      BY <2>1 DEF Goto, TypeOK, InItem
    <2> QED
      BY <2>1, <2>2 DEF Moves, Steps
  <1>8. ASSUME NEW p \in Workers,
               \/ Prepare(p) \/ Freeze(p) \/ UpdateLoad(p) \/ UpdateWrite(p) \/ Launch(p)
               \/ TrainEnd(p) \/ Retain(p) \/ EvalSkip(p) \/ EvalRun(p) \/ EvalEnd(p)
        PROVE Moves(p)
    <2>1. pc[p] \in InItem /\ cur' = cur /\ lock' = lock
      BY <1>8 DEF Prepare, Freeze, UpdateLoad, UpdateWrite, Launch, TrainEnd, Retain,
                  EvalSkip, EvalRun, EvalEnd, InItem, ghosts, files
    <2>2. \E s \in InItem, u \in Updates \cup {"none"} : Goto(p, s, u)
      <3>1. CASE Prepare(p) \/ Freeze(p) \/ UpdateLoad(p)
        BY <3>1 DEF Prepare, Freeze, UpdateLoad, Call, InItem, Updates, TypeOK
      <3>2. CASE UpdateWrite(p)
        BY <3>2 DEF UpdateWrite, BeginEval, Call, InItem, Updates
      <3>3. CASE Launch(p) \/ TrainEnd(p) \/ Retain(p) \/ EvalEnd(p)
        BY <3>3 DEF Launch, TrainEnd, Retain, EvalEnd, BeginEval, Call, InItem, Updates
      <3>4. CASE EvalSkip(p) \/ EvalRun(p)
        <4>1. CASE UNCHANGED <<pc, upd>>
          <5>1. Goto(p, pc[p], upd[p])
            BY <4>1 DEF Goto, TypeOK
          <5> QED
            BY <2>1, <5>1 DEF TypeOK
        <4>2. CASE Call(p, "efail")
          BY <4>2 DEF Call, InItem, Updates
        <4> QED
          BY <3>4, <4>1, <4>2 DEF EvalSkip, EvalRun
      <3> QED
        BY <1>8, <3>1, <3>2, <3>3, <3>4
    <2>3. cur'[p] \in Items
      BY <2>1 DEF CurInv
    <2>4. pc[p] # "off" /\ InItem \subseteq Steps \ {"off"}
      BY <2>1 DEF InItem, Steps
    <2> QED
      BY <2>1, <2>2, <2>3, <2>4 DEF Moves
  <1>9. ASSUME NEW o \in Operators, OperatorNext(o) PROVE UNCHANGED <<lock, pc, cur, upd>>
    BY <1>9 DEF OperatorNext, ApproveLoad, ApproveWrite, ResetLoad, ResetWrite, procs
  <1>10. CASE UNCHANGED vars
    BY <1>10 DEF vars
  <1>11. ASSUME NEW i \in Items, TrainingNext(i) PROVE UNCHANGED <<lock, pc, cur, upd>>
    BY <1>11 DEF TrainingNext, Save, OrphanEnd, procs
  <1> QED
    BY <1>1, <1>2, <1>3, <1>4, <1>5, <1>6, <1>7, <1>8, <1>9, <1>10, <1>11
       DEF Next, WorkerNext, Work

\* The holder is the running process, and a processing worker has an item.
LEMMA LockStep ==
  ASSUME TypeOK, CurInv, LockInv, [Next]_vars
  PROVE  CurInv' /\ LockInv'
  <1>1. ASSUME NEW p \in Workers, Moves(p) PROVE CurInv' /\ LockInv'
    <2>1. /\ \A q \in Workers : q # p => pc'[q] = pc[q] /\ cur'[q] = cur[q]
          /\ pc'[p] # "off" /\ pc[p] # "off" /\ lock' = lock
          /\ pc'[p] \in InItem => cur'[p] \in Items
      BY <1>1 DEF Moves, Goto, TypeOK
    <2> QED
      BY <2>1 DEF CurInv, LockInv
  <1>2. ASSUME NEW p \in Workers, Enters(p) PROVE CurInv' /\ LockInv'
    <2>1. /\ \A q \in Workers : q # p => pc'[q] = pc[q] /\ cur'[q] = cur[q]
          /\ pc'[p] # "off" /\ lock = Free /\ lock' = p
          /\ pc'[p] \in InItem => cur'[p] \in Items
      BY <1>2 DEF Enters, Goto, TypeOK
    <2> QED
      BY <2>1, ProcessAssumption DEF CurInv, LockInv
  <1>3. ASSUME NEW p \in Workers, Stops(p) PROVE CurInv' /\ LockInv'
    <2>1. /\ \A q \in Workers : q # p => pc'[q] = pc[q] /\ cur'[q] = cur[q]
          /\ pc'[p] = "off" /\ pc[p] # "off" /\ lock' = Free
      BY <1>3 DEF Stops, Stop, TypeOK
    <2> QED
      BY <2>1, ProcessAssumption DEF CurInv, LockInv, InItem
  <1>4. CASE UNCHANGED <<lock, pc, cur, upd>>
    BY <1>4 DEF CurInv, LockInv
  <1> QED
    BY <1>1, <1>2, <1>3, <1>4, StepShape

(* ----- Versions: why a run directory is launched at most once ----- *)

\* Between freezing the contract and starting the training command.
Marking(q) == \/ pc[q] \in {"load", "write"} /\ upd[q] = "mark"
              \/ pc[q] = "service"

\* What holds of the document and the item of one worker.
WorkerInv(q) ==
    \* the copy an item is picked from is younger than every launched contract
    /\ pc[q] \in {"pick", "prepare", "freeze"} =>
          /\ mem[q].rev > 0 /\ mem[q].rev <= queue.rev
          /\ \A i \in Items : starts[i] > 0 => contract[i].rev < mem[q].rev
    \* an item on its way to training has a contract and was never trained
    /\ Marking(q) => starts[cur[q]] = 0 /\ contract[cur[q]].rev > 0
    \* once marked, the file is younger than the contract
    /\ pc[q] = "service" => contract[cur[q]].rev < queue.rev

VersionInv ==
    /\ \A i \in Items : contract[i].rev <= queue.rev
    /\ \A i \in Items : starts[i] <= 1
    /\ \A i \in Items : starts[i] > 0 =>
          contract[i].rev > 0 /\ contract[i].rev < queue.rev
    /\ \A q \in Workers : WorkerInv(q)

\* The file only gets younger.
LEMMA RevGrows ==
  ASSUME TypeOK, CurInv, [Next]_vars
  PROVE  queue'.rev >= queue.rev
  <1> USE DEF TypeOK
  <1>0. queue.rev \in Nat
    BY DEF Doc
  <1>1. ASSUME NEW d \in Doc, queue' = Written(d) PROVE queue'.rev >= queue.rev
    BY <1>0, <1>1, WrittenType
  <1>2. ASSUME NEW p \in Workers, Promote(p) PROVE queue'.rev >= queue.rev
    <2>1. Promoted(mem[p]) \in Doc
      BY WithStatusType DEF Promoted, Statuses
    <2> QED
      BY <1>1, <1>2, <2>1 DEF Promote
  <1>3. ASSUME NEW p \in Workers, UpdateWrite(p) \/ Finish(p) PROVE queue'.rev >= queue.rev
    <2>1. upd[p] \in Updates /\ cur[p] \in Items /\ WriteBack(p)
      BY <1>3 DEF UpdateWrite, Finish, Updates, CurInv, InItem
    <2>2. queue'.rev = queue.rev + 1
      BY <2>1, WriteBackType
    <2> QED
      BY <1>0, <2>2
  <1>4. ASSUME NEW o \in Operators, ApproveWrite(o) PROVE queue'.rev >= queue.rev
    <2>1. WithApproval(op[o].mem, op[o].item, op[o].cmd = "arm") \in Doc
      BY ApproveType DEF OpState
    <2> QED
      BY <1>1, <1>4, <2>1 DEF ApproveWrite
  <1>5. ASSUME NEW o \in Operators, ResetWrite(o) PROVE queue'.rev >= queue.rev
    <2>1. WithStatus(op[o].mem, Active(op[o].mem), "pending") \in Doc
      BY WithStatusType DEF Statuses, OpState
    <2> QED
      BY <1>1, <1>5, <2>1 DEF ResetWrite
  <1>6. ASSUME NEW p \in Workers, Work(p),
               ~Promote(p), ~UpdateWrite(p), ~Finish(p)
        PROVE  queue' = queue
    BY <1>6 DEF Work, LoadNext, Reload, Pick, Idle, Prepare, Freeze, UpdateLoad, Launch,
                TrainEnd, Retain, EvalSkip, EvalRun, EvalEnd, files
  <1>7. ASSUME NEW p \in Workers, WorkerNext(p), ~Work(p) PROVE queue' = queue
    BY <1>7 DEF WorkerNext, StartWatcher, StartRetry, Crash, files
  <1>8. ASSUME NEW o \in Operators, OperatorNext(o), ~ApproveWrite(o), ~ResetWrite(o)
        PROVE queue' = queue
    BY <1>8 DEF OperatorNext, ApproveLoad, ResetLoad, files
  <1>9. CASE UNCHANGED vars
    BY <1>0, <1>9 DEF vars
  <1>10. ASSUME NEW i \in Items, TrainingNext(i) PROVE queue' = queue
    BY <1>10 DEF TrainingNext, Save, OrphanEnd
  <1> QED
    BY <1>0, <1>10, <1>2, <1>3, <1>4, <1>5, <1>6, <1>7, <1>8, <1>9 DEF Next

\* Steps that launch nothing and freeze nothing: only the moving worker matters.
LEMMA VersionFrame ==
  ASSUME TypeOK, CurInv, TypeOK', VersionInv, [Next]_vars,
         contract' = contract, starts' = starts,
         \A q \in Workers : \/ WorkerInv(q)'
                            \/ /\ pc'[q] = pc[q] /\ upd'[q] = upd[q]
                               /\ cur'[q] = cur[q] /\ mem'[q] = mem[q]
  PROVE  VersionInv'
  <1>1. queue'.rev >= queue.rev /\ queue'.rev \in Nat /\ queue.rev \in Nat
    BY RevGrows DEF TypeOK, Doc
  <1>2. \A i \in Items : contract[i].rev \in Nat
    BY DEF TypeOK, Doc
  <1>3. \A q \in Workers : mem[q].rev \in Nat
    BY DEF TypeOK, Doc
  <1>4. /\ \A i \in Items : contract'[i].rev <= queue'.rev
        /\ \A i \in Items : starts'[i] <= 1
        /\ \A i \in Items : starts'[i] > 0 =>
              contract'[i].rev > 0 /\ contract'[i].rev < queue'.rev
    BY <1>1, <1>2 DEF VersionInv
  <1>5. ASSUME NEW q \in Workers PROVE WorkerInv(q)'
    <2>1. CASE WorkerInv(q)'
      BY <2>1
    <2>2. CASE /\ pc'[q] = pc[q] /\ upd'[q] = upd[q]
               /\ cur'[q] = cur[q] /\ mem'[q] = mem[q]
      <3>1. WorkerInv(q)
        BY DEF VersionInv
      <3>2. pc[q] = "service" => cur[q] \in Items
        BY DEF CurInv, InItem
      <3> QED
        BY <1>1, <1>2, <1>3, <2>2, <3>1, <3>2 DEF WorkerInv, Marking
    <2> QED
      BY <2>1, <2>2
  <1> QED
    BY <1>4, <1>5 DEF VersionInv

LEMMA VersionStep ==
  ASSUME TypeOK, CurInv, LockInv, TypeOK', VersionInv, [Next]_vars
  PROVE  VersionInv'
  <1>0. /\ queue.rev \in Nat /\ queue.rev > 0
        /\ \A i \in Items : contract[i].rev \in Nat /\ starts[i] \in Nat
        /\ \A q \in Workers : mem[q].rev \in Nat
    BY DEF TypeOK, Doc
  <1>1. ASSUME NEW p \in Workers, Freeze(p) PROVE VersionInv'
    <2> DEFINE i == cur[p]
    <2>1. pc[p] = "freeze" /\ i \in Items
      BY <1>1 DEF Freeze, CurInv, InItem
    <2>2. \A q \in Workers \ {p} : pc[q] = "off"
      BY <2>1 DEF LockInv
    <2>3. /\ queue' = queue /\ starts' = starts /\ cur' = cur
          /\ \A q \in Workers \ {p} : pc'[q] = "off"
      BY <1>1, <2>2 DEF Freeze, Call, Goto, ghosts, TypeOK
    <2>4. /\ mem[p].rev > 0 /\ mem[p].rev <= queue.rev
          /\ starts[i] > 0 => contract[i].rev < mem[p].rev
      BY <2>1 DEF VersionInv, WorkerInv
    <2>5. CASE pc'[p] = "load" /\ upd'[p] = "fail" /\ contract' = contract
      <3>1. WorkerInv(p)'
        BY <2>5 DEF WorkerInv, Marking
      <3>2. \A q \in Workers \ {p} : WorkerInv(q)'
        BY <2>3 DEF WorkerInv, Marking
      <3> QED
        BY <2>3, <2>5, <3>1, <3>2 DEF VersionInv
    <2>6. CASE /\ ContractFits(i, mem[p])
               /\ contract' = [contract EXCEPT ![i] =
                                  IF contract[i] = NoDoc THEN mem[p] ELSE contract[i]]
               /\ pc'[p] = "load" /\ upd'[p] \in {"mark", "fail"}
      <3>1. contract'[i] = mem[p]
        BY <2>1, <2>6 DEF ContractFits, TypeOK
      <3>2. \A j \in Items \ {i} : contract'[j] = contract[j]
        BY <2>6 DEF TypeOK
      <3>3. starts[i] = 0
        <4>1. contract[i].rev = 0 \/ contract[i] = mem[p]
          BY <2>6, NoDocType DEF ContractFits
        <4> QED
          BY <1>0, <2>1, <2>4, <4>1 DEF VersionInv
      <3>4. WorkerInv(p)'
        BY <2>3, <2>4, <2>6, <3>1, <3>3 DEF WorkerInv, Marking
      <3>5. \A q \in Workers \ {p} : WorkerInv(q)'
        BY <2>3 DEF WorkerInv, Marking
      <3>6. /\ \A j \in Items : contract'[j].rev <= queue'.rev
            /\ \A j \in Items : starts'[j] > 0 =>
                  contract'[j].rev > 0 /\ contract'[j].rev < queue'.rev
        BY <1>0, <2>3, <2>4, <3>1, <3>2, <3>3 DEF VersionInv
      <3> QED
        BY <2>3, <3>4, <3>5, <3>6 DEF VersionInv
    <2> QED
      BY <1>1, <2>5, <2>6 DEF Freeze, Frozen, Call, Goto, TypeOK
  <1>2. ASSUME NEW p \in Workers, Launch(p) PROVE VersionInv'
    <2> DEFINE i == cur[p]
    <2>1. pc[p] = "service" /\ i \in Items
      BY <1>2 DEF Launch, CurInv, InItem
    <2>2. \A q \in Workers \ {p} : pc[q] = "off"
      BY <2>1 DEF LockInv
    <2>3. /\ queue' = queue /\ contract' = contract
          /\ \A q \in Workers \ {p} : pc'[q] = "off"
          /\ pc'[p] = "train" \/ (pc'[p] = "load" /\ upd'[p] = "fail")
      BY <1>2, <2>2 DEF Launch, Call, Goto, files, TypeOK
    <2>4. starts[i] = 0 /\ contract[i].rev > 0 /\ contract[i].rev < queue.rev
      BY <2>1 DEF VersionInv, WorkerInv, Marking
    <2>5. starts' = starts \/ starts' = [starts EXCEPT ![i] = 1]
      BY <1>0, <1>2, <2>1, <2>4 DEF Launch
    <2>6. \A q \in Workers : WorkerInv(q)'
      BY <2>3 DEF WorkerInv, Marking
    <2>7. \A j \in Items : starts'[j] = starts[j] \/ (j = i /\ starts'[j] = 1)
      BY <2>1, <2>5 DEF TypeOK
    <2>8. /\ \A j \in Items : contract'[j].rev <= queue'.rev
          /\ \A j \in Items : starts'[j] <= 1
          /\ \A j \in Items : starts'[j] > 0 =>
                contract'[j].rev > 0 /\ contract'[j].rev < queue'.rev
      <3>1. ASSUME NEW j \in Items, starts'[j] > 0
            PROVE  contract'[j].rev > 0 /\ contract'[j].rev < queue'.rev
        BY <2>3, <2>4, <2>7, <3>1 DEF VersionInv
      <3>2. ASSUME NEW j \in Items PROVE contract'[j].rev <= queue'.rev /\ starts'[j] <= 1
        BY <2>3, <2>7 DEF VersionInv
      <3> QED
        BY <3>1, <3>2
    <2> QED
      BY <2>6, <2>8 DEF VersionInv
  <1>3. ASSUME NEW p \in Workers, LoadNext(p) \/ Reload(p) PROVE VersionInv'
    <2>1. /\ mem'[p] = queue /\ queue' = queue /\ contract' = contract /\ starts' = starts
          /\ pc'[p] \in {"promote", "pick"} /\ cur' = cur
          /\ \A q \in Workers \ {p} : pc'[q] = pc[q] /\ upd'[q] = upd[q] /\ mem'[q] = mem[q]
      BY <1>3 DEF LoadNext, Reload, Goto, files, ghosts, TypeOK
    <2>2. WorkerInv(p)'
      BY <1>0, <2>1 DEF WorkerInv, Marking, VersionInv
    <2> QED
      BY <2>1, <2>2, VersionFrame
  <1>4. ASSUME NEW p \in Workers, Pick(p) \/ Prepare(p) PROVE VersionInv'
    <2>1. /\ mem' = mem /\ queue' = queue /\ contract' = contract /\ starts' = starts
          /\ pc[p] \in {"pick", "prepare"}
          /\ pc'[p] \in {"prepare", "freeze"} \/ (pc'[p] = "load" /\ upd'[p] = "fail")
          /\ \A q \in Workers \ {p} : pc'[q] = pc[q] /\ upd'[q] = upd[q] /\ cur'[q] = cur[q]
      BY <1>4 DEF Pick, Prepare, Call, Goto, files, ghosts, TypeOK
    <2>2. WorkerInv(p)'
      BY <2>1 DEF WorkerInv, Marking, VersionInv
    <2> QED
      BY <2>1, <2>2, VersionFrame
  <1>5. ASSUME NEW p \in Workers, UpdateLoad(p) PROVE VersionInv'
    <2>1. /\ queue' = queue /\ contract' = contract /\ starts' = starts /\ cur' = cur
          /\ pc[p] = "load" /\ pc'[p] = "write" /\ upd'[p] = upd[p]
          /\ \A q \in Workers \ {p} : pc'[q] = pc[q] /\ upd'[q] = upd[q] /\ mem'[q] = mem[q]
      BY <1>5 DEF UpdateLoad, Goto, files, ghosts, TypeOK
    <2>2. WorkerInv(p)'
      BY <2>1 DEF WorkerInv, Marking, VersionInv
    <2> QED
      BY <2>1, <2>2, VersionFrame
  <1>6. ASSUME NEW p \in Workers, UpdateWrite(p) PROVE VersionInv'
    <2>1. /\ contract' = contract /\ starts' = starts /\ cur' = cur
          /\ pc[p] = "write" /\ upd[p] \in Updates /\ cur[p] \in Items
          /\ \A q \in Workers \ {p} : pc'[q] = pc[q] /\ upd'[q] = upd[q] /\ mem'[q] = mem[q]
          /\ \/ upd[p] = "mark" /\ pc'[p] = "service"
             \/ pc'[p] = "load" /\ upd'[p] # "mark"
             \/ pc'[p] = "eval"
      BY <1>6 DEF UpdateWrite, BeginEval, Call, Goto, Updates, CurInv, InItem, TypeOK
    <2>2. queue'.rev = queue.rev + 1
      BY <1>6, <2>1, WriteBackType DEF UpdateWrite
    <2>3. WorkerInv(p)'
      BY <1>0, <2>1, <2>2 DEF WorkerInv, Marking, VersionInv
    <2> QED
      BY <2>1, <2>3, VersionFrame
  <1>7. ASSUME NEW p \in Workers,
               \/ Promote(p) \/ Idle(p) \/ Finish(p) \/ TrainEnd(p) \/ Retain(p)
               \/ EvalSkip(p) \/ EvalRun(p) \/ EvalEnd(p) \/ Crash(p)
               \/ \E m \in {"watch", "once"} : StartWatcher(p, m)
               \/ \E i \in Items : StartRetry(p, i)
        PROVE  VersionInv'
    <2>1. /\ contract' = contract /\ starts' = starts
          /\ \A q \in Workers \ {p} : /\ pc'[q] = pc[q] /\ upd'[q] = upd[q]
                                       /\ mem'[q] = mem[q] /\ cur'[q] = cur[q]
      <3>1. CASE Promote(p) \/ Idle(p) \/ Finish(p) \/ Crash(p)
        BY <3>1 DEF Promote, Idle, Finish, Crash, Stop, Goto, files, ghosts, TypeOK
      <3>2. CASE TrainEnd(p) \/ Retain(p) \/ EvalSkip(p) \/ EvalRun(p) \/ EvalEnd(p)
        <4>1. \/ UNCHANGED <<pc, upd>>
              \/ \E t \in Steps, u \in Updates \cup {"none"} : Goto(p, t, u)
          <5>1. CASE TrainEnd(p) \/ Retain(p) \/ EvalEnd(p)
            BY <5>1 DEF TrainEnd, Retain, EvalEnd, BeginEval, Call, Steps, Updates
          <5>2. CASE EvalSkip(p) \/ EvalRun(p)
            BY <5>2 DEF EvalSkip, EvalRun, Call, Steps, Updates
          <5> QED
            BY <3>2, <5>1, <5>2
        <4>2. UNCHANGED <<contract, starts, mem, cur>>
          BY <3>2 DEF TrainEnd, Retain, EvalSkip, EvalRun, EvalEnd, files, ghosts
        <4> QED
          BY <4>1, <4>2 DEF Goto, TypeOK
      <3>3. CASE \/ \E m \in {"watch", "once"} : StartWatcher(p, m)
                 \/ \E i \in Items : StartRetry(p, i)
        BY <3>3 DEF StartWatcher, StartRetry, Call, Goto, files, ghosts, TypeOK
      <3> QED
        BY <1>7, <3>1, <3>2, <3>3
    <2>2. \/ pc'[p] \in {"off", "top", "reload", "retain", "eval"}
          \/ pc'[p] = "load" /\ upd'[p] # "mark"
      <3>1. CASE Promote(p) \/ Idle(p) \/ Finish(p) \/ Crash(p)
        BY <3>1 DEF Promote, Idle, Finish, Crash, Stop, Goto, TypeOK
      <3>2. CASE TrainEnd(p) \/ Retain(p) \/ EvalSkip(p) \/ EvalRun(p) \/ EvalEnd(p)
        <4>1. CASE TrainEnd(p) \/ Retain(p) \/ EvalEnd(p)
          <5>1. \/ Goto(p, "retain", "none")
                \/ \E u \in Updates : u # "mark" /\ Call(p, u)
            BY <4>1 DEF TrainEnd, Retain, EvalEnd, BeginEval, Updates
          <5> QED
            BY <5>1 DEF Call, Goto, TypeOK
        <4>2. CASE EvalSkip(p) \/ EvalRun(p)
          BY <4>2 DEF EvalSkip, EvalRun, Call, Goto, TypeOK
        <4> QED
          BY <3>2, <4>1, <4>2
      <3>3. CASE \/ \E m \in {"watch", "once"} : StartWatcher(p, m)
                 \/ \E i \in Items : StartRetry(p, i)
        BY <3>3 DEF StartWatcher, StartRetry, Call, Goto, TypeOK
      <3> QED
        BY <1>7, <3>1, <3>2, <3>3
    <2>3. WorkerInv(p)'
      BY <2>2 DEF WorkerInv, Marking
    <2> QED
      BY <2>1, <2>3, VersionFrame
  <1>8. ASSUME NEW o \in Operators, OperatorNext(o) PROVE VersionInv'
    <2>1. UNCHANGED <<contract, starts, pc, upd, cur, mem>>
      BY <1>8 DEF OperatorNext, ApproveLoad, ApproveWrite, ResetLoad, ResetWrite,
                  files, ghosts, procs
    <2> QED
      BY <2>1, VersionFrame
  <1>9. CASE UNCHANGED vars
    BY <1>9, VersionFrame DEF vars
  <1>10. ASSUME NEW i \in Items, TrainingNext(i) PROVE VersionInv'
    <2>1. UNCHANGED <<contract, starts, pc, upd, cur, mem>>
      BY <1>10 DEF TrainingNext, Save, OrphanEnd, ghosts, procs
    <2> QED
      BY <2>1, VersionFrame
  <1> QED
    BY <1>1, <1>2, <1>3, <1>4, <1>5, <1>6, <1>7, <1>8, <1>9, <1>10 DEF Next, WorkerNext, Work

(* ----- Training commands and the watchers that wait for them ----- *)

\* A running training command was launched, and its watcher waits for it unless
\* a watcher was killed.
JobInv ==
    /\ left.crashes <= MaxCrashes
    /\ \A i \in Items : job[i] # "none" => starts[i] > 0
    /\ \A i \in Items : job[i] # "none" => Awaited(i) \/ left.crashes < MaxCrashes

\* Steps that start or end no training command leave the same ones awaited.
LEMMA AwaitedFrame ==
  ASSUME TypeOK, LockInv, NEW p \in Workers,
         \/ LoadNext(p) \/ Promote(p) \/ Reload(p) \/ Pick(p) \/ Idle(p)
         \/ Prepare(p) \/ Freeze(p) \/ UpdateLoad(p) \/ UpdateWrite(p)
         \/ Finish(p) \/ Retain(p) \/ EvalSkip(p) \/ EvalRun(p) \/ EvalEnd(p)
         \/ \E m \in {"watch", "once"} : StartWatcher(p, m)
         \/ \E i \in Items : StartRetry(p, i)
  PROVE  /\ job' = job /\ starts' = starts /\ left'.crashes = left.crashes
         /\ \A i \in Items : ~Awaited(i)
  <1>1. CASE \/ LoadNext(p) \/ Promote(p) \/ Reload(p) \/ Pick(p) \/ Idle(p)
             \/ Prepare(p) \/ Freeze(p) \/ UpdateLoad(p) \/ UpdateWrite(p)
             \/ Finish(p) \/ Retain(p) \/ EvalSkip(p) \/ EvalRun(p) \/ EvalEnd(p)
    <2>1. pc[p] \notin {"off", "train"} /\ job' = job /\ starts' = starts /\ left' = left
      BY <1>1 DEF LoadNext, Promote, Reload, Pick, Idle, Prepare, Freeze, UpdateLoad,
                  UpdateWrite, Finish, Retain, EvalSkip, EvalRun, EvalEnd, files, ghosts
    <2> QED
      BY <2>1 DEF LockInv, Awaited
  <1>2. CASE \/ \E m \in {"watch", "once"} : StartWatcher(p, m)
             \/ \E i \in Items : StartRetry(p, i)
    <2>1. lock = Free /\ job' = job /\ starts' = starts /\ left'.crashes = left.crashes
      BY <1>2 DEF StartWatcher, StartRetry, TakeLock, files, ghosts, TypeOK, Budget
    <2> QED
      BY <2>1, ProcessAssumption DEF LockInv, Awaited
  <1> QED
    BY <1>1, <1>2

LEMMA JobStep ==
  ASSUME TypeOK, CurInv, LockInv, VersionInv, JobInv, [Next]_vars
  PROVE  JobInv'
  <1>0. left.crashes \in Nat /\ MaxCrashes \in Nat /\ \A i \in Items : starts[i] \in Nat
    BY BoundAssumption DEF TypeOK, Budget
  <1>1. ASSUME NEW p \in Workers, Launch(p) PROVE JobInv'
    <2>1. pc[p] = "service" /\ cur[p] \in Items /\ cur' = cur /\ left' = left
      BY <1>1 DEF Launch, CurInv, InItem
    <2>2. \A i \in Items : ~Awaited(i)
      BY <2>1 DEF LockInv, Awaited
    <2>3. CASE /\ starts' = [starts EXCEPT ![cur[p]] = starts[cur[p]] + 1]
               /\ \E v : job' = [job EXCEPT ![cur[p]] = v]
               /\ Goto(p, "train", "none")
      <3>1. pc'[p] = "train" /\ Awaited(cur[p])'
        BY <2>1, <2>3 DEF Goto, TypeOK, Awaited
      <3>2. \A i \in Items \ {cur[p]} : job'[i] = job[i] /\ starts'[i] = starts[i]
        BY <2>3 DEF TypeOK
      <3>3. starts'[cur[p]] > 0
        BY <1>0, <2>1, <2>3 DEF TypeOK
      <3> QED
        BY <2>1, <2>2, <3>1, <3>2, <3>3 DEF JobInv
    <2>4. CASE starts' = starts /\ job' = job
      BY <2>1, <2>2, <2>4 DEF JobInv
    <2> QED
      BY <1>1, <2>3, <2>4 DEF Launch
  <1>2. ASSUME NEW p \in Workers, TrainEnd(p) PROVE JobInv'
    <2>1. /\ pc[p] = "train" /\ left' = left /\ starts' = starts
          /\ job' = [job EXCEPT ![cur[p]] = "none"]
      BY <1>2 DEF TrainEnd, ghosts
    <2>2. \A i \in Items : Awaited(i) => i = cur[p]
      BY <2>1 DEF LockInv, Awaited
    <2>3. \A i \in Items : job'[i] # "none" => job[i] # "none" /\ i # cur[p]
      BY <2>1 DEF TypeOK
    <2> QED
      BY <2>1, <2>2, <2>3 DEF JobInv
  <1>3. ASSUME NEW p \in Workers, Crash(p) PROVE JobInv'
    <2>1. starts' = starts /\ left'.crashes = left.crashes - 1 /\ left.crashes > 0
      BY <1>3 DEF Crash, TypeOK, Budget
    <2>2. \A i \in Items : job'[i] # "none" => job[i] # "none"
      BY <1>3 DEF Crash, TypeOK
    <2> QED
      BY <1>0, <2>1, <2>2 DEF JobInv
  <1>4. ASSUME NEW i \in Items, TrainingNext(i) PROVE JobInv'
    <2>1. UNCHANGED <<starts, left, pc, cur>>
      BY <1>4 DEF TrainingNext, Save, OrphanEnd, ghosts, procs
    <2>2. \A j \in Items : job'[j] # "none" => job[j] # "none"
      BY <1>4 DEF TrainingNext, Save, OrphanEnd, TypeOK
    <2> QED
      BY <2>1, <2>2 DEF JobInv, Awaited
  <1>5. ASSUME NEW o \in Operators, OperatorNext(o) PROVE JobInv'
    <2>1. UNCHANGED <<job, starts, pc, cur>> /\ left'.crashes = left.crashes
      BY <1>5 DEF OperatorNext, ApproveLoad, ApproveWrite, ResetLoad, ResetWrite,
                  files, ghosts, procs, TypeOK, Budget
    <2> QED
      BY <2>1 DEF JobInv, Awaited
  <1>6. CASE UNCHANGED vars
    BY <1>6 DEF vars, JobInv, Awaited
  <1>7. ASSUME NEW p \in Workers, WorkerNext(p), ~Launch(p), ~TrainEnd(p), ~Crash(p)
        PROVE  JobInv'
    <2>1. /\ job' = job /\ starts' = starts /\ left'.crashes = left.crashes
          /\ \A i \in Items : ~Awaited(i)
      BY <1>7, AwaitedFrame DEF WorkerNext, Work
    <2> QED
      BY <2>1 DEF JobInv
  <1> QED
    BY <1>1, <1>2, <1>3, <1>4, <1>5, <1>6, <1>7 DEF Next

(* ----- Copies: where every document in use comes from ----- *)

\* A step of one worker leaves the others and the operators where they are.
LEMMA LocalStep ==
  ASSUME TypeOK, NEW p \in Workers, WorkerNext(p)
  PROVE  /\ op' = op
         /\ \A q \in Workers \ {p} :
               /\ pc'[q] = pc[q] /\ upd'[q] = upd[q] /\ cur'[q] = cur[q]
               /\ mem'[q] = mem[q] /\ results'[q] = results[q]
  <1>1. CASE LoadNext(p) \/ Promote(p) \/ Reload(p) \/ Pick(p) \/ Prepare(p)
             \/ Freeze(p) \/ UpdateLoad(p)
    BY <1>1 DEF LoadNext, Promote, Reload, Pick, Prepare, Freeze, UpdateLoad,
                Call, Goto, TypeOK
  <1>2. CASE UpdateWrite(p)
    <2>1. \E s \in Steps, u \in Updates \cup {"none"} : Goto(p, s, u)
      BY <1>2 DEF UpdateWrite, BeginEval, Call, Steps, Updates
    <2>2. op' = op /\ cur' = cur /\ results' = results /\ mem' = [mem EXCEPT ![p] = NoDoc]
      BY <1>2 DEF UpdateWrite
    <2> QED
      BY <2>1, <2>2 DEF Goto, TypeOK
  <1>3. CASE Finish(p) \/ Idle(p) \/ Crash(p)
    BY <1>3 DEF Finish, Idle, Crash, Stop, Goto, TypeOK
  <1>4. CASE Launch(p) \/ TrainEnd(p) \/ Retain(p) \/ EvalEnd(p)
    <2>1. \E s \in Steps, u \in Updates \cup {"none"} : Goto(p, s, u)
      BY <1>4 DEF Launch, TrainEnd, Retain, EvalEnd, BeginEval, Call, Steps, Updates
    <2>2. UNCHANGED <<op, cur, mem, results>>
      BY <1>4 DEF Launch, TrainEnd, Retain, EvalEnd
    <2> QED
      BY <2>1, <2>2 DEF Goto, TypeOK
  <1>5. CASE EvalSkip(p) \/ EvalRun(p)
    BY <1>5 DEF EvalSkip, EvalRun, Call, Goto, TypeOK
  <1>6. CASE \/ \E m \in {"watch", "once"} : StartWatcher(p, m)
             \/ \E i \in Items : StartRetry(p, i)
    BY <1>6 DEF StartWatcher, StartRetry, Call, Goto, TypeOK
  <1> QED
    BY <1>1, <1>2, <1>3, <1>4, <1>5, <1>6 DEF WorkerNext, Work

\* What a worker holds after its step: its copy, the file, or nothing.
LEMMA MemStep ==
  ASSUME TypeOK, NEW p \in Workers, WorkerNext(p)
  PROVE  mem'[p] \in {mem[p], queue, NoDoc}
  <1>1. CASE LoadNext(p) \/ Promote(p) \/ Reload(p) \/ Freeze(p) \/ UpdateLoad(p)
             \/ UpdateWrite(p)
    BY <1>1 DEF LoadNext, Promote, Reload, Freeze, UpdateLoad, UpdateWrite, TypeOK
  <1>2. CASE Finish(p) \/ Idle(p) \/ Crash(p)
    BY <1>2 DEF Finish, Idle, Crash, Stop, TypeOK
  <1>3. CASE Pick(p) \/ Prepare(p) \/ Launch(p) \/ TrainEnd(p) \/ Retain(p)
             \/ EvalSkip(p) \/ EvalRun(p) \/ EvalEnd(p)
             \/ \E m \in {"watch", "once"} : StartWatcher(p, m)
             \/ \E i \in Items : StartRetry(p, i)
    BY <1>3 DEF Pick, Prepare, Launch, TrainEnd, Retain, EvalSkip, EvalRun, EvalEnd,
                StartWatcher, StartRetry
  <1> QED
    BY <1>1, <1>2, <1>3 DEF WorkerNext, Work

\* A contract is only ever written into an empty run directory, from the copy
\* the worker picked its item from.
LEMMA ContractStep ==
  ASSUME TypeOK, CurInv, [Next]_vars, contract' # contract
  PROVE  \E p \in Workers :
            /\ Freeze(p) /\ cur[p] \in Items /\ contract[cur[p]] = NoDoc
            /\ contract' = [contract EXCEPT ![cur[p]] = mem[p]]
  <1>1. PICK p \in Workers : Freeze(p)
    BY DEF Next, WorkerNext, Work, LoadNext, Promote, Reload, Pick, Idle, Prepare,
           UpdateLoad, UpdateWrite, Finish, Launch, TrainEnd, Retain, EvalSkip, EvalRun,
           EvalEnd, StartWatcher, StartRetry, Crash, OperatorNext, ApproveLoad,
           ApproveWrite, ResetLoad, ResetWrite, TrainingNext, Save, OrphanEnd, files, vars
  <1>2. cur[p] \in Items
    BY <1>1 DEF Freeze, CurInv, InItem
  <1>3. contract' = [contract EXCEPT ![cur[p]] =
                        IF contract[cur[p]] = NoDoc THEN mem[p] ELSE contract[cur[p]]]
    BY <1>1 DEF Freeze, Frozen
  <1>4. contract[cur[p]] = NoDoc
    BY <1>2, <1>3 DEF TypeOK
  <1> QED
    BY <1>1, <1>2, <1>3, <1>4

\* Nothing but the file changes its content: every document in use after a step
\* was in use before, or is empty, or is the file just written.
LEMMA DocsStep ==
  ASSUME TypeOK, CurInv, [Next]_vars
  PROVE  Docs' \subseteq Docs \cup {NoDoc, queue'}
  <1>1. \A q \in Workers : mem'[q] \in {mem[q], queue, NoDoc}
    <2>1. ASSUME NEW p \in Workers, WorkerNext(p), NEW q \in Workers
          PROVE  mem'[q] \in {mem[q], queue, NoDoc}
      BY <2>1, LocalStep, MemStep
    <2>2. CASE UNCHANGED mem
      BY <2>2
    <2>3. ASSUME NEW o \in Operators, OperatorNext(o) PROVE UNCHANGED mem
      BY <2>3 DEF OperatorNext, ApproveLoad, ApproveWrite, ResetLoad, ResetWrite, procs
    <2>4. ASSUME NEW i \in Items, TrainingNext(i) PROVE UNCHANGED mem
      BY <2>4 DEF TrainingNext, Save, OrphanEnd, procs
    <2> QED
      BY <2>1, <2>2, <2>3, <2>4 DEF Next, vars
  <1>2. \A o \in Operators : op'[o].mem \in {op[o].mem, queue, NoDoc}
    <2>1. ASSUME NEW r \in Operators, OperatorNext(r), NEW o \in Operators
          PROVE  op'[o].mem \in {op[o].mem, queue, NoDoc}
      <3>1. CASE ApproveWrite(r) \/ ResetWrite(r)
        <4>1. op' = [op EXCEPT ![r] = OpOff] /\ OpOff.mem = NoDoc
          BY <3>1 DEF ApproveWrite, ResetWrite, OpOff
        <4> QED
          BY <4>1 DEF TypeOK
      <3>2. CASE ResetLoad(r) \/ \E i \in Items, c \in {"arm", "disarm"} : ApproveLoad(r, i, c)
        <4>1. PICK c, i : op' = [op EXCEPT ![r] = [cmd |-> c, item |-> i, mem |-> queue]]
          BY <3>2 DEF ApproveLoad, ResetLoad
        <4> QED
          BY <4>1 DEF TypeOK
      <3> QED
        BY <2>1, <3>1, <3>2 DEF OperatorNext
    <2>2. ASSUME NEW p \in Workers, WorkerNext(p) PROVE op' = op
      BY <2>2, LocalStep
    <2>3. ASSUME NEW i \in Items, TrainingNext(i) PROVE op' = op
      BY <2>3 DEF TrainingNext, Save, OrphanEnd
    <2> QED
      BY <2>1, <2>2, <2>3 DEF Next, vars
  <1>3. \A i \in Items : contract'[i] \in Docs
    <2>1. CASE contract' = contract
      BY <2>1 DEF Docs
    <2>2. CASE contract' # contract
      BY <2>2, ContractStep DEF Docs, TypeOK
    <2> QED
      BY <2>1, <2>2
  <1> QED
    BY <1>1, <1>2, <1>3 DEF Docs

\* A new file is a copy in use with some statuses set to pending (promotion,
\* reset), approvals changed, or one item updated by the worker that has it.
LEMMA QueueStep ==
  ASSUME TypeOK, CurInv, [Next]_vars, queue' # queue
  PROVE  \E d \in Docs : \A i \in Items :
            \/ /\ queue'.items[i].ref = d.items[i].ref
               /\ queue'.items[i].status \in {d.items[i].status, "pending"}
            \/ \E p \in Workers :
                  /\ pc[p] = "write" /\ cur[p] = i /\ upd[p] \in Updates
                  /\ queue'.items[i] = Updated(upd[p], d.items[i], contract[i], results[p])
  <1> DEFINE
       Keeps(d, i) == /\ queue'.items[i].ref = d.items[i].ref
                      /\ queue'.items[i].status \in {d.items[i].status, "pending"}
       Updates1(d, i) == \E p \in Workers :
          /\ pc[p] = "write" /\ cur[p] = i /\ upd[p] \in Updates
          /\ queue'.items[i] = Updated(upd[p], d.items[i], contract[i], results[p])
       Source(d) == d \in Docs /\ \A i \in Items : Keeps(d, i) \/ Updates1(d, i)
  <1>0. /\ queue \in Doc
        /\ \A p \in Workers : mem[p] \in Doc /\ mem[p] \in Docs
        /\ \A o \in Operators : op[o].mem \in Doc /\ op[o].mem \in Docs
    BY DEF TypeOK, OpState, Docs
  <1>1. ASSUME NEW p \in Workers, Promote(p) PROVE Source(mem[p])
    <2>1. queue'.items = Promoted(mem[p]).items
      BY <1>0, <1>1, WrittenType, WithStatusType DEF Promote, Promoted, Statuses
    <2>2. \A i \in Items : Keeps(mem[p], i)
      BY <1>0, <2>1, WithStatusType DEF Promoted, Statuses
    <2> QED
      BY <1>0, <2>2
  <1>2. ASSUME NEW o \in Operators, ApproveWrite(o) PROVE Source(op[o].mem)
    <2>1. PICK b \in BOOLEAN : queue' = Written(WithApproval(op[o].mem, op[o].item, b))
      BY <1>2, ZenonT(30) DEF ApproveWrite
    <2> DEFINE d == WithApproval(op[o].mem, op[o].item, b)
    <2>2. queue' = Written(d)
      BY <2>1
    <2>3. d \in Doc /\ \A i \in Items : /\ d.items[i].ref = op[o].mem.items[i].ref
                                          /\ d.items[i].status = op[o].mem.items[i].status
      BY <1>0, ApproveType
    <2> HIDE DEF d
    <2>4. queue'.items = d.items
      BY <1>0, <2>2, <2>3, WrittenType
    <2> QED
      BY <1>0, <2>3, <2>4
  <1>3. ASSUME NEW o \in Operators, ResetWrite(o) PROVE Source(op[o].mem)
    <2>1. queue'.items = WithStatus(op[o].mem, Active(op[o].mem), "pending").items
      BY <1>0, <1>3, WrittenType, WithStatusType DEF ResetWrite, Statuses
    <2>2. \A i \in Items : Keeps(op[o].mem, i)
      BY <1>0, <2>1, WithStatusType DEF Statuses
    <2> QED
      BY <1>0, <2>2
  <1>4. ASSUME NEW p \in Workers, UpdateWrite(p) \/ Finish(p) PROVE Source(mem[p])
    <2>1. upd[p] \in Updates /\ cur[p] \in Items /\ WriteBack(p) /\ pc[p] = "write"
      BY <1>4 DEF UpdateWrite, Finish, Updates, CurInv, InItem
    <2>2. queue'.items = [mem[p].items EXCEPT ![cur[p]] =
                Updated(upd[p], mem[p].items[cur[p]], contract[cur[p]], results[p])]
      BY <2>1, WriteBackType
    <2>3. mem[p].items \in [Items -> Item]
      BY <1>0 DEF Doc
    <2>4. Updates1(mem[p], cur[p])
      BY <2>1, <2>2, <2>3
    <2>5. \A i \in Items \ {cur[p]} : Keeps(mem[p], i)
      BY <2>2, <2>3
    <2> QED
      BY <1>0, <2>4, <2>5
  <1>5. \/ \E p \in Workers : Promote(p) \/ UpdateWrite(p) \/ Finish(p)
        \/ \E o \in Operators : ApproveWrite(o) \/ ResetWrite(o)
    BY DEF Next, WorkerNext, Work, LoadNext, Reload, Pick, Idle, Prepare, Freeze,
           UpdateLoad, Launch, TrainEnd, Retain, EvalSkip, EvalRun,
           EvalEnd, StartWatcher, StartRetry, Crash, OperatorNext, ApproveLoad,
           ResetLoad, TrainingNext, Save, OrphanEnd, files, vars
  <1>6. \E d : Source(d)
    <2> HIDE DEF Source
    <2> QED
      BY <1>1, <1>2, <1>3, <1>4, <1>5
  <1> QED
    BY <1>6

(* ----- Recorded contracts ----- *)

\* The contract references of one document name the contracts on disk.
Resolves(d) ==
    \A i \in Items : /\ d.items[i].ref \in {0, contract[i].rev}
                     /\ d.items[i].status = "training" => d.items[i].ref # 0

\* RefsResolve is inductive beside VersionInv: only `mark` records a reference,
\* that of the contract just frozen, and a contract that appears where there was
\* none meets no reference to it.
LEMMA RefsStep ==
  ASSUME TypeOK, CurInv, VersionInv, RefsResolve, [Next]_vars
  PROVE  RefsResolve'
  <1>1. \A d \in Docs : Resolves(d)
    BY DEF RefsResolve, Resolves
  <1>2. Resolves(NoDoc)
    BY DEF Resolves, NoDoc, FreshItem
  <1>3. queue' # queue => Resolves(queue')
    <2>1. SUFFICES ASSUME NEW d \in Docs, NEW i \in Items,
                     \/ /\ queue'.items[i].ref = d.items[i].ref
                        /\ queue'.items[i].status \in {d.items[i].status, "pending"}
                     \/ \E p \in Workers :
                           /\ pc[p] = "write" /\ cur[p] = i /\ upd[p] \in Updates
                           /\ queue'.items[i] =
                                 Updated(upd[p], d.items[i], contract[i], results[p])
                   PROVE  /\ queue'.items[i].ref \in {0, contract[i].rev}
                          /\ queue'.items[i].status = "training" => queue'.items[i].ref # 0
      BY QueueStep DEF Resolves
    <2>2. /\ d.items[i].ref \in {0, contract[i].rev}
          /\ d.items[i].status = "training" => d.items[i].ref # 0
      BY <1>1 DEF Resolves
    <2>3. CASE /\ queue'.items[i].ref = d.items[i].ref
               /\ queue'.items[i].status \in {d.items[i].status, "pending"}
      BY <2>2, <2>3
    <2>4. ASSUME NEW p \in Workers, pc[p] = "write", cur[p] = i, upd[p] \in Updates,
                 queue'.items[i] = Updated(upd[p], d.items[i], contract[i], results[p])
          PROVE  /\ queue'.items[i].ref \in {0, contract[i].rev}
                 /\ queue'.items[i].status = "training" => queue'.items[i].ref # 0
      <3>1. d.items[i] \in Item
        <4>1. d \in Doc
          BY DEF Docs, TypeOK, OpState
        <4> QED
          BY <4>1 DEF Doc
      <3>2. CASE upd[p] = "mark"
        <4>1. contract[i].rev > 0
          BY <2>4, <3>2 DEF VersionInv, WorkerInv, Marking
        <4>2. queue'.items[i].ref = contract[i].rev
          BY <2>4, <3>1, <3>2 DEF Updated, Item
        <4> QED
          BY <4>1, <4>2
      <3>3. CASE upd[p] # "mark"
        <4>1. /\ queue'.items[i].ref = d.items[i].ref
              /\ queue'.items[i].status = "training" => d.items[i].status = "training"
          BY <2>4, <3>1, <3>3 DEF Updated, Updates, Item
        <4> QED
          BY <2>2, <4>1
      <3> QED
        BY <3>2, <3>3
    <2> QED
      BY <2>1, <2>3, <2>4
  <1>4. \A d \in Docs' : Resolves(d)
    BY <1>1, <1>2, <1>3, DocsStep DEF Docs
  <1>5. CASE contract' = contract
    BY <1>4, <1>5 DEF RefsResolve, Resolves
  <1>6. CASE contract' # contract
    <2>1. PICK p \in Workers : /\ cur[p] \in Items /\ contract[cur[p]] = NoDoc
                               /\ contract' = [contract EXCEPT ![cur[p]] = mem[p]]
      BY <1>6, ContractStep
    <2>2. \A i \in Items : contract[i].rev \in {0, contract'[i].rev}
      BY <2>1, NoDocType DEF TypeOK
    <2> QED
      BY <1>4, <2>2 DEF RefsResolve, Resolves
  <1> QED
    BY <1>5, <1>6

\* An item on its way to being frozen is pending and approved in the copy.
FrozenInv ==
    /\ FrozenWasRunnable
    /\ \A p \in Workers : pc[p] \in {"prepare", "freeze"} =>
          cur[p] \in Runnable(mem[p])

\* The worker keeps the copy it picked from until it has frozen it.
LEMMA FrozenStep ==
  ASSUME TypeOK, CurInv, FrozenInv, [Next]_vars
  PROVE  FrozenInv'
  <1>1. FrozenWasRunnable'
    <2>1. CASE contract' = contract
      BY <2>1 DEF FrozenInv, FrozenWasRunnable
    <2>2. CASE contract' # contract
      <3>1. PICK p \in Workers : /\ Freeze(p) /\ cur[p] \in Items
                                 /\ contract' = [contract EXCEPT ![cur[p]] = mem[p]]
        BY <2>2, ContractStep
      <3>2. cur[p] \in Runnable(mem[p])
        BY <3>1 DEF FrozenInv, Freeze
      <3>3. \A i \in Items : contract'[i] = IF i = cur[p] THEN mem[p] ELSE contract[i]
        BY <3>1 DEF TypeOK
      <3> QED
        BY <3>2, <3>3 DEF FrozenInv, FrozenWasRunnable, Runnable
    <2> QED
      BY <2>1, <2>2
  <1>2. ASSUME NEW q \in Workers, pc'[q] \in {"prepare", "freeze"}
        PROVE  cur'[q] \in Runnable(mem'[q])
    <2>1. CASE pc'[q] = pc[q] /\ cur'[q] = cur[q] /\ mem'[q] = mem[q]
      BY <1>2, <2>1 DEF FrozenInv
    <2>2. ASSUME NEW p \in Workers, WorkerNext(p), p # q
          PROVE  pc'[q] = pc[q] /\ cur'[q] = cur[q] /\ mem'[q] = mem[q]
      BY <2>2, LocalStep
    <2>3. ASSUME WorkerNext(q)
          PROVE  \/ pc'[q] = pc[q] /\ cur'[q] = cur[q] /\ mem'[q] = mem[q]
                 \/ cur'[q] \in Runnable(mem'[q])
      <3>1. CASE Pick(q)
        BY <3>1 DEF Pick, NextPending, TypeOK
      <3>2. CASE Prepare(q)
        BY <1>2, <3>2 DEF Prepare, FrozenInv
      <3>3. CASE LoadNext(q) \/ Promote(q) \/ Reload(q) \/ Freeze(q) \/ UpdateLoad(q)
        BY <1>2, <3>3 DEF LoadNext, Promote, Reload, Freeze, UpdateLoad, Call, Goto, TypeOK
      <3>4. CASE UpdateWrite(q) \/ Launch(q) \/ TrainEnd(q) \/ Retain(q) \/ EvalEnd(q)
        <4>1. \E s \in Steps \ {"prepare", "freeze"}, u \in Updates \cup {"none"} :
                 Goto(q, s, u)
          BY <3>4 DEF UpdateWrite, Launch, TrainEnd, Retain, EvalEnd, BeginEval, Call,
                      Steps, Updates
        <4> QED
          BY <1>2, <4>1 DEF Goto, TypeOK
      <3>5. CASE Finish(q) \/ Idle(q) \/ Crash(q)
        BY <1>2, <3>5 DEF Finish, Idle, Crash, Stop, Goto, TypeOK
      <3>6. CASE EvalSkip(q) \/ EvalRun(q)
        BY <1>2, <3>6 DEF EvalSkip, EvalRun, Call, Goto, TypeOK
      <3>7. CASE \/ \E m \in {"watch", "once"} : StartWatcher(q, m)
                 \/ \E i \in Items : StartRetry(q, i)
        BY <1>2, <3>7 DEF StartWatcher, StartRetry, Call, Goto, TypeOK
      <3> QED
        BY <2>3, <3>1, <3>2, <3>3, <3>4, <3>5, <3>6, <3>7 DEF WorkerNext, Work
    <2>4. CASE UNCHANGED <<pc, cur, mem>>
      BY <2>1, <2>4
    <2>5. ASSUME NEW o \in Operators, OperatorNext(o) PROVE UNCHANGED <<pc, cur, mem>>
      BY <2>5 DEF OperatorNext, ApproveLoad, ApproveWrite, ResetLoad, ResetWrite, procs
    <2>6. ASSUME NEW i \in Items, TrainingNext(i) PROVE UNCHANGED <<pc, cur, mem>>
      BY <2>6 DEF TrainingNext, Save, OrphanEnd, procs
    <2> QED
      BY <1>2, <2>1, <2>2, <2>3, <2>4, <2>5, <2>6 DEF Next, vars
  <1> QED
    BY <1>1, <1>2 DEF FrozenInv

(* ----- Theorems ----- *)

\* The inductive invariant: types, the lock, the order of versions, who waits
\* for the training commands, and what the recorded contracts are.
IInv == /\ TypeOK /\ CurInv /\ LockInv /\ VersionInv /\ JobInv
        /\ RefsResolve /\ FrozenInv

LEMMA InitIInv == Init => IInv
  <1> SUFFICES ASSUME Init PROVE IInv
    OBVIOUS
  <1>1. PICK s \in [Items -> {"pending", "blocked"}], a \in [Items -> BOOLEAN] :
            queue = [rev |-> 1, items |-> [i \in Items |-> FreshItem(s[i], a[i])]]
    BY DEF Init
  <1>2. \A i \in Items : FreshItem(s[i], a[i]) \in Item
    BY DEF FreshItem, Item, Statuses
  <1>3. queue \in Doc /\ queue.rev = 1
    BY <1>1, <1>2 DEF Doc
  <1>4. 0 \in 0..N /\ "off" \in Steps /\ <<>> \in Seq({"pass", "fail", "skip"})
    BY NAssumption DEF Steps
  <1>5. op \in [Operators -> OpState]
    BY <1>4, NoDocType DEF Init, OpState, OpOff
  <1>6. left \in Budget
    BY BoundAssumption DEF Init, Budget
  <1>7. TypeOK
    BY <1>3, <1>4, <1>5, <1>6, NoDocType DEF Init, TypeOK
  <1>8. CurInv /\ LockInv
    BY ProcessAssumption DEF Init, CurInv, LockInv, InItem
  <1>9. VersionInv
    BY <1>3, NoDocType DEF Init, VersionInv, WorkerInv, Marking
  <1>10. JobInv
    BY BoundAssumption DEF Init, JobInv
  <1>11. RefsResolve
    <2>1. \A i \in Items : queue.items[i].ref = 0 /\ queue.items[i].status # "training"
      BY <1>1 DEF FreshItem
    <2>2. \A d \in Docs : d = queue \/ d = NoDoc
      BY DEF Docs, Init, OpOff
    <2>3. \A i \in Items : NoDoc.items[i].ref = 0 /\ NoDoc.items[i].status # "training"
      BY DEF NoDoc, FreshItem
    <2> QED
      BY <2>1, <2>2, <2>3 DEF RefsResolve
  <1>12. FrozenInv
    BY DEF Init, FrozenInv, FrozenWasRunnable
  <1> QED
    BY <1>7, <1>8, <1>9, <1>10, <1>11, <1>12 DEF IInv

\* Every reachable state satisfies the inductive invariant.
THEOREM Invariance == Spec => []IInv
  <1>1. IInv /\ [Next]_vars => IInv'
    BY TypeStep, LockStep, VersionStep, JobStep, RefsStep, FrozenStep DEF IInv
  <1> QED
    BY InitIInv, <1>1, PTL DEF Spec

\* The state of files and processes is well typed for every queue and workload.
THEOREM TypeCorrect == Spec => []TypeOK
  <1>1. IInv => TypeOK
    BY DEF IInv
  <1> QED
    BY Invariance, <1>1, PTL

\* While no watcher was killed, one training command runs at a time: the queue
\* lock, and the watcher that waits for its command, see to that.
THEOREM TrainingIsExclusive == Spec => []OneTraining
  <1>1. IInv => OneTraining
    <2> SUFFICES ASSUME IInv, NEW i \in Items, NEW j \in Items,
                        job[i] # "none", job[j] # "none", i # j
                 PROVE  left.crashes < MaxCrashes
      BY DEF OneTraining
    <2>1. ~(Awaited(i) /\ Awaited(j))
      BY DEF IInv, LockInv, Awaited
    <2> QED
      BY <2>1 DEF IInv, JobInv
  <1> QED
    BY Invariance, <1>1, PTL

\* A run directory is launched at most once, under crashes, resets, re-arming and
\* lost updates alike.
THEOREM LaunchedOnce == Spec => []TrainedAtMostOnce
  <1>1. IInv => TrainedAtMostOnce
    BY DEF IInv, VersionInv, TrainedAtMostOnce
  <1> QED
    BY Invariance, <1>1, PTL

\* Whatever is written back, and from however old a copy, a recorded contract is
\* the one on disk, and no copy shows an item in training without one.
THEOREM ReferencesResolve == Spec => []RefsResolve
  <1>1. IInv => RefsResolve
    BY DEF IInv
  <1> QED
    BY Invariance, <1>1, PTL

\* What is frozen for a launch is a queue in which that item was to run.
THEOREM FrozenRunnable == Spec => []FrozenWasRunnable
  <1>1. IInv => FrozenWasRunnable
    BY DEF IInv, FrozenInv
  <1> QED
    BY Invariance, <1>1, PTL

(* ----- Operators that keep away from a running worker ----- *)

\* Without races every copy that will be written back is still the file: the
\* two halves of a read-modify-write have nobody between them.
CopyInv ==
    /\ \A p \in Workers :
          pc[p] \in {"promote", "pick", "prepare", "freeze", "write"} => mem[p] = queue
    /\ \A o \in Operators : op[o].cmd # "off" => lock = Free /\ op[o].mem = queue
    /\ \A o, r \in Operators : op[o].cmd # "off" /\ op[r].cmd # "off" => o = r

\* At most one process is at the queue.
LEMMA Alone ==
  ASSUME ~Racing, LockInv, CopyInv
  PROVE  /\ \A p \in Workers : WorkerNext(p) =>
               /\ \A o \in Operators : op[o].cmd = "off"
               /\ \A q \in Workers \ {p} : pc[q] = "off"
         /\ \A o \in Operators : OperatorNext(o) =>
               /\ lock = Free
               /\ \A q \in Workers : pc[q] = "off"
               /\ \A r \in Operators \ {o} : op[r].cmd = "off"
  <1>1. ASSUME NEW p \in Workers, WorkerNext(p)
        PROVE  /\ \A o \in Operators : op[o].cmd = "off"
               /\ \A q \in Workers \ {p} : pc[q] = "off"
    <2>1. CASE pc[p] # "off"
      <3>1. lock = p /\ lock # Free
        BY <2>1, ProcessAssumption DEF LockInv
      <3> QED
        BY <3>1 DEF LockInv, CopyInv
    <2>2. CASE pc[p] = "off"
      <3>1. \/ \E m \in {"watch", "once"} : StartWatcher(p, m)
            \/ \E i \in Items : StartRetry(p, i)
        BY <1>1, <2>2 DEF WorkerNext, Work, LoadNext, Promote, Reload, Pick, Idle, Prepare,
             Freeze, UpdateLoad, UpdateWrite, Finish, Launch, TrainEnd, Retain, EvalSkip,
             EvalRun, EvalEnd, Crash
      <3>2. Undisturbed
        BY <3>1 DEF StartWatcher, StartRetry
      <3> QED
        BY <3>2, ProcessAssumption DEF Undisturbed, LockInv
    <2> QED
      BY <2>1, <2>2
  <1>2. ASSUME NEW o \in Operators, OperatorNext(o)
        PROVE  /\ lock = Free
               /\ \A q \in Workers : pc[q] = "off"
               /\ \A r \in Operators \ {o} : op[r].cmd = "off"
    <2>1. CASE op[o].cmd = "off"
      <3>1. Undisturbed
        BY <1>2, <2>1 DEF OperatorNext, ApproveLoad, ApproveWrite, ResetLoad, ResetWrite
      <3> QED
        BY <3>1, ProcessAssumption DEF Undisturbed, LockInv
    <2>2. CASE op[o].cmd # "off"
      BY <2>2, ProcessAssumption DEF CopyInv, LockInv
    <2> QED
      BY <2>1, <2>2
  <1> QED
    BY <1>1, <1>2

LEMMA CopyStep ==
  ASSUME ~Racing, TypeOK, LockInv, LockInv', CopyInv, [Next]_vars
  PROVE  CopyInv'
  <1>1. ASSUME NEW p \in Workers, WorkerNext(p) PROVE CopyInv'
    <2>1. /\ op' = op /\ \A o \in Operators : op[o].cmd = "off"
          /\ \A q \in Workers \ {p} : pc'[q] = "off"
      BY <1>1, Alone, LocalStep
    <2>2. pc'[p] \in {"promote", "pick", "prepare", "freeze", "write"} => mem'[p] = queue'
      <3>1. CASE LoadNext(p) \/ Reload(p) \/ UpdateLoad(p)
        BY <3>1 DEF LoadNext, Reload, UpdateLoad, files, TypeOK
      <3>2. CASE Pick(p) \/ Prepare(p)
        BY <3>2 DEF Pick, Prepare, Call, Goto, files, CopyInv, TypeOK
      <3>3. CASE Promote(p) \/ Freeze(p)
        BY <3>3 DEF Promote, Freeze, Call, Goto, TypeOK
      <3>4. CASE UpdateWrite(p) \/ Launch(p) \/ TrainEnd(p) \/ Retain(p) \/ EvalEnd(p)
        <4>1. \E s \in {"load", "service", "train", "retain", "eval"},
                 u \in Updates \cup {"none"} : Goto(p, s, u)
          BY <3>4 DEF UpdateWrite, Launch, TrainEnd, Retain, EvalEnd, BeginEval, Call, Updates
        <4> QED
          BY <4>1 DEF Goto, TypeOK
      <3>5. CASE Finish(p) \/ Idle(p) \/ Crash(p)
        BY <3>5 DEF Finish, Idle, Crash, Stop, Goto, TypeOK
      <3>6. CASE EvalSkip(p) \/ EvalRun(p)
        BY <3>6 DEF EvalSkip, EvalRun, Call, Goto, TypeOK
      <3>7. CASE \/ \E m \in {"watch", "once"} : StartWatcher(p, m)
                 \/ \E i \in Items : StartRetry(p, i)
        BY <3>7 DEF StartWatcher, StartRetry, Call, Goto, TypeOK
      <3> QED
        BY <1>1, <3>1, <3>2, <3>3, <3>4, <3>5, <3>6, <3>7 DEF WorkerNext, Work
    <2> QED
      BY <2>1, <2>2 DEF CopyInv
  <1>2. ASSUME NEW o \in Operators, OperatorNext(o) PROVE CopyInv'
    <2>1. /\ lock = Free
          /\ \A q \in Workers : pc[q] = "off"
          /\ \A r \in Operators \ {o} : op[r].cmd = "off"
      BY <1>2, Alone
    <2>2. lock' = lock /\ pc' = pc
      BY <1>2 DEF OperatorNext, ApproveLoad, ApproveWrite, ResetLoad, ResetWrite, procs
    <2>3. \A r \in Operators \ {o} : op'[r] = op[r]
      BY <1>2 DEF OperatorNext, ApproveLoad, ApproveWrite, ResetLoad, ResetWrite, TypeOK
    <2>4. op'[o].cmd # "off" => op'[o].mem = queue'
      <3>1. CASE ApproveWrite(o) \/ ResetWrite(o)
        <4>1. op' = [op EXCEPT ![o] = OpOff] /\ OpOff.cmd = "off"
          BY <3>1 DEF ApproveWrite, ResetWrite, OpOff
        <4> QED
          BY <4>1 DEF TypeOK
      <3>2. CASE ResetLoad(o) \/ \E i \in Items, c \in {"arm", "disarm"} : ApproveLoad(o, i, c)
        <4>1. PICK c, i : op' = [op EXCEPT ![o] = [cmd |-> c, item |-> i, mem |-> queue]]
          BY <3>2 DEF ApproveLoad, ResetLoad
        <4>2. queue' = queue
          BY <3>2 DEF ApproveLoad, ResetLoad, files
        <4> QED
          BY <4>1, <4>2 DEF TypeOK
      <3> QED
        BY <1>2, <3>1, <3>2 DEF OperatorNext
    <2> QED
      BY <2>1, <2>2, <2>3, <2>4 DEF CopyInv
  <1>3. CASE UNCHANGED <<queue, mem, op, pc, lock>>
    BY <1>3 DEF CopyInv
  <1>4. ASSUME NEW i \in Items, TrainingNext(i) PROVE UNCHANGED <<queue, mem, op, pc, lock>>
    BY <1>4 DEF TrainingNext, Save, OrphanEnd, procs
  <1> QED
    BY <1>1, <1>2, <1>3, <1>4 DEF Next, vars

\* What update_item changes in an item, field by field.
LEMMA UpdatedFields ==
  ASSUME NEW u \in Updates, NEW it \in Item, NEW c \in Doc, NEW r
  PROVE  LET e == Updated(u, it, c, r) IN
         /\ e.status = CASE u = "mark" -> "training" [] u = "done" -> "complete"
                         [] u \in {"efail", "fail"} -> "failed"
                         [] u = "retry" -> "eval_running" [] OTHER -> it.status
         /\ e.ref = IF u = "mark" THEN c.rev ELSE it.ref
         /\ e.post = CASE u = "eval" -> "running" [] u = "gate" -> "complete"
                       [] u = "efail" -> "failed" [] OTHER -> it.post
         /\ e.gate = IF u = "gate" THEN (IF AllPass(r) THEN "pass" ELSE "fail") ELSE it.gate
  <1>1. CASE u \in {"mark", "keep", "eval"}
    BY <1>1 DEF Updated, Item
  <1>2. CASE u \in {"gate", "done"}
    BY <1>2 DEF Updated, Item
  <1>3. CASE u \in {"efail", "fail", "retry"}
    BY <1>3 DEF Updated, Item
  <1> QED
    BY <1>1, <1>2, <1>3 DEF Updates

\* How a write changes the items of the file itself, field by field, when no
\* copy is outdated.
Same(i) == /\ queue'.items[i].status = queue.items[i].status
           /\ queue'.items[i].ref = queue.items[i].ref
           /\ queue'.items[i].post = queue.items[i].post
           /\ queue'.items[i].gate = queue.items[i].gate

Restored(i, S) == /\ queue'.items[i].status =
                        IF i \in S THEN "pending" ELSE queue.items[i].status
                  /\ queue'.items[i].ref = queue.items[i].ref
                  /\ queue'.items[i].post = queue.items[i].post
                  /\ queue'.items[i].gate = queue.items[i].gate

\* Promotion, approval and reset change nothing but statuses and approvals, ...
LEMMA QuietRestore ==
  ASSUME TypeOK, CopyInv
  PROVE  /\ \A p \in Workers : Promote(p) =>
               \A i \in Items : Restored(i, Promotable(queue))
         /\ \A o \in Operators : ApproveWrite(o) => \A i \in Items : Same(i)
         /\ \A o \in Operators : ResetWrite(o) =>
               \A i \in Items : Restored(i, Active(queue))
  <1>0. queue \in Doc
    BY DEF TypeOK
  <1>1. ASSUME NEW S, NEW i \in Items, queue' = Written(WithStatus(queue, S, "pending"))
        PROVE  Restored(i, S)
    <2>1. queue'.items = WithStatus(queue, S, "pending").items
      BY <1>0, <1>1, WrittenType, WithStatusType DEF Statuses
    <2>2. queue'.items[i] = IF i \in S THEN [queue.items[i] EXCEPT !.status = "pending"]
                            ELSE queue.items[i]
      BY <1>0, <2>1 DEF WithStatus, Doc
    <2>3. queue.items[i] \in Item
      BY <1>0 DEF Doc
    <2> QED
      BY <2>2, <2>3 DEF Restored, Item
  <1>2. ASSUME NEW p \in Workers, Promote(p), NEW i \in Items
        PROVE  Restored(i, Promotable(queue))
    <2>1. mem[p] = queue
      BY <1>2 DEF Promote, CopyInv
    <2> QED
      BY <1>1, <1>2, <2>1 DEF Promote, Promoted
  <1>3. ASSUME NEW o \in Operators, ResetWrite(o), NEW i \in Items
        PROVE  Restored(i, Active(queue))
    <2>1. op[o].mem = queue
      BY <1>3 DEF ResetWrite, CopyInv
    <2> QED
      BY <1>1, <1>3, <2>1 DEF ResetWrite
  <1>4. ASSUME NEW o \in Operators, ApproveWrite(o), NEW i \in Items PROVE Same(i)
    <2>1. op[o].mem = queue
      BY <1>4 DEF ApproveWrite, CopyInv
    <2>2. PICK b \in BOOLEAN : queue' = Written(WithApproval(queue, op[o].item, b))
      BY <1>4, <2>1, ZenonT(30) DEF ApproveWrite
    <2> DEFINE d == WithApproval(queue, op[o].item, b)
    <2>3. d \in Doc /\ \A j \in Items : /\ d.items[j].status = queue.items[j].status
                                        /\ d.items[j].ref = queue.items[j].ref
                                        /\ d.items[j].post = queue.items[j].post
                                        /\ d.items[j].gate = queue.items[j].gate
      BY <1>0, ApproveType
    <2>4. queue' = Written(d)
      BY <2>2
    <2> HIDE DEF d
    <2>5. queue'.items = d.items
      BY <1>0, <2>3, <2>4, WrittenType
    <2> QED
      BY <2>3, <2>5 DEF Same
  <1> QED
    BY <1>2, <1>3, <1>4

\* ... and update_item changes the one item of its worker.
LEMMA QuietUpdate ==
  ASSUME TypeOK, CurInv, CopyInv, NEW p \in Workers, UpdateWrite(p) \/ Finish(p)
  PROVE  LET e == queue'.items[cur[p]]
             it == queue.items[cur[p]]
             u == upd[p]
         IN
         /\ pc[p] = "write" /\ cur[p] \in Items /\ u \in Updates
         /\ \A j \in Items \ {cur[p]} : queue'.items[j] = queue.items[j]
         /\ stale' = stale \ {cur[p]}
         /\ e.status = CASE u = "mark" -> "training" [] u = "done" -> "complete"
                         [] u \in {"efail", "fail"} -> "failed"
                         [] u = "retry" -> "eval_running" [] OTHER -> it.status
         /\ e.ref = IF u = "mark" THEN contract[cur[p]].rev ELSE it.ref
         /\ e.post = CASE u = "eval" -> "running" [] u = "gate" -> "complete"
                       [] u = "efail" -> "failed" [] OTHER -> it.post
         /\ e.gate = IF u = "gate" THEN (IF AllPass(results[p]) THEN "pass" ELSE "fail")
                     ELSE it.gate
  <1>1. upd[p] \in Updates /\ cur[p] \in Items /\ WriteBack(p) /\ pc[p] = "write"
    BY DEF UpdateWrite, Finish, Updates, CurInv, InItem
  <1>2. mem[p] = queue
    BY <1>1 DEF CopyInv
  <1>3. queue'.items = [queue.items EXCEPT ![cur[p]] =
              Updated(upd[p], queue.items[cur[p]], contract[cur[p]], results[p])]
    BY <1>1, <1>2, WriteBackType
  <1>4. queue.items \in [Items -> Item] /\ contract[cur[p]] \in Doc
    BY <1>1 DEF TypeOK, Doc
  <1>5. /\ queue'.items[cur[p]] =
              Updated(upd[p], queue.items[cur[p]], contract[cur[p]], results[p])
        /\ \A j \in Items \ {cur[p]} : queue'.items[j] = queue.items[j]
        /\ queue.items[cur[p]] \in Item
    BY <1>1, <1>3, <1>4
  <1>6. stale' = stale \ {cur[p]}
    BY <1>1 DEF WriteBack
  <1> QED
    BY <1>1, <1>4, <1>5, <1>6, UpdatedFields

\* Only these steps change the file.
LEMMA QueueFrame ==
  ASSUME [Next]_vars,
         \A p \in Workers : ~Promote(p) /\ ~UpdateWrite(p) /\ ~Finish(p),
         \A o \in Operators : ~ApproveWrite(o) /\ ~ResetWrite(o)
  PROVE  queue' = queue
  BY DEF Next, WorkerNext, Work, LoadNext, Reload, Pick, Idle, Prepare, Freeze,
         UpdateLoad, Launch, TrainEnd, Retain, EvalSkip, EvalRun, EvalEnd, StartWatcher,
         StartRetry, Crash, OperatorNext, ApproveLoad, ResetLoad, TrainingNext, Save,
         OrphanEnd, files, vars

(* ----- Active items have an owner ----- *)

\* A process between items has none, and an active item is being processed or
\* was left by a killed process.
OwnerInv ==
    /\ \A p \in Workers : pc[p] \notin InItem => cur[p] = 0
    /\ ActiveHasOwner

\* As long as no item becomes active, nobody lets go of one, and nothing is
\* forgotten that a crash left, active items keep their owners.
LEMMA OwnerFrame ==
  ASSUME OwnerInv,
         \A i \in Active(queue)' : i \in Active(queue),
         \A i \in Active(queue)' : i \in stale => i \in stale',
         \A i \in Active(queue)', q \in Workers :
            cur[q] = i => i \in stale' \/ \E r \in Workers : cur'[r] = i
  PROVE  ActiveHasOwner'
  BY DEF OwnerInv, ActiveHasOwner

LEMMA OwnerStep ==
  ASSUME ~Racing, TypeOK, CurInv, CurInv', LockInv, CopyInv, OwnerInv, [Next]_vars
  PROVE  OwnerInv'
  <1>0. 0 \notin Items
    BY DEF Items
  <1>1. ASSUME NEW p \in Workers, Promote(p) PROVE ActiveHasOwner'
    <2>1. cur' = cur /\ stale' = stale
      BY <1>1 DEF Promote, ghosts
    <2>2. \A i \in Items : Restored(i, Promotable(queue))
      BY <1>1, QuietRestore
    <2>3. \A i \in Active(queue)' : i \in Active(queue)
      BY <2>2 DEF Active, Restored, ActiveStatuses
    <2> QED
      BY <2>1, <2>3, OwnerFrame
  <1>2. ASSUME NEW p \in Workers, UpdateWrite(p) PROVE ActiveHasOwner'
    <2>1. /\ cur' = cur /\ stale' = stale \ {cur[p]}
          /\ \A j \in Items \ {cur[p]} : queue'.items[j] = queue.items[j]
      BY <1>2, QuietUpdate DEF UpdateWrite
    <2>2. ASSUME NEW i \in Active(queue)', i # cur[p]
          PROVE  i \in stale' \/ \E q \in Workers : cur'[q] = i
      <3>1. i \in Active(queue)
        BY <2>1, <2>2 DEF Active
      <3> QED
        BY <2>1, <2>2, <3>1 DEF OwnerInv, ActiveHasOwner
    <2> QED
      BY <2>1, <2>2 DEF ActiveHasOwner
  <1>3. ASSUME NEW p \in Workers, Finish(p) PROVE ActiveHasOwner'
    <2>1. /\ stale' = stale \ {cur[p]} /\ cur[p] \in Items
          /\ \A j \in Items \ {cur[p]} : queue'.items[j] = queue.items[j]
          /\ queue'.items[cur[p]].status \in {"complete", "failed"}
      BY <1>3, QuietUpdate DEF Finish
    <2>2. \A q \in Workers \ {p} : cur'[q] = cur[q]
      BY <1>3, LocalStep DEF WorkerNext, Work
    <2>3. ASSUME NEW i \in Active(queue)'
          PROVE  i # cur[p] /\ i \in Active(queue)
      BY <2>1, <2>3 DEF Active, ActiveStatuses
    <2> QED
      BY <2>1, <2>2, <2>3, OwnerFrame
  <1>4. ASSUME NEW p \in Workers, Crash(p) PROVE ActiveHasOwner'
    <2>1. /\ queue' = queue
          /\ stale' = stale \cup ({cur[p]} \cap Active(queue))
          /\ \A q \in Workers \ {p} : cur'[q] = cur[q]
      BY <1>4, LocalStep DEF WorkerNext, Crash
    <2>2. \A i \in Active(queue)' : i \in Active(queue)
      BY <2>1 DEF Active
    <2> QED
      BY <2>1, <2>2, OwnerFrame
  <1>5. ASSUME NEW p \in Workers,
               Pick(p) \/ Idle(p) \/ (\E m \in {"watch", "once"} : StartWatcher(p, m))
                 \/ (\E i \in Items : StartRetry(p, i))
        PROVE  ActiveHasOwner'
    <2>1. /\ pc[p] \notin InItem /\ queue' = queue /\ stale' = stale
          /\ \A q \in Workers \ {p} : cur'[q] = cur[q]
      BY <1>5, LocalStep DEF WorkerNext, Work, Pick, Idle, StartWatcher, StartRetry, InItem,
         files, ghosts
    <2>2. cur[p] = 0
      BY <2>1 DEF OwnerInv
    <2>3. \A i \in Active(queue)' : i \in Active(queue) /\ i # 0
      BY <1>0, <2>1 DEF Active
    <2> QED
      BY <2>1, <2>2, <2>3, OwnerFrame
  <1>6. ASSUME NEW p \in Workers,
               \/ LoadNext(p) \/ Reload(p) \/ Prepare(p) \/ Freeze(p) \/ UpdateLoad(p)
               \/ Launch(p) \/ TrainEnd(p) \/ Retain(p) \/ EvalSkip(p) \/ EvalRun(p)
               \/ EvalEnd(p)
        PROVE  UNCHANGED <<queue, stale, cur>>
    BY <1>6 DEF LoadNext, Reload, Prepare, Freeze, UpdateLoad, Launch, TrainEnd, Retain,
                EvalSkip, EvalRun, EvalEnd, files, ghosts
  <1>7. ASSUME NEW o \in Operators, ApproveWrite(o) PROVE ActiveHasOwner'
    <2>1. cur' = cur /\ stale' = stale /\ \A i \in Items : Same(i)
      BY <1>7, QuietRestore DEF ApproveWrite, ghosts, procs
    <2>2. \A i \in Active(queue)' : i \in Active(queue)
      BY <2>1 DEF Active, Same
    <2> QED
      BY <2>1, <2>2, OwnerFrame
  <1>8. ASSUME NEW o \in Operators, ResetWrite(o) PROVE ActiveHasOwner'
    <2>1. \A i \in Items : Restored(i, Active(queue))
      BY <1>8, QuietRestore
    <2>2. Active(queue)' = {}
      BY <2>1 DEF Active, Restored, ActiveStatuses
    <2> QED
      BY <2>2 DEF ActiveHasOwner
  <1>9. ASSUME NEW o \in Operators, OperatorNext(o), ~ApproveWrite(o), ~ResetWrite(o)
        PROVE  UNCHANGED <<queue, stale, cur>>
    BY <1>9 DEF OperatorNext, ApproveLoad, ResetLoad, files, ghosts, procs
  <1>10. ASSUME NEW i \in Items, TrainingNext(i) PROVE UNCHANGED <<queue, stale, cur>>
    BY <1>10 DEF TrainingNext, Save, OrphanEnd, ghosts, procs
  <1>11. ASSUME UNCHANGED <<queue, stale, cur>> PROVE ActiveHasOwner'
    <2>1. Active(queue)' = Active(queue)
      BY <1>11 DEF Active
    <2> QED
      BY <1>11, <2>1 DEF OwnerInv, ActiveHasOwner
  <1>12. ActiveHasOwner'
    <2>1. ASSUME NEW p \in Workers, WorkerNext(p) PROVE ActiveHasOwner'
      BY <1>1, <1>2, <1>3, <1>4, <1>5, <1>6, <1>11, <2>1 DEF WorkerNext, Work
    <2>2. ASSUME NEW o \in Operators, OperatorNext(o) PROVE ActiveHasOwner'
      BY <1>7, <1>8, <1>9, <1>11, <2>2
    <2>3. UNCHANGED vars => UNCHANGED <<queue, stale, cur>>
      BY DEF vars
    <2> QED
      BY <1>10, <1>11, <2>1, <2>2, <2>3 DEF Next
  <1>13. \A q \in Workers : pc'[q] \notin InItem => cur'[q] = 0
    <2>1. ASSUME NEW p \in Workers, WorkerNext(p), pc'[p] \notin InItem PROVE cur'[p] = 0
      <3>1. CASE LoadNext(p) \/ Promote(p) \/ Reload(p)
        BY <3>1 DEF LoadNext, Promote, Reload, OwnerInv, InItem
      <3>2. CASE Idle(p) \/ Finish(p) \/ Crash(p)
        BY <3>2 DEF Idle, Finish, Crash, Stop, OwnerInv, InItem, TypeOK
      <3>3. CASE \E m \in {"watch", "once"} : StartWatcher(p, m)
        BY <3>3 DEF StartWatcher, OwnerInv, InItem
      <3>4. CASE Pick(p) \/ Prepare(p) \/ Freeze(p) \/ UpdateLoad(p)
                 \/ (\E i \in Items : StartRetry(p, i))
        BY <2>1, <3>4 DEF Pick, Prepare, Freeze, UpdateLoad, StartRetry, Call, Goto, InItem,
                          TypeOK
      <3>5. CASE UpdateWrite(p) \/ Launch(p) \/ TrainEnd(p) \/ Retain(p) \/ EvalEnd(p)
        <4>1. \E s \in InItem, u \in Updates \cup {"none"} : Goto(p, s, u)
          BY <3>5 DEF UpdateWrite, Launch, TrainEnd, Retain, EvalEnd, BeginEval, Call,
                      Updates, InItem
        <4> QED
          BY <2>1, <4>1 DEF Goto, TypeOK
      <3>6. CASE EvalSkip(p) \/ EvalRun(p)
        BY <2>1, <3>6 DEF EvalSkip, EvalRun, Call, Goto, InItem, TypeOK
      <3> QED
        BY <2>1, <3>1, <3>2, <3>3, <3>4, <3>5, <3>6 DEF WorkerNext, Work
    <2>2. ASSUME NEW p \in Workers, WorkerNext(p), NEW q \in Workers \ {p}
          PROVE  pc'[q] = pc[q] /\ cur'[q] = cur[q]
      BY <2>2, LocalStep
    <2>3. ASSUME NEW o \in Operators, OperatorNext(o) PROVE UNCHANGED <<pc, cur>>
      BY <2>3 DEF OperatorNext, ApproveLoad, ApproveWrite, ResetLoad, ResetWrite, procs
    <2>4. ASSUME NEW i \in Items, TrainingNext(i) PROVE UNCHANGED <<pc, cur>>
      BY <2>4 DEF TrainingNext, Save, OrphanEnd, procs
    <2> QED
      BY <2>1, <2>2, <2>3, <2>4 DEF OwnerInv, Next, vars
  <1> QED
    BY <1>12, <1>13 DEF OwnerInv

(* ----- Completions are earned ----- *)

Updating(p, S) == pc[p] \in {"load", "write"} /\ upd[p] \in S

\* What the file says of an item agrees with what happened to it.
Earned(i) ==
    LET it == queue.items[i] IN
    /\ it.status \in ActiveStatuses => it.ref # 0
    /\ it.status = "complete" =>
          /\ it.ref # 0 /\ starts[i] = 1
          /\ Evals > 0 => it.post = "complete" /\ it.gate = verdict[i]
    /\ it.status = "blocked" => it.ref = 0
    /\ it.gate # "none" => Evals > 0
    /\ ckpt[i] # {} => starts[i] = 1

ItemInv == \A i \in Items : Earned(i)

\* What a worker between picking and finishing knows of its item, from the file
\* and from its own progress.
WorkInv(p) ==
    LET i == cur[p]
        it == queue.items[i]
    IN
    /\ pc[p] \in InItem => it.status # "blocked"
    /\ pc[p] = "service" => it.status = "training"
    /\ pc[p] \in {"train", "retain", "eval"}
          \/ Updating(p, {"keep", "eval", "gate", "done", "efail"}) =>
          it.status \in ActiveStatuses /\ starts[i] = 1
    /\ Updating(p, {"retry"}) => it.ref # 0 /\ starts[i] = 1
    /\ pc[p] = "eval" \/ Updating(p, {"retry", "eval", "gate", "efail"}) => Evals > 0
    /\ Updating(p, {"gate"}) =>
          verdict[i] = IF AllPass(results[p]) THEN "pass" ELSE "fail"
    /\ Updating(p, {"done"}) /\ Evals > 0 =>
          it.post = "complete" /\ it.gate = verdict[i]

\* The start of a post-eval: with specs, of the first one.
LEMMA BeginEvalShape ==
  ASSUME TypeOK, NEW p \in Workers, BeginEval(p)
  PROVE  /\ pc'[p] = "load"
         /\ \/ upd'[p] = "done" /\ Evals = 0
            \/ upd'[p] = "eval" /\ Evals > 0
  BY ConfigAssumption DEF BeginEval, Call, Goto, TypeOK

LEMMA WorkStep ==
  ASSUME TypeOK, CurInv, LockInv, CopyInv, VersionInv, FrozenInv, ItemInv,
         NEW p \in Workers, WorkInv(p), WorkerNext(p)
  PROVE  WorkInv(p)'
  <1>1. CASE LoadNext(p) \/ Promote(p) \/ Reload(p) \/ Idle(p) \/ Finish(p) \/ Crash(p)
             \/ \E m \in {"watch", "once"} : StartWatcher(p, m)
    <2>1. pc'[p] \in {"off", "top", "promote", "reload", "pick"}
      BY <1>1 DEF LoadNext, Promote, Reload, Idle, Finish, Crash, StartWatcher, Stop, Goto,
                  TypeOK
    <2> QED
      BY <2>1 DEF WorkInv, Updating, InItem
  <1>2. CASE Pick(p)
    <2>1. /\ pc'[p] = "prepare" /\ queue' = queue /\ mem[p] = queue
          /\ cur'[p] \in Runnable(mem[p])
      BY <1>2 DEF Pick, NextPending, Goto, files, CopyInv, TypeOK
    <2> QED
      BY <2>1 DEF WorkInv, Updating, Runnable
  <1>3. CASE Prepare(p) \/ Freeze(p)
    <2>1. /\ pc'[p] = "freeze" \/ (pc'[p] = "load" /\ upd'[p] \in {"mark", "fail"})
          /\ queue' = queue /\ cur' = cur /\ pc[p] \in {"prepare", "freeze"}
      BY <1>3 DEF Prepare, Freeze, Call, Goto, files, TypeOK
    <2> QED
      BY <2>1 DEF WorkInv, Updating, InItem
  <1>4. CASE UpdateLoad(p)
    <2>1. /\ pc[p] = "load" /\ pc'[p] = "write" /\ upd'[p] = upd[p]
          /\ UNCHANGED <<queue, cur, starts, verdict, results>>
      BY <1>4 DEF UpdateLoad, Goto, files, ghosts, TypeOK
    <2> QED
      BY <2>1 DEF WorkInv, Updating, InItem
  <1>5. CASE UpdateWrite(p)
    <2> DEFINE i == cur[p]
    <2>1. /\ pc[p] = "write" /\ i \in Items /\ UNCHANGED <<cur, starts, verdict, results>>
          /\ upd[p] \in Updates
      BY <1>5, QuietUpdate DEF UpdateWrite
    <2>2. CASE upd[p] = "mark"
      <3>1. queue'.items[i].status = "training"
        BY <1>5, <2>2, QuietUpdate
      <3>2. pc'[p] = "service"
        BY <1>5, <2>2 DEF UpdateWrite, Goto, TypeOK
      <3> QED
        BY <2>1, <3>1, <3>2 DEF WorkInv, Updating
    <2>3. CASE upd[p] = "keep"
      <3>1. queue'.items[i].status = queue.items[i].status
        BY <1>5, <2>3, QuietUpdate
      <3>2. /\ pc'[p] = "load"
            /\ \/ upd'[p] = "done" /\ Evals = 0
               \/ upd'[p] = "eval" /\ Evals > 0
        BY <1>5, <2>3, BeginEvalShape DEF UpdateWrite
      <3>3. queue.items[i].status \in ActiveStatuses /\ starts[i] = 1
        BY <2>1, <2>3 DEF WorkInv, Updating
      <3> QED
        BY <2>1, <3>1, <3>2, <3>3 DEF WorkInv, Updating, ActiveStatuses
    <2>4. CASE upd[p] = "eval"
      <3>1. queue'.items[i].status = queue.items[i].status
        BY <1>5, <2>4, QuietUpdate
      <3>2. pc'[p] = "eval"
        BY <1>5, <2>4 DEF UpdateWrite, Goto, TypeOK
      <3>3. queue.items[i].status \in ActiveStatuses /\ starts[i] = 1 /\ Evals > 0
        BY <2>1, <2>4 DEF WorkInv, Updating
      <3> QED
        BY <2>1, <3>1, <3>2, <3>3 DEF WorkInv, Updating, ActiveStatuses
    <2>5. CASE upd[p] = "gate"
      <3>1. /\ queue'.items[i].status = queue.items[i].status
            /\ queue'.items[i].post = "complete"
            /\ queue'.items[i].gate = IF AllPass(results[p]) THEN "pass" ELSE "fail"
        BY <1>5, <2>5, QuietUpdate
      <3>2. pc'[p] = "load" /\ upd'[p] = "done"
        BY <1>5, <2>5 DEF UpdateWrite, Call, Goto, TypeOK
      <3>3. /\ queue.items[i].status \in ActiveStatuses /\ starts[i] = 1
            /\ verdict[i] = IF AllPass(results[p]) THEN "pass" ELSE "fail"
        BY <2>1, <2>5 DEF WorkInv, Updating
      <3> QED
        BY <2>1, <3>1, <3>2, <3>3 DEF WorkInv, Updating, ActiveStatuses
    <2>6. CASE upd[p] = "efail"
      <3>1. queue'.items[i].status = "failed"
        BY <1>5, <2>6, QuietUpdate
      <3>2. pc'[p] = "load" /\ upd'[p] = "fail"
        BY <1>5, <2>6 DEF UpdateWrite, Call, Goto, TypeOK
      <3> QED
        BY <2>1, <3>1, <3>2 DEF WorkInv, Updating
    <2>7. CASE upd[p] = "retry"
      <3>1. queue'.items[i].status = "eval_running"
        BY <1>5, <2>7, QuietUpdate
      <3>2. pc'[p] = "load" /\ upd'[p] = "eval"
        BY <1>5, <2>7 DEF UpdateWrite, Call, Goto, TypeOK
      <3>3. starts[i] = 1 /\ Evals > 0
        BY <2>1, <2>7 DEF WorkInv, Updating
      <3> QED
        BY <2>1, <3>1, <3>2, <3>3 DEF WorkInv, Updating, ActiveStatuses
    <2> QED
      BY <1>5, <2>1, <2>2, <2>3, <2>4, <2>5, <2>6, <2>7 DEF UpdateWrite, Updates
  <1>6. CASE Launch(p)
    <2>1. /\ pc[p] = "service" /\ cur' = cur /\ queue' = queue /\ cur[p] \in Items
          /\ \/ pc'[p] = "train" /\ starts' = [starts EXCEPT ![cur[p]] = @ + 1]
             \/ pc'[p] = "load" /\ upd'[p] = "fail"
      BY <1>6 DEF Launch, Call, Goto, CurInv, InItem, TypeOK
    <2>2. starts[cur[p]] = 0
      BY <2>1 DEF VersionInv, WorkerInv, Marking
    <2>3. pc'[p] = "train" => starts'[cur[p]] = 1
      BY <2>1, <2>2 DEF TypeOK
    <2> QED
      BY <2>1, <2>3 DEF WorkInv, Updating, InItem, ActiveStatuses
  <1>7. CASE TrainEnd(p) \/ Retain(p)
    <2>1. /\ pc[p] \in {"train", "retain"} /\ UNCHANGED <<queue, cur, starts, verdict, results>>
          /\ \/ Goto(p, "retain", "none")
             \/ BeginEval(p)
             \/ Call(p, "keep") \/ Call(p, "fail")
      BY <1>7 DEF TrainEnd, Retain, ghosts, files
    <2>2. \/ pc'[p] = "retain"
          \/ pc'[p] = "load" /\ upd'[p] = "done" /\ Evals = 0
          \/ pc'[p] = "load" /\ upd'[p] = "eval" /\ Evals > 0
          \/ pc'[p] = "load" /\ upd'[p] \in {"keep", "fail"}
      BY <2>1, BeginEvalShape DEF Call, Goto, TypeOK
    <2> QED
      BY <2>1, <2>2 DEF WorkInv, Updating, InItem
  <1>8. CASE EvalSkip(p) \/ EvalRun(p)
    <2>1. /\ pc[p] = "eval" /\ UNCHANGED <<queue, cur, starts, verdict>>
          /\ \/ pc'[p] = "eval"
             \/ pc'[p] = "load" /\ upd'[p] = "efail"
      BY <1>8 DEF EvalSkip, EvalRun, Call, Goto, ghosts, files, TypeOK
    <2> QED
      BY <2>1 DEF WorkInv, Updating, InItem
  <1>9. CASE EvalEnd(p)
    <2>1. /\ pc[p] = "eval" /\ UNCHANGED <<queue, cur, starts, results>> /\ cur[p] \in Items
          /\ pc'[p] = "load" /\ upd'[p] = "gate"
      BY <1>9 DEF EvalEnd, Call, Goto, files, CurInv, InItem, TypeOK
    <2>2. verdict'[cur[p]] = IF AllPass(results[p]) THEN "pass" ELSE "fail"
      BY <1>9, <2>1 DEF EvalEnd, TypeOK
    <2> QED
      BY <2>1, <2>2 DEF WorkInv, Updating, InItem
  <1>10. ASSUME NEW i \in Items, StartRetry(p, i) PROVE WorkInv(p)'
    <2>1. /\ pc'[p] = "load" /\ cur'[p] = i /\ queue.items[i].ref # 0 /\ Evals > 0
          /\ UNCHANGED <<queue, starts>>
          /\ upd'[p] = IF ckpt[i] = EvalIds THEN "retry" ELSE "fail"
      BY <1>10, ConfigAssumption DEF StartRetry, Call, Goto, files, ghosts, TypeOK
    <2>2. EvalIds # {}
      BY <2>1, ConfigAssumption DEF EvalIds
    <2>3. /\ queue.items[i].status # "blocked"
          /\ ckpt[i] = EvalIds => starts[i] = 1
      BY <2>1, <2>2 DEF ItemInv, Earned
    <2> QED
      BY <2>1, <2>3 DEF WorkInv, Updating
  <1> QED
    BY <1>1, <1>2, <1>3, <1>4, <1>5, <1>6, <1>7, <1>8, <1>9, <1>10 DEF WorkerNext, Work

\* Where nothing a completion rests on changes, it stays earned.
LEMMA EarnedFrame ==
  ASSUME NEW i \in Items, Earned(i), Same(i), starts'[i] = starts[i],
         verdict'[i] = verdict[i], ckpt'[i] \subseteq ckpt[i]
  PROVE  Earned(i)'
  BY DEF Earned, Same

\* Turning an item pending claims nothing.
LEMMA EarnedRestored ==
  ASSUME NEW i \in Items, NEW S, Earned(i), Restored(i, S), starts' = starts,
         verdict' = verdict, ckpt' = ckpt
  PROVE  Earned(i)'
  BY DEF Earned, Restored, ActiveStatuses

LEMMA ItemStep ==
  ASSUME ~Racing, TypeOK, CurInv, LockInv, CopyInv, VersionInv, JobInv, ItemInv,
         \A q \in Workers : WorkInv(q), [Next]_vars
  PROVE  ItemInv'
  <1> USE DEF ItemInv
  <1>0. \A i \in Items : queue' = queue => Same(i)
    BY DEF Same
  <1>1. ASSUME NEW p \in Workers, UpdateWrite(p) \/ Finish(p), NEW i \in Items
        PROVE  Earned(i)'
    <2>1. UNCHANGED <<starts, verdict, ckpt>>
      BY <1>1 DEF UpdateWrite, Finish
    <2>2. pc[p] = "write" /\ upd[p] \in Updates
      BY <1>1, QuietUpdate
    <2>3. CASE i # cur[p]
      <3>1. Same(i)
        BY <1>1, <2>3, QuietUpdate DEF Same
      <3> QED
        BY <2>1, <3>1, EarnedFrame
    <2>4. CASE i = cur[p]
      <3>1. CASE upd[p] = "mark"
        <4>1. contract[i].rev > 0
          BY <2>2, <2>4, <3>1 DEF VersionInv, WorkerInv, Marking
        <4>2. /\ queue'.items[i].status = "training"
              /\ queue'.items[i].ref = contract[i].rev
              /\ queue'.items[i].gate = queue.items[i].gate
          BY <1>1, <2>4, <3>1, QuietUpdate
        <4> QED
          BY <2>1, <4>1, <4>2 DEF Earned
      <3>2. CASE upd[p] \in {"keep", "eval"}
        <4>1. /\ queue'.items[i].status = queue.items[i].status
              /\ queue'.items[i].ref = queue.items[i].ref
              /\ queue'.items[i].gate = queue.items[i].gate
          BY <1>1, <2>4, <3>2, QuietUpdate
        <4>2. queue.items[i].status \in ActiveStatuses
          BY <2>2, <2>4, <3>2 DEF WorkInv, Updating
        <4> QED
          BY <2>1, <4>1, <4>2 DEF Earned, ActiveStatuses
      <3>3. CASE upd[p] = "gate"
        <4>1. /\ queue'.items[i].status = queue.items[i].status
              /\ queue'.items[i].ref = queue.items[i].ref
          BY <1>1, <2>4, <3>3, QuietUpdate
        <4>2. queue.items[i].status \in ActiveStatuses /\ Evals > 0
          BY <2>2, <2>4, <3>3 DEF WorkInv, Updating
        <4> QED
          BY <2>1, <4>1, <4>2 DEF Earned, ActiveStatuses
      <3>4. CASE upd[p] \in {"efail", "fail"}
        <4>1. /\ queue'.items[i].status = "failed"
              /\ queue'.items[i].gate = queue.items[i].gate
          BY <1>1, <2>4, <3>4, QuietUpdate
        <4> QED
          BY <2>1, <4>1 DEF Earned, ActiveStatuses
      <3>5. CASE upd[p] = "retry"
        <4>1. /\ queue'.items[i].status = "eval_running"
              /\ queue'.items[i].ref = queue.items[i].ref
              /\ queue'.items[i].gate = queue.items[i].gate
          BY <1>1, <2>4, <3>5, QuietUpdate
        <4>2. queue.items[i].ref # 0
          BY <2>2, <2>4, <3>5 DEF WorkInv, Updating
        <4> QED
          BY <2>1, <4>1, <4>2 DEF Earned
      <3>6. CASE upd[p] = "done"
        <4>1. /\ queue'.items[i].status = "complete"
              /\ queue'.items[i].ref = queue.items[i].ref
              /\ queue'.items[i].post = queue.items[i].post
              /\ queue'.items[i].gate = queue.items[i].gate
          BY <1>1, <2>4, <3>6, QuietUpdate
        <4>2. /\ queue.items[i].status \in ActiveStatuses /\ starts[i] = 1
              /\ Evals > 0 => queue.items[i].post = "complete"
                              /\ queue.items[i].gate = verdict[i]
          BY <2>2, <2>4, <3>6 DEF WorkInv, Updating
        <4>3. queue.items[i].ref # 0
          BY <4>2 DEF Earned
        <4> QED
          BY <2>1, <4>1, <4>2, <4>3 DEF Earned, ActiveStatuses
      <3> QED
        BY <2>2, <3>1, <3>2, <3>3, <3>4, <3>5, <3>6 DEF Updates
    <2> QED
      BY <2>3, <2>4
  <1>2. ASSUME NEW p \in Workers, Launch(p), NEW i \in Items PROVE Earned(i)'
    <2>1. UNCHANGED <<queue, verdict, ckpt>> /\ pc[p] = "service" /\ cur[p] \in Items
      BY <1>2 DEF Launch, CurInv, InItem
    <2>2. CASE i # cur[p]
      <3>1. starts'[i] = starts[i]
        BY <1>2, <2>1, <2>2 DEF Launch, TypeOK
      <3> QED
        BY <1>0, <2>1, <3>1, EarnedFrame
    <2>3. CASE i = cur[p]
      <3>1. starts[i] = 0 /\ queue.items[i].status = "training"
        BY <2>1, <2>3 DEF VersionInv, WorkerInv, Marking, WorkInv
      <3>2. starts'[i] \in {starts[i], 1}
        BY <1>2, <2>1, <2>3, <3>1 DEF Launch, TypeOK
      <3> QED
        BY <2>1, <3>1, <3>2 DEF Earned
    <2> QED
      BY <2>2, <2>3
  <1>3. ASSUME NEW p \in Workers, EvalEnd(p), NEW i \in Items PROVE Earned(i)'
    <2>1. UNCHANGED <<queue, starts, ckpt>> /\ pc[p] = "eval" /\ cur[p] \in Items
      BY <1>3 DEF EvalEnd, CurInv, InItem, files
    <2>2. CASE i # cur[p]
      <3>1. verdict'[i] = verdict[i]
        BY <1>3, <2>1, <2>2 DEF EvalEnd, TypeOK
      <3> QED
        BY <1>0, <2>1, <3>1, EarnedFrame
    <2>3. CASE i = cur[p]
      <3>1. queue.items[i].status \in ActiveStatuses
        BY <2>1, <2>3 DEF WorkInv
      <3> QED
        BY <2>1, <3>1 DEF Earned, ActiveStatuses
    <2> QED
      BY <2>2, <2>3
  <1>4. ASSUME NEW p \in Workers, EvalRun(p), NEW i \in Items PROVE Earned(i)'
    <2>1. UNCHANGED <<queue, starts, verdict>>
      BY <1>4 DEF EvalRun, ghosts
    <2>2. \E S : ckpt' = [ckpt EXCEPT ![cur[p]] = ckpt[cur[p]] \ S]
      BY <1>4 DEF EvalRun
    <2>3. ckpt'[i] \subseteq ckpt[i]
      BY <2>2 DEF TypeOK
    <2> QED
      BY <1>0, <2>1, <2>3, EarnedFrame
  <1>5. ASSUME NEW j \in Items, NEW k \in EvalIds, Save(j, k), NEW i \in Items
        PROVE  Earned(i)'
    <2>1. UNCHANGED <<queue, starts, verdict>>
      BY <1>5 DEF Save, ghosts
    <2>2. CASE i # j
      <3>1. ckpt'[i] = ckpt[i]
        BY <1>5, <2>2 DEF Save, TypeOK
      <3> QED
        BY <1>0, <2>1, <3>1, EarnedFrame
    <2>3. CASE i = j
      <3>1. starts[i] > 0 /\ starts[i] <= 1 /\ starts[i] \in Nat
        BY <1>5, <2>3 DEF Save, JobInv, VersionInv, TypeOK
      <3> QED
        BY <2>1, <3>1 DEF Earned
    <2> QED
      BY <2>2, <2>3
  <1>6. ASSUME NEW i \in Items, UNCHANGED <<queue, starts, verdict, ckpt>> PROVE Earned(i)'
    BY <1>6, <1>0, EarnedFrame
  <1>7. ASSUME NEW p \in Workers, WorkerNext(p), NEW i \in Items PROVE Earned(i)'
    <2>1. CASE Promote(p)
      <3>1. UNCHANGED <<starts, verdict, ckpt>> /\ Restored(i, Promotable(queue))
        BY <2>1, QuietRestore DEF Promote, ghosts
      <3> QED
        BY <3>1, EarnedRestored
    <2>2. CASE \/ LoadNext(p) \/ Reload(p) \/ Pick(p) \/ Idle(p) \/ Prepare(p) \/ Freeze(p)
               \/ UpdateLoad(p) \/ TrainEnd(p) \/ Retain(p) \/ EvalSkip(p)
      BY <1>6, <2>2 DEF LoadNext, Reload, Pick, Idle, Prepare, Freeze, UpdateLoad, TrainEnd,
                        Retain, EvalSkip, files, ghosts
    <2>3. CASE \/ Crash(p) \/ \E m \in {"watch", "once"} : StartWatcher(p, m)
               \/ \E j \in Items : StartRetry(p, j)
      BY <1>6, <2>3 DEF Crash, StartWatcher, StartRetry, files, ghosts
    <2> QED
      BY <1>1, <1>2, <1>3, <1>4, <1>7, <2>1, <2>2, <2>3 DEF WorkerNext, Work
  <1>8. ASSUME NEW o \in Operators, OperatorNext(o), NEW i \in Items PROVE Earned(i)'
    <2>1. CASE ApproveWrite(o)
      <3>1. UNCHANGED <<starts, verdict, ckpt>> /\ Same(i)
        BY <2>1, QuietRestore DEF ApproveWrite, ghosts
      <3> QED
        BY <3>1, EarnedFrame
    <2>2. CASE ResetWrite(o)
      <3>1. UNCHANGED <<starts, verdict, ckpt>> /\ Restored(i, Active(queue))
        BY <2>2, QuietRestore DEF ResetWrite
      <3> QED
        BY <3>1, EarnedRestored
    <2>3. CASE ResetLoad(o) \/ \E j \in Items, c \in {"arm", "disarm"} : ApproveLoad(o, j, c)
      BY <1>6, <2>3 DEF ApproveLoad, ResetLoad, files, ghosts
    <2> QED
      BY <1>8, <2>1, <2>2, <2>3 DEF OperatorNext
  <1>9. ASSUME NEW j \in Items, OrphanEnd(j), NEW i \in Items PROVE Earned(i)'
    BY <1>6, <1>9 DEF OrphanEnd, ghosts
  <1>10. CASE UNCHANGED vars
    BY <1>6, <1>10 DEF vars
  <1> QED
    BY <1>5, <1>7, <1>8, <1>9, <1>10 DEF Next, TrainingNext

\* The workers' knowledge of their items holds after every step: only the
\* process at the queue moves, and the others know nothing.
LEMMA WorkersStep ==
  ASSUME ~Racing, TypeOK, CurInv, LockInv, CopyInv, VersionInv, FrozenInv, ItemInv,
         \A q \in Workers : WorkInv(q), [Next]_vars
  PROVE  \A q \in Workers : WorkInv(q)'
  <1>1. ASSUME NEW q \in Workers, pc'[q] = "off" PROVE WorkInv(q)'
    BY <1>1 DEF WorkInv, Updating, InItem
  <1>2. ASSUME NEW p \in Workers, WorkerNext(p), NEW q \in Workers PROVE WorkInv(q)'
    <2>1. CASE q = p
      BY <1>2, <2>1, WorkStep
    <2>2. CASE q # p
      <3>1. pc'[q] = "off"
        BY <1>2, <2>2, Alone, LocalStep
      <3> QED
        BY <1>1, <3>1
    <2> QED
      BY <2>1, <2>2
  <1>3. ASSUME NEW o \in Operators, OperatorNext(o), NEW q \in Workers PROVE WorkInv(q)'
    <2>1. pc[q] = "off" /\ pc' = pc
      BY <1>3, Alone DEF OperatorNext, ApproveLoad, ApproveWrite, ResetLoad, ResetWrite, procs
    <2> QED
      BY <1>1, <2>1
  <1>4. ASSUME UNCHANGED <<queue, starts, verdict, pc, upd, cur, results>>, NEW q \in Workers
        PROVE  WorkInv(q)'
    BY <1>4 DEF WorkInv, Updating
  <1>5. ASSUME NEW i \in Items, TrainingNext(i)
        PROVE  UNCHANGED <<queue, starts, verdict, pc, upd, cur, results>>
    BY <1>5 DEF TrainingNext, Save, OrphanEnd, ghosts, procs
  <1>6. CASE UNCHANGED vars
    BY <1>4, <1>6 DEF vars
  <1> QED
    BY <1>2, <1>3, <1>4, <1>5, <1>6 DEF Next

\* The inductive invariant of a queue whose operators keep away from a running
\* worker.
QuietInv == /\ IInv /\ CopyInv /\ OwnerInv /\ ItemInv
            /\ \A p \in Workers : WorkInv(p)

LEMMA InitQuietInv == Init => QuietInv
  <1> SUFFICES ASSUME Init PROVE QuietInv
    OBVIOUS
  <1>1. IInv
    BY InitIInv
  <1>2. CopyInv
    BY DEF Init, CopyInv, OpOff
  <1>3. \A i \in Items : /\ queue.items[i].status \in {"pending", "blocked"}
                         /\ queue.items[i].ref = 0 /\ queue.items[i].gate = "none"
    BY DEF Init, FreshItem
  <1>4. OwnerInv
    BY <1>3 DEF Init, OwnerInv, ActiveHasOwner, Active, ActiveStatuses
  <1>5. ItemInv
    BY <1>3 DEF Init, ItemInv, Earned, ActiveStatuses
  <1>6. \A p \in Workers : WorkInv(p)
    BY DEF Init, WorkInv, Updating, InItem
  <1> QED
    BY <1>1, <1>2, <1>4, <1>5, <1>6 DEF QuietInv

\* With operators that keep away, every reachable state satisfies QuietInv.
THEOREM QuietInvariance ==
  ASSUME ~Racing
  PROVE  Spec => []QuietInv
  <1>1. IInv /\ [Next]_vars => IInv'
    BY TypeStep, LockStep, VersionStep, JobStep, RefsStep, FrozenStep DEF IInv
  <1>2. QuietInv /\ [Next]_vars => QuietInv'
    <2> SUFFICES ASSUME QuietInv, [Next]_vars PROVE QuietInv'
      OBVIOUS
    <2>1. IInv'
      BY <1>1 DEF QuietInv
    <2>2. CopyInv'
      BY <2>1, CopyStep DEF QuietInv, IInv
    <2>3. OwnerInv'
      BY <2>1, OwnerStep DEF QuietInv, IInv
    <2>4. ItemInv'
      BY ItemStep DEF QuietInv, IInv
    <2>5. \A q \in Workers : WorkInv(q)'
      BY WorkersStep DEF QuietInv, IInv
    <2> QED
      BY <2>1, <2>2, <2>3, <2>4, <2>5 DEF QuietInv
  <1> QED
    BY InitQuietInv, <1>2, PTL DEF Spec

\* An item shown as active is being processed, or its process was killed.
THEOREM ActiveOwned ==
  ASSUME ~Racing
  PROVE  Spec => []ActiveHasOwner
  <1>1. QuietInv => ActiveHasOwner
    BY DEF QuietInv, OwnerInv
  <1> QED
    BY QuietInvariance, <1>1, PTL

\* "complete" means trained once under a recorded contract, with the gate of the
\* last evaluation that ended, for any number of retries and crashes.
THEOREM CompletionsEarned ==
  ASSUME ~Racing
  PROVE  Spec => []CompleteIsEarned
  <1>1. QuietInv => CompleteIsEarned
    BY DEF QuietInv, ItemInv, Earned, CompleteIsEarned
  <1> QED
    BY QuietInvariance, <1>1, PTL

\* A blocked item is released only by promotion, and promotion only on a
\* completed dependency whose last evaluation passed where that is asked for.
THEOREM PromotionsSound ==
  ASSUME ~Racing
  PROVE  Spec => PromotionIsSound
  <1> DEFINE Sound ==
        \A i \in Items :
          /\ queue.items[i].status = "blocked"
          /\ queue'.items[i].status # "blocked"
          => /\ queue.items[i].approved
             /\ queue.items[Dep[i]].status = "complete"
             /\ i \in NeedGate => verdict[Dep[i]] = "pass"
  <1>1. QuietInv /\ [Next]_vars => [Sound]_vars
    <2> SUFFICES ASSUME QuietInv, [Next]_vars, NEW i \in Items,
                        queue.items[i].status = "blocked",
                        queue'.items[i].status # "blocked"
                 PROVE  /\ queue.items[i].approved
                        /\ queue.items[Dep[i]].status = "complete"
                        /\ i \in NeedGate => verdict[Dep[i]] = "pass"
      OBVIOUS
    <2> USE DEF QuietInv, IInv
    <2>1. ASSUME NEW p \in Workers, UpdateWrite(p) \/ Finish(p) PROVE FALSE
      <3>1. /\ pc[p] = "write"
            /\ \A j \in Items \ {cur[p]} : queue'.items[j] = queue.items[j]
        BY <2>1, QuietUpdate
      <3>2. queue.items[cur[p]].status # "blocked"
        BY <3>1 DEF WorkInv, InItem
      <3> QED
        BY <3>1, <3>2
    <2>2. ASSUME NEW o \in Operators, ApproveWrite(o) \/ ResetWrite(o) PROVE FALSE
      <3>1. Same(i) \/ Restored(i, Active(queue))
        BY <2>2, QuietRestore
      <3> QED
        BY <3>1 DEF Same, Restored, Active, ActiveStatuses
    <2>3. PICK p \in Workers : Promote(p)
      BY <2>1, <2>2, QueueFrame
    <2>4. i \in Promotable(queue)
      BY <2>3, QuietRestore DEF Restored
    <2>5. Dep[i] \in Items
      BY <2>4, ConfigAssumption, NAssumption DEF Promotable, Items
    <2>6. Earned(Dep[i])
      BY <2>5 DEF ItemInv
    <2> QED
      BY <2>4, <2>6 DEF Promotable, Earned
  <1> QED
    BY QuietInvariance, <1>1, PTL DEF Spec, PromotionIsSound

(* ----- A failed post-eval can be retried ----- *)

\* A worker's results belong to the item at hand, and until its last eval has
\* ended all actor checkpoints are there.
EvalWork(p) ==
    LET i == cur[p] IN
    /\ pc[p] \notin {"load", "write", "eval"} \/ Updating(p, {"mark", "keep", "eval", "retry"})
          => results[p] = <<>>
    /\ pc[p] = "train" /\ job[i] = "saved" => ckpt[i] = EvalIds
    /\ pc[p] = "retain" \/ Updating(p, {"keep", "eval", "retry", "efail"}) => ckpt[i] = EvalIds
    /\ pc[p] = "eval" =>
          /\ queue.items[i].post = "running"
          /\ NextEval(p) \in EvalIds => ckpt[i] = EvalIds

EvalInv == FailedEvalRetryable /\ \A p \in Workers : EvalWork(p)

\* A checkpoint is saved only where one is missing, so it takes nothing from
\* what is complete.
LEMMA SaveKeepsFull ==
  ASSUME TypeOK, NEW i \in Items, NEW k \in EvalIds, Save(i, k), NEW j \in Items
  PROVE  /\ ckpt[j] = EvalIds => ckpt'[j] = EvalIds
         /\ (job[j] = "saved" => ckpt[j] = EvalIds)
               => (job'[j] = "saved" => ckpt'[j] = EvalIds)
  <1>1. /\ ckpt[i] \in SUBSET EvalIds
        /\ ckpt'[i] = ckpt[i] \cup {k}
        /\ job'[i] = "saved" => EvalIds \subseteq ckpt[i] \cup {k} \/ job[i] = "saved"
        /\ j # i => ckpt'[j] = ckpt[j] /\ job'[j] = job[j]
    BY DEF Save, TypeOK
  <1>2. job[i] = "saving"
    BY DEF Save
  <1> QED
    BY <1>1, <1>2

LEMMA EvalWorkStep ==
  ASSUME TypeOK, CurInv, CopyInv, NEW p \in Workers, EvalWork(p), WorkerNext(p),
         CleanupEvals \subseteq {Evals}
  PROVE  EvalWork(p)'
  <1>0. <<>> = <<>> /\ Len(<<>>) = 0
    OBVIOUS
  <1>1. CASE Finish(p) \/ Idle(p) \/ Crash(p)
    <2>1. /\ pc'[p] \in {"off", "top"}
          /\ results'[p] = <<>>
      BY <1>1 DEF Finish, Idle, Crash, Stop, Goto, EvalWork, TypeOK
    <2> QED
      BY <2>1 DEF EvalWork, Updating
  <1>2. CASE LoadNext(p) \/ Promote(p) \/ Reload(p) \/ Pick(p)
             \/ (\E m \in {"watch", "once"} : StartWatcher(p, m))
    <2>1. /\ pc'[p] \in {"promote", "pick", "reload", "prepare", "top"}
          /\ pc[p] \in {"top", "promote", "reload", "pick", "off"}
          /\ results' = results
      BY <1>2 DEF LoadNext, Promote, Reload, Pick, StartWatcher, Goto, TypeOK
    <2> QED
      BY <2>1 DEF EvalWork, Updating
  <1>3. CASE Prepare(p) \/ Freeze(p)
    <2>1. /\ pc'[p] = "freeze" \/ (pc'[p] = "load" /\ upd'[p] \in {"mark", "fail"})
          /\ pc[p] \in {"prepare", "freeze"} /\ results' = results
      BY <1>3 DEF Prepare, Freeze, Call, Goto, TypeOK
    <2> QED
      BY <2>1 DEF EvalWork, Updating
  <1>4. CASE UpdateLoad(p)
    <2>1. /\ pc[p] = "load" /\ pc'[p] = "write" /\ upd'[p] = upd[p]
          /\ UNCHANGED <<cur, ckpt, results>>
      BY <1>4 DEF UpdateLoad, Goto, files, TypeOK
    <2> QED
      BY <2>1 DEF EvalWork, Updating
  <1>5. CASE UpdateWrite(p)
    <2> DEFINE i == cur[p]
    <2>1. /\ pc[p] = "write" /\ UNCHANGED <<cur, ckpt, job, results>> /\ upd[p] \in Updates
      BY <1>5, QuietUpdate DEF UpdateWrite
    <2>2. CASE upd[p] = "mark"
      <3>1. pc'[p] = "service"
        BY <1>5, <2>2 DEF UpdateWrite, Goto, TypeOK
      <3> QED
        BY <2>1, <2>2, <3>1 DEF EvalWork, Updating
    <2>3. CASE upd[p] = "keep"
      <3>1. pc'[p] = "load" /\ upd'[p] \in {"done", "eval"}
        BY <1>5, <2>3, BeginEvalShape DEF UpdateWrite
      <3> QED
        BY <2>1, <2>3, <3>1 DEF EvalWork, Updating
    <2>4. CASE upd[p] = "eval"
      <3>1. queue'.items[i].post = "running"
        BY <1>5, <2>4, QuietUpdate
      <3>2. pc'[p] = "eval"
        BY <1>5, <2>4 DEF UpdateWrite, Goto, TypeOK
      <3> QED
        BY <2>1, <2>4, <3>1, <3>2 DEF EvalWork, Updating, NextEval
    <2>5. CASE upd[p] \in {"gate", "efail"}
      <3>1. pc'[p] = "load" /\ upd'[p] \in {"done", "fail"}
        BY <1>5, <2>5 DEF UpdateWrite, Call, Goto, TypeOK
      <3> QED
        BY <3>1 DEF EvalWork, Updating
    <2>6. CASE upd[p] = "retry"
      <3>1. pc'[p] = "load" /\ upd'[p] = "eval"
        BY <1>5, <2>6 DEF UpdateWrite, Call, Goto, TypeOK
      <3> QED
        BY <2>1, <2>6, <3>1 DEF EvalWork, Updating
    <2> QED
      BY <1>5, <2>1, <2>2, <2>3, <2>4, <2>5, <2>6 DEF UpdateWrite, Updates
  <1>6. CASE Launch(p)
    <2>1. /\ pc[p] = "service" /\ cur[p] \in Items /\ UNCHANGED <<cur, ckpt, results>>
          /\ pc'[p] = "train" \/ (pc'[p] = "load" /\ upd'[p] = "fail")
      BY <1>6 DEF Launch, Call, Goto, CurInv, InItem, TypeOK
    <2>2. pc'[p] = "train" /\ job'[cur[p]] = "saved" => Evals = 0
      BY <1>6, <2>1 DEF Launch, Call, Goto, TypeOK
    <2>3. Evals = 0 => ckpt[cur[p]] = EvalIds
      BY <2>1 DEF TypeOK, EvalIds
    <2> QED
      BY <2>1, <2>2, <2>3 DEF EvalWork, Updating
  <1>7. CASE TrainEnd(p) \/ Retain(p)
    <2>1. /\ pc[p] \in {"train", "retain"} /\ UNCHANGED <<cur, ckpt, results>>
          /\ \/ /\ pc[p] = "train" => job[cur[p]] = "saved"
                /\ Goto(p, "retain", "none") \/ BeginEval(p) \/ Call(p, "keep")
             \/ Call(p, "fail")
      BY <1>7 DEF TrainEnd, Retain, files
    <2>2. \/ /\ pc[p] = "train" => job[cur[p]] = "saved"
             /\ \/ pc'[p] = "retain"
                \/ pc'[p] = "load" /\ upd'[p] \in {"done", "eval", "keep"}
          \/ pc'[p] = "load" /\ upd'[p] = "fail"
      BY <2>1, BeginEvalShape DEF Call, Goto, TypeOK
    <2> QED
      BY <2>1, <2>2 DEF EvalWork, Updating
  <1>8. CASE EvalSkip(p)
    <2>1. /\ pc[p] = "eval" /\ pc' = pc /\ NextEval(p) \in EvalIds
          /\ UNCHANGED <<queue, cur, ckpt>>
      BY <1>8 DEF EvalSkip, files
    <2> QED
      BY <2>1 DEF EvalWork, Updating
  <1>9. CASE EvalRun(p)
    <2> DEFINE k == NextEval(p)
    <2>1. /\ pc[p] = "eval" /\ k \in EvalIds /\ UNCHANGED <<queue, cur>> /\ cur[p] \in Items
      BY <1>9 DEF EvalRun, CurInv, InItem
    <2>2. /\ ckpt[cur[p]] = EvalIds /\ queue.items[cur[p]].post = "running"
      BY <2>1 DEF EvalWork
    <2>3. CASE /\ \E r \in {"pass", "fail"} : results' = [results EXCEPT ![p] = Append(@, r)]
               /\ ckpt' = [ckpt EXCEPT ![cur[p]] = @ \ Cleaned(k, TRUE)]
               /\ UNCHANGED <<pc, upd>>
      <3>1. NextEval(p)' = k + 1
        BY <2>3 DEF NextEval, TypeOK
      <3>2. k + 1 \in EvalIds => k \notin CleanupEvals
        BY <2>1, ConfigAssumption DEF EvalIds
      <3>3. k \notin CleanupEvals => ckpt'[cur[p]] = ckpt[cur[p]]
        BY <2>1, <2>3 DEF Cleaned, TypeOK
      <3> QED
        BY <2>1, <2>2, <2>3, <3>1, <3>2, <3>3 DEF EvalWork, Updating
    <2>4. CASE /\ Call(p, "efail")
               /\ ckpt' = [ckpt EXCEPT ![cur[p]] = @ \ Cleaned(k, FALSE)]
      <3>1. ckpt'[cur[p]] = ckpt[cur[p]]
        BY <2>1, <2>4 DEF Cleaned, TypeOK
      <3>2. pc'[p] = "load" /\ upd'[p] = "efail"
        BY <2>4 DEF Call, Goto, TypeOK
      <3> QED
        BY <2>1, <2>2, <3>1, <3>2 DEF EvalWork, Updating
    <2> QED
      BY <1>9, <2>3, <2>4 DEF EvalRun
  <1>10. CASE EvalEnd(p)
    <2>1. pc'[p] = "load" /\ upd'[p] = "gate"
      BY <1>10 DEF EvalEnd, Call, Goto, TypeOK
    <2> QED
      BY <2>1 DEF EvalWork, Updating
  <1>11. ASSUME NEW i \in Items, StartRetry(p, i) PROVE EvalWork(p)'
    <2>1. /\ pc'[p] = "load" /\ cur'[p] = i /\ pc[p] = "off"
          /\ UNCHANGED <<ckpt, results>>
          /\ upd'[p] = IF ckpt[i] = EvalIds THEN "retry" ELSE "fail"
      BY <1>11, ConfigAssumption DEF StartRetry, Call, Goto, files, TypeOK
    <2> QED
      BY <2>1 DEF EvalWork, Updating
  <1> QED
    BY <1>1, <1>2, <1>3, <1>4, <1>5, <1>6, <1>7, <1>8, <1>9, <1>10, <1>11 DEF WorkerNext, Work

\* A failed post-eval is recorded before anything is removed, and a checkpoint
\* goes only under an item that is shown as being evaluated.
LEMMA RetryableStep ==
  ASSUME TypeOK, CurInv, CopyInv, EvalInv, [Next]_vars
  PROVE  FailedEvalRetryable'
  <1>1. ASSUME ckpt' = ckpt,
               \A i \in Items : queue'.items[i].post = queue.items[i].post
        PROVE  FailedEvalRetryable'
    BY <1>1 DEF EvalInv, FailedEvalRetryable
  <1>2. ASSUME NEW p \in Workers, UpdateWrite(p) \/ Finish(p) PROVE FailedEvalRetryable'
    <2>1. ckpt' = ckpt
      BY <1>2 DEF UpdateWrite, Finish
    <2>2. ASSUME NEW i \in Items, queue'.items[i].post = "failed"
          PROVE  queue.items[i].post = "failed" \/ ckpt[i] = EvalIds
      <3>1. CASE i # cur[p]
        BY <1>2, <2>2, <3>1, QuietUpdate
      <3>2. CASE i = cur[p] /\ upd[p] = "efail"
        <4>1. pc[p] = "write"
          BY <1>2, QuietUpdate
        <4> QED
          BY <3>2, <4>1 DEF EvalInv, EvalWork, Updating
      <3>3. CASE i = cur[p] /\ upd[p] # "efail"
        BY <1>2, <2>2, <3>3, QuietUpdate
      <3> QED
        BY <3>1, <3>2, <3>3
    <2> QED
      BY <2>1, <2>2 DEF EvalInv, FailedEvalRetryable
  <1>3. ASSUME NEW p \in Workers, EvalRun(p) PROVE FailedEvalRetryable'
    <2>1. /\ pc[p] = "eval" /\ queue' = queue
          /\ \E S : ckpt' = [ckpt EXCEPT ![cur[p]] = ckpt[cur[p]] \ S]
      BY <1>3 DEF EvalRun
    <2>2. queue.items[cur[p]].post = "running"
      BY <2>1 DEF EvalInv, EvalWork
    <2>3. \A i \in Items : i # cur[p] => ckpt'[i] = ckpt[i]
      BY <2>1 DEF TypeOK
    <2> QED
      BY <2>1, <2>2, <2>3 DEF EvalInv, FailedEvalRetryable
  <1>4. ASSUME NEW i \in Items, NEW k \in EvalIds, Save(i, k) PROVE FailedEvalRetryable'
    <2>1. queue' = queue
      BY <1>4 DEF Save
    <2> QED
      BY <1>4, <2>1, SaveKeepsFull DEF EvalInv, FailedEvalRetryable
  <1>5. ASSUME NEW p \in Workers, WorkerNext(p), ~EvalRun(p) PROVE ckpt' = ckpt
    BY <1>5 DEF WorkerNext, Work, LoadNext, Promote, Reload, Pick, Idle, Prepare, Freeze,
       UpdateLoad, UpdateWrite, Finish, Launch, TrainEnd, Retain, EvalSkip, EvalEnd,
       StartWatcher, StartRetry, Crash, files
  <1>6. ASSUME NEW o \in Operators, OperatorNext(o) PROVE ckpt' = ckpt
    BY <1>6 DEF OperatorNext, ApproveLoad, ApproveWrite, ResetLoad, ResetWrite, files
  <1>7. ASSUME NEW p \in Workers, Promote(p), NEW i \in Items
        PROVE  queue'.items[i].post = queue.items[i].post
    BY <1>7, QuietRestore DEF Restored
  <1>8. ASSUME NEW o \in Operators, ApproveWrite(o) \/ ResetWrite(o), NEW i \in Items
        PROVE  queue'.items[i].post = queue.items[i].post
    BY <1>8, QuietRestore DEF Restored, Same
  <1>9. ASSUME NEW p \in Workers, WorkerNext(p) PROVE FailedEvalRetryable'
    <2>1. CASE Promote(p)
      BY <1>1, <1>5, <1>7, <1>9, <2>1 DEF Promote
    <2>2. CASE EvalRun(p) \/ UpdateWrite(p) \/ Finish(p)
      BY <1>2, <1>3, <2>2
    <2>3. CASE ~Promote(p) /\ ~EvalRun(p) /\ ~UpdateWrite(p) /\ ~Finish(p)
      <3>1. queue' = queue
        BY <1>9, <2>3 DEF WorkerNext, Work, LoadNext, Reload, Pick, Idle, Prepare, Freeze,
           UpdateLoad, Launch, TrainEnd, Retain, EvalSkip, EvalEnd, StartWatcher, StartRetry,
           Crash, files
      <3> QED
        BY <1>1, <1>5, <1>9, <2>3, <3>1
    <2> QED
      BY <2>1, <2>2, <2>3
  <1>10. ASSUME NEW o \in Operators, OperatorNext(o) PROVE FailedEvalRetryable'
    <2>1. CASE ApproveWrite(o) \/ ResetWrite(o)
      BY <1>1, <1>6, <1>8, <1>10, <2>1
    <2>2. CASE ~ApproveWrite(o) /\ ~ResetWrite(o)
      <3>1. queue' = queue
        BY <1>10, <2>2 DEF OperatorNext, ApproveLoad, ResetLoad, files
      <3> QED
        BY <1>1, <1>6, <1>10, <3>1
    <2> QED
      BY <2>1, <2>2
  <1>11. ASSUME NEW i \in Items, OrphanEnd(i) PROVE FailedEvalRetryable'
    BY <1>1, <1>11 DEF OrphanEnd
  <1>12. CASE UNCHANGED vars
    BY <1>1, <1>12 DEF vars
  <1> QED
    BY <1>4, <1>9, <1>10, <1>11, <1>12 DEF Next, TrainingNext

LEMMA EvalStep ==
  ASSUME ~Racing, TypeOK, CurInv, LockInv, CopyInv, EvalInv, [Next]_vars,
         CleanupEvals \subseteq {Evals}
  PROVE  EvalInv'
  <1>1. ASSUME NEW p \in Workers, WorkerNext(p), NEW q \in Workers PROVE EvalWork(q)'
    <2>1. CASE q = p
      BY <1>1, <2>1, EvalWorkStep DEF EvalInv
    <2>2. CASE q # p
      <3>1. pc[q] = "off" /\ pc'[q] = "off" /\ results'[q] = results[q]
        BY <1>1, <2>2, Alone, LocalStep
      <3> QED
        BY <3>1 DEF EvalInv, EvalWork, Updating
    <2> QED
      BY <2>1, <2>2
  <1>2. ASSUME NEW o \in Operators, OperatorNext(o), NEW q \in Workers PROVE EvalWork(q)'
    <2>1. pc[q] = "off" /\ pc' = pc /\ results' = results
      BY <1>2, Alone DEF OperatorNext, ApproveLoad, ApproveWrite, ResetLoad, ResetWrite, procs
    <2> QED
      BY <2>1 DEF EvalInv, EvalWork, Updating
  <1>3. ASSUME NEW i \in Items, NEW k \in EvalIds, Save(i, k), NEW q \in Workers
        PROVE  EvalWork(q)'
    <2>1. UNCHANGED <<queue, pc, upd, cur, results>>
      BY <1>3 DEF Save, procs
    <2>2. EvalWork(q) /\ (pc[q] \in InItem => cur[q] \in Items)
      BY DEF EvalInv, CurInv
    <2>3. cur[q] \in Items =>
             /\ ckpt[cur[q]] = EvalIds => ckpt'[cur[q]] = EvalIds
             /\ (job[cur[q]] = "saved" => ckpt[cur[q]] = EvalIds)
                   => (job'[cur[q]] = "saved" => ckpt'[cur[q]] = EvalIds)
      BY <1>3, SaveKeepsFull
    <2> QED
      BY <2>1, <2>2, <2>3 DEF EvalWork, Updating, InItem, NextEval
  <1>4. ASSUME NEW i \in Items, OrphanEnd(i), NEW q \in Workers PROVE EvalWork(q)'
    <2>1. UNCHANGED <<queue, ckpt, pc, upd, cur, results>>
      BY <1>4 DEF OrphanEnd, procs
    <2>2. \A j \in Items : job'[j] = "saved" => job[j] = "saved"
      BY <1>4 DEF OrphanEnd, TypeOK
    <2>3. EvalWork(q) /\ (pc[q] \in InItem => cur[q] \in Items)
      BY DEF EvalInv, CurInv
    <2> QED
      BY <2>1, <2>2, <2>3 DEF EvalWork, Updating, InItem, NextEval
  <1>5. ASSUME UNCHANGED vars, NEW q \in Workers PROVE EvalWork(q)'
    BY <1>5 DEF vars, EvalInv, EvalWork, Updating, NextEval
  <1>6. \A q \in Workers : EvalWork(q)'
    BY <1>1, <1>2, <1>3, <1>4, <1>5 DEF Next, TrainingNext
  <1> QED
    BY <1>6, RetryableStep DEF EvalInv

\* Where only the last eval removes its actor checkpoint, a failed post-eval
\* leaves all the checkpoints that a retry starts from.
THEOREM FailedEvalsRetryable ==
  ASSUME ~Racing, CleanupEvals \subseteq {Evals}
  PROVE  Spec => []FailedEvalRetryable
  <1>1. Init => EvalInv
    <2> SUFFICES ASSUME Init PROVE EvalInv
      OBVIOUS
    <2>1. \A i \in Items : queue.items[i].post = "none"
      BY DEF Init, FreshItem
    <2> QED
      BY <2>1 DEF Init, EvalInv, FailedEvalRetryable, EvalWork, Updating
  <1>2. QuietInv /\ EvalInv /\ [Next]_vars => EvalInv'
    BY EvalStep DEF QuietInv, IInv
  <1>3. EvalInv => FailedEvalRetryable
    BY DEF EvalInv
  <1> QED
    BY QuietInvariance, <1>1, <1>2, <1>3, PTL DEF Spec

(* ----- The queue implements TrainingOnce ----- *)

\* A worker between the end of a training command that saved and the verdict.
Judging(p) == \/ pc[p] \in {"retain", "eval"}
              \/ pc[p] \in {"load", "write"} /\ upd[p] \in {"keep", "eval", "retry"}

\* Checkpoints come from a training, a training that saved left those that stay,
\* and so did the training of an item that is being judged.
SavedInv ==
    /\ \A i \in Items : ckpt[i] # {} => starts[i] > 0
    /\ \A i \in Items : job[i] = "saved" => Kept \subseteq ckpt[i]
    /\ \A p \in Workers : Judging(p) => starts[cur[p]] > 0 /\ Kept \subseteq ckpt[cur[p]]

\* Where the checkpoints change: a training adds one, an evaluation removes
\* those that do not stay.
LEMMA CheckpointStep ==
  ASSUME TypeOK, CurInv, [Next]_vars, ckpt' # ckpt
  PROVE  \/ \E i \in Items, k \in EvalIds : Save(i, k)
         \/ \E p \in Workers : /\ EvalRun(p) /\ cur[p] \in Items
                               /\ \E S \in SUBSET CleanupEvals :
                                     ckpt' = [ckpt EXCEPT ![cur[p]] = ckpt[cur[p]] \ S]
  <1>1. ASSUME NEW p \in Workers, EvalRun(p)
        PROVE  \E S \in SUBSET CleanupEvals :
                  ckpt' = [ckpt EXCEPT ![cur[p]] = ckpt[cur[p]] \ S]
    <2>1. \A b \in BOOLEAN : Cleaned(NextEval(p), b) \subseteq CleanupEvals
      BY DEF Cleaned
    <2> QED
      BY <1>1, <2>1 DEF EvalRun
  <1>2. ASSUME NEW p \in Workers, EvalRun(p) PROVE cur[p] \in Items
    BY <1>2 DEF EvalRun, CurInv, InItem
  <1> QED
    BY <1>1, <1>2 DEF Next, WorkerNext, Work, LoadNext, Promote, Reload, Pick, Idle, Prepare,
           Freeze, UpdateLoad, UpdateWrite, Finish, Launch, TrainEnd, Retain, EvalSkip,
           EvalEnd, StartWatcher, StartRetry, Crash, OperatorNext, ApproveLoad,
           ApproveWrite, ResetLoad, ResetWrite, TrainingNext, OrphanEnd, files, vars

\* The checkpoints that stay stay, and only a launched training has any.
LEMMA KeptStep ==
  ASSUME TypeOK, CurInv, JobInv, [Next]_vars, NEW i \in Items
  PROVE  /\ Kept \subseteq ckpt[i] => Kept \subseteq ckpt'[i]
         /\ ckpt'[i] # {} => ckpt[i] # {} \/ starts[i] > 0
  <1>1. CASE ckpt' = ckpt
    BY <1>1
  <1>2. ASSUME NEW j \in Items, NEW k \in EvalIds, Save(j, k)
        PROVE  /\ Kept \subseteq ckpt[i] => Kept \subseteq ckpt'[i]
               /\ ckpt'[i] # {} => ckpt[i] # {} \/ starts[i] > 0
    <2>1. ckpt'[i] = IF i = j THEN ckpt[i] \cup {k} ELSE ckpt[i]
      BY <1>2 DEF Save, TypeOK
    <2>2. starts[j] > 0
      BY <1>2 DEF Save, JobInv
    <2> QED
      BY <2>1, <2>2
  <1>3. ASSUME NEW p \in Workers, EvalRun(p), cur[p] \in Items, NEW S \in SUBSET CleanupEvals,
               ckpt' = [ckpt EXCEPT ![cur[p]] = ckpt[cur[p]] \ S]
        PROVE  /\ Kept \subseteq ckpt[i] => Kept \subseteq ckpt'[i]
               /\ ckpt'[i] # {} => ckpt[i] # {} \/ starts[i] > 0
    <2>1. ckpt'[i] = IF i = cur[p] THEN ckpt[i] \ S ELSE ckpt[i]
      BY <1>3 DEF TypeOK
    <2> QED
      BY <2>1 DEF Kept
  <1> QED
    BY <1>1, <1>2, <1>3, CheckpointStep

\* A command that was launched stays launched.
LEMMA StartsGrow ==
  ASSUME TypeOK, CurInv, [Next]_vars, NEW i \in Items, starts[i] > 0
  PROVE  starts'[i] > 0
  <1>1. ASSUME NEW p \in Workers, Launch(p) PROVE starts'[i] > 0
    <2>1. starts \in [Items -> Nat] /\ starts[cur[p]] + 1 > 0 /\ cur[p] \in Items
      BY <1>1 DEF TypeOK, Launch, CurInv, InItem
    <2>2. starts' = starts \/ starts' = [starts EXCEPT ![cur[p]] = starts[cur[p]] + 1]
      BY <1>1 DEF Launch
    <2> QED
      BY <2>1, <2>2
  <1>2. (\A p \in Workers : ~Launch(p)) => starts' = starts
    BY DEF Next, WorkerNext, Work, LoadNext, Promote, Reload, Pick, Idle, Prepare,
           Freeze, UpdateLoad, UpdateWrite, Finish, TrainEnd, Retain, EvalSkip, EvalRun,
           EvalEnd, StartWatcher, StartRetry, Crash, OperatorNext, ApproveLoad,
           ApproveWrite, ResetLoad, ResetWrite, TrainingNext, Save, OrphanEnd, ghosts, vars
  <1> QED
    BY <1>1, <1>2

\* A worker gets to judge from a training command that ended with everything
\* saved, or by a retry that finds all checkpoints on disk.
LEMMA JudgingStep ==
  ASSUME TypeOK, CurInv, JobInv, SavedInv, NEW p \in Workers, WorkerNext(p), Judging(p)'
  PROVE  /\ cur'[p] \in Items
         /\ starts[cur'[p]] > 0 /\ Kept \subseteq ckpt[cur'[p]]
  <1> DEFINE Fine(i) == i \in Items /\ starts[i] > 0 /\ Kept \subseteq ckpt[i]
  <1>1. Judging(p) => Fine(cur[p])
    BY DEF SavedInv, Judging, CurInv, InItem
  <1>2. CASE LoadNext(p) \/ Promote(p) \/ Reload(p) \/ Pick(p) \/ Prepare(p) \/ Freeze(p)
    BY <1>2 DEF Judging, LoadNext, Promote, Reload, Pick, Prepare, Freeze, Call, Goto, TypeOK
  <1>3. CASE Idle(p) \/ Finish(p) \/ Crash(p)
    BY <1>3 DEF Judging, Idle, Finish, Crash, Stop, Goto, TypeOK
  <1>4. CASE UpdateLoad(p)
    BY <1>1, <1>4 DEF Judging, UpdateLoad, Goto, TypeOK
  <1>5. CASE UpdateWrite(p)
    <2>1. pc[p] = "write" /\ cur' = cur
      BY <1>5 DEF UpdateWrite
    <2>2. upd[p] \in {"keep", "eval", "retry"}
      BY <1>5 DEF UpdateWrite, Judging, Call, Goto, TypeOK
    <2> QED
      BY <1>1, <2>1, <2>2 DEF Judging
  <1>6. CASE Launch(p)
    BY <1>6 DEF Judging, Launch, Call, Goto, TypeOK
  <1>7. CASE TrainEnd(p)
    <2>1. pc[p] = "train" /\ cur' = cur /\ cur[p] \in Items
      BY <1>7 DEF TrainEnd, CurInv, InItem
    <2>2. job[cur[p]] = "saved"
      BY <1>7 DEF TrainEnd, Judging, Call, Goto, TypeOK
    <2> QED
      BY <2>1, <2>2 DEF JobInv, SavedInv
  <1>8. CASE Retain(p)
    <2>1. Judging(p) /\ cur' = cur
      BY <1>8 DEF Retain, files, Judging
    <2> QED
      BY <1>1, <2>1
  <1>9. CASE EvalSkip(p) \/ EvalRun(p)
    <2>1. Judging(p) /\ cur' = cur
      BY <1>9 DEF EvalSkip, EvalRun, Judging
    <2> QED
      BY <1>1, <2>1
  <1>10. CASE EvalEnd(p)
    BY <1>10 DEF Judging, EvalEnd, Call, Goto, TypeOK
  <1>11. ASSUME NEW m \in {"watch", "once"}, StartWatcher(p, m)
         PROVE  FALSE
    BY <1>11 DEF Judging, StartWatcher, Goto, TypeOK
  <1>12. ASSUME NEW i \in Items, StartRetry(p, i)
         PROVE  Fine(cur'[p])
    <2>1. cur'[p] = i /\ Evals > 0
      BY <1>12 DEF StartRetry, TypeOK
    <2>2. ckpt[i] = EvalIds
      BY <1>12 DEF StartRetry, Judging, Call, Goto, TypeOK
    <2>3. 1 \in EvalIds /\ Kept \subseteq EvalIds
      BY <2>1, ConfigAssumption DEF EvalIds, Kept
    <2> QED
      BY <2>1, <2>2, <2>3 DEF SavedInv
  <1> QED
    BY <1>2, <1>3, <1>4, <1>5, <1>6, <1>7, <1>8, <1>9, <1>10, <1>11, <1>12
       DEF WorkerNext, Work

LEMMA SavedStep ==
  ASSUME TypeOK, CurInv, JobInv, SavedInv, [Next]_vars
  PROVE  SavedInv'
  <1>1. ASSUME NEW i \in Items, ckpt'[i] # {} PROVE starts'[i] > 0
    <2>1. starts[i] > 0
      BY <1>1, KeptStep DEF SavedInv
    <2> QED
      BY <2>1, StartsGrow
  <1>2. ASSUME NEW i \in Items, job'[i] = "saved" PROVE Kept' \subseteq ckpt'[i]
    <2>0. Kept' = Kept
      BY DEF Kept
    <2>1. CASE job[i] = "saved"
      BY <2>0, <2>1, KeptStep DEF SavedInv
    <2>2. CASE job[i] # "saved"
      <3>1. ASSUME NEW p \in Workers, Launch(p) PROVE Kept \subseteq ckpt'[i]
        <4>1. Evals = 0
          BY <1>2, <2>2, <3>1 DEF Launch, TypeOK
        <4> QED
          BY <4>1 DEF Kept, EvalIds
      <3>2. ASSUME NEW j \in Items, NEW k \in EvalIds, Save(j, k) PROVE Kept \subseteq ckpt'[i]
        <4>1. i = j /\ EvalIds \subseteq ckpt[i] \cup {k}
          BY <1>2, <2>2, <3>2 DEF Save, TypeOK
        <4>2. ckpt'[i] = ckpt[i] \cup {k}
          BY <3>2, <4>1 DEF Save, TypeOK
        <4> QED
          BY <4>1, <4>2 DEF Kept
      <3>3. ASSUME NEW p \in Workers, TrainEnd(p) \/ Crash(p) PROVE FALSE
        BY <1>2, <2>2, <3>3 DEF TrainEnd, Crash, TypeOK
      <3>4. ASSUME NEW j \in Items, OrphanEnd(j) PROVE FALSE
        BY <1>2, <2>2, <3>4 DEF OrphanEnd, TypeOK
      <3>5. job' # job
        BY <1>2, <2>2
      <3> QED
        BY <2>0, <3>1, <3>2, <3>3, <3>4, <3>5
           DEF Next, WorkerNext, Work, LoadNext, Promote, Reload, Pick, Idle, Prepare,
           Freeze, UpdateLoad, UpdateWrite, Finish, Retain, EvalSkip, EvalRun,
           EvalEnd, StartWatcher, StartRetry, OperatorNext, ApproveLoad,
           ApproveWrite, ResetLoad, ResetWrite, TrainingNext, files, vars
    <2> QED
      BY <2>1, <2>2
  <1>3. ASSUME NEW q \in Workers, Judging(q)'
        PROVE  starts'[cur'[q]] > 0 /\ Kept' \subseteq ckpt'[cur'[q]]
    <2>1. ASSUME cur'[q] \in Items, starts[cur'[q]] > 0, Kept \subseteq ckpt[cur'[q]]
          PROVE  starts'[cur'[q]] > 0 /\ Kept' \subseteq ckpt'[cur'[q]]
      BY <2>1, KeptStep, StartsGrow DEF Kept
    <2>2. Judging(q) => cur[q] \in Items /\ starts[cur[q]] > 0 /\ Kept \subseteq ckpt[cur[q]]
      BY DEF SavedInv, Judging, CurInv, InItem
    <2>3. CASE WorkerNext(q)
      BY <1>3, <2>1, <2>3, JudgingStep
    <2>4. CASE pc'[q] = pc[q] /\ upd'[q] = upd[q] /\ cur'[q] = cur[q]
      BY <1>3, <2>1, <2>2, <2>4 DEF Judging
    <2>5. ASSUME NEW p \in Workers, WorkerNext(p), p # q
          PROVE  pc'[q] = pc[q] /\ upd'[q] = upd[q] /\ cur'[q] = cur[q]
      BY <2>5, LocalStep
    <2>6. ASSUME NEW o \in Operators, OperatorNext(o) PROVE UNCHANGED <<pc, upd, cur>>
      BY <2>6 DEF OperatorNext, ApproveLoad, ApproveWrite, ResetLoad, ResetWrite, procs
    <2>7. ASSUME NEW i \in Items, TrainingNext(i) PROVE UNCHANGED <<pc, upd, cur>>
      BY <2>7 DEF TrainingNext, Save, OrphanEnd, procs
    <2>8. CASE UNCHANGED vars
      BY <2>4, <2>8 DEF vars
    <2> QED
      BY <2>3, <2>4, <2>5, <2>6, <2>7, <2>8 DEF Next
  <1> QED
    BY <1>1, <1>2, <1>3 DEF SavedInv

LEMMA PhaseInit == Init => Once!Init
  <1> SUFFICES ASSUME Init PROVE Once!Init
    OBVIOUS
  <1>1. Once!Items = Items
    BY DEF Once!Items, Items
  <1>2. Under = [i \in Items |-> 0]
    BY NoDocType DEF Init, Under
  <1>3. Phase = [i \in Items |-> "waiting"]
    BY DEF Init, Phase
  <1> QED
    BY <1>1, <1>2, <1>3 DEF Init, Once!Init

\* Freezing, launching, saving, ending and judging each show as the step of that
\* name, or not at all; no other step shows.
LEMMA PhaseStep ==
  ASSUME IInv, SavedInv, [Next]_vars
  PROVE  [Once!Next]_(Once!vars)
  <1> USE DEF IInv
  <1> DEFINE Hidden == UNCHANGED <<Under, Phase, verdict>>
  <1>0. Once!Items = Items
    BY DEF Once!Items, Items
  <1>1. ASSUME starts' = starts, job' = job, ckpt' = ckpt PROVE Phase' = Phase
    BY <1>1 DEF Phase, Kept
  <1>2. contract' = contract => Under' = Under
    BY DEF Under
  <1>3. Hidden => [Once!Next]_(Once!vars)
    BY DEF Once!vars
  <1>4. ASSUME NEW p \in Workers, Freeze(p) PROVE [Once!Next]_(Once!vars)
    <2>1. Phase' = Phase /\ verdict' = verdict
      BY <1>1, <1>4 DEF Freeze, ghosts
    <2>2. CASE contract' = contract
      BY <1>2, <1>3, <2>1, <2>2
    <2>3. CASE contract' # contract
      <3>1. PICK q \in Workers : /\ Freeze(q) /\ cur[q] \in Items /\ contract[cur[q]] = NoDoc
                                 /\ contract' = [contract EXCEPT ![cur[q]] = mem[q]]
        BY <2>3, ContractStep
      <3> DEFINE i == cur[q]
      <3>2. contract[i].rev = 0 /\ contract'[i].rev > 0 /\ starts[i] = 0
        <4>1. contract[i].rev = 0
          BY <3>1, NoDocType
        <4>2. contract'[i] = mem[q]
          BY <3>1 DEF TypeOK
        <4>3. mem[q].rev > 0
          BY <3>1 DEF Freeze, VersionInv, WorkerInv
        <4>4. starts[i] \in Nat /\ ~(starts[i] > 0)
          BY <3>1, <4>1 DEF VersionInv, TypeOK
        <4> QED
          BY <4>1, <4>2, <4>3, <4>4
      <3>3. \A j \in Items \ {i} : contract'[j] = contract[j]
        BY <3>1 DEF TypeOK
      <3>4. Phase[i] = "waiting" /\ Under[i] = 0 /\ Under'[i] # 0
        BY <3>1, <3>2 DEF Phase, Under
      <3>5. \A j \in Items \ {i} : Under'[j] = Under[j]
        BY <3>3 DEF Under
      <3>6. Once!Freeze(i)
        BY <1>0, <2>1, <3>4, <3>5 DEF Once!Freeze
      <3> QED
        BY <1>0, <3>1, <3>6 DEF Once!Next
    <2> QED
      BY <2>2, <2>3
  <1>5. ASSUME NEW p \in Workers, Launch(p) PROVE [Once!Next]_(Once!vars)
    <2> DEFINE i == cur[p]
    <2>1. i \in Items /\ starts[i] = 0 /\ contract[i].rev > 0
      BY <1>5 DEF Launch, CurInv, InItem, VersionInv, WorkerInv, Marking
    <2>2. Under' = Under /\ verdict' = verdict /\ ckpt' = ckpt
      BY <1>2, <1>5 DEF Launch
    <2>3. CASE /\ starts' = [starts EXCEPT ![i] = starts[i] + 1]
               /\ \E v \in {"saving", "saved"} : job' = [job EXCEPT ![i] = v]
      <3>1. /\ starts'[i] = 1 /\ job'[i] # "none"
            /\ \A j \in Items \ {i} : starts'[j] = starts[j] /\ job'[j] = job[j]
        BY <2>1, <2>3 DEF TypeOK
      <3>2. Phase[i] = "waiting" /\ Under[i] # 0
        BY <2>1 DEF Phase, Under
      <3>3. \E s \in {"saving", "saved"} : Phase' = [Phase EXCEPT ![i] = s]
        <4>1. \A j \in Items \ {i} : Phase'[j] = Phase[j]
          BY <2>2, <3>1 DEF Phase, Kept
        <4>2. Phase'[i] \in {"saving", "saved"}
          BY <2>1, <2>2, <3>1 DEF Phase, Kept
        <4>3. Phase' = [Phase EXCEPT ![i] = Phase'[i]]
          <5>1. Phase' = [j \in Items |-> Phase'[j]] /\ Phase = [j \in Items |-> Phase[j]]
            BY DEF Phase
          <5> HIDE DEF i
          <5> QED
            BY <2>1, <4>1, <5>1
        <4> QED
          BY <4>2, <4>3
      <3>4. Once!Start(i)
        BY <2>2, <3>2, <3>3 DEF Once!Start
      <3> QED
        BY <1>0, <2>1, <3>4 DEF Once!Next
    <2>4. CASE starts' = starts /\ job' = job
      BY <1>1, <1>3, <2>2, <2>4
    <2> QED
      BY <1>5, <2>3, <2>4 DEF Launch
  <1>6. ASSUME NEW i \in Items, job' = [job EXCEPT ![i] = "none"],
               starts' = starts, ckpt' = ckpt, contract' = contract, verdict' = verdict
        PROVE  [Once!Next]_(Once!vars)
    <2>1. job'[i] = "none" /\ \A j \in Items \ {i} : job'[j] = job[j]
      BY <1>6 DEF TypeOK
    <2>2. CASE job[i] = "none"
      <3>1. job' = job
        BY <1>6, <2>2 DEF TypeOK
      <3> QED
        BY <1>1, <1>2, <1>3, <1>6, <3>1
    <2>3. CASE job[i] # "none" /\ Kept \subseteq ckpt[i]
      <3>1. starts[i] # 0
        BY <2>3 DEF JobInv
      <3>2. Phase[i] = "saved" /\ Phase' = [Phase EXCEPT ![i] = "done"]
        BY <1>6, <2>1, <2>3, <3>1 DEF Phase, Kept
      <3>3. Once!End(i)
        BY <1>2, <1>6, <3>2 DEF Once!End
      <3> QED
        BY <1>0, <3>3 DEF Once!Next
    <2>4. CASE job[i] # "none" /\ ~(Kept \subseteq ckpt[i])
      <3>1. starts[i] # 0
        BY <2>4 DEF JobInv
      <3>2. Phase[i] = "saving" /\ Phase' = [Phase EXCEPT ![i] = "short"]
        BY <1>6, <2>1, <2>4, <3>1 DEF Phase, Kept
      <3>3. Once!End(i)
        BY <1>2, <1>6, <3>2 DEF Once!End
      <3> QED
        BY <1>0, <3>3 DEF Once!Next
    <2> QED
      BY <2>2, <2>3, <2>4
  <1>7. ASSUME NEW p \in Workers, TrainEnd(p) \/ Crash(p) PROVE [Once!Next]_(Once!vars)
    <2>1. starts' = starts /\ ckpt' = ckpt /\ contract' = contract /\ verdict' = verdict
      BY <1>7 DEF TrainEnd, Crash, ghosts
    <2>2. \/ pc[p] = "train" /\ job' = [job EXCEPT ![cur[p]] = "none"]
          \/ job' = job
      BY <1>7 DEF TrainEnd, Crash
    <2>3. pc[p] = "train" => cur[p] \in Items
      BY DEF CurInv, InItem
    <2> QED
      BY <1>1, <1>2, <1>3, <1>6, <2>1, <2>2, <2>3
  <1>8. ASSUME NEW i \in Items, OrphanEnd(i) PROVE [Once!Next]_(Once!vars)
    BY <1>6, <1>8 DEF OrphanEnd, ghosts
  <1>9. ASSUME NEW i \in Items, NEW k \in EvalIds, Save(i, k) PROVE [Once!Next]_(Once!vars)
    <2>1. starts' = starts /\ Under' = Under /\ verdict' = verdict /\ job[i] = "saving"
      BY <1>2, <1>9 DEF Save, ghosts
    <2>2. \A j \in Items : job'[j] # "none" <=> job[j] # "none"
      BY <1>9 DEF Save, TypeOK
    <2>3. ckpt'[i] = ckpt[i] \cup {k} /\ \A j \in Items \ {i} : ckpt'[j] = ckpt[j]
      BY <1>9 DEF Save, TypeOK
    <2>4. starts[i] # 0
      BY <2>1 DEF JobInv
    <2>5. CASE (Kept \subseteq ckpt[i]) <=> (Kept \subseteq ckpt'[i])
      <3>1. \A j \in Items : (Kept \subseteq ckpt'[j]) <=> (Kept \subseteq ckpt[j])
        BY <2>3, <2>5
      <3>2. Phase' = Phase
        BY <2>1, <2>2, <3>1 DEF Phase, Kept
      <3> QED
        BY <1>3, <2>1, <3>2
    <2>6. CASE ~(Kept \subseteq ckpt[i]) /\ Kept \subseteq ckpt'[i]
      <3>1. Phase[i] = "saving" /\ Phase' = [Phase EXCEPT ![i] = "saved"]
        BY <2>1, <2>2, <2>3, <2>4, <2>6 DEF Phase, Kept
      <3>2. Once!AllSaved(i)
        BY <2>1, <3>1 DEF Once!AllSaved
      <3> QED
        BY <1>0, <3>2 DEF Once!Next
    <2> QED
      BY <2>3, <2>5, <2>6
  <1>10. ASSUME NEW p \in Workers, EvalRun(p) PROVE [Once!Next]_(Once!vars)
    <2>1. starts' = starts /\ job' = job /\ Under' = Under /\ verdict' = verdict
      BY <1>2, <1>10 DEF EvalRun, ghosts
    <2>2. Judging(p)
      BY <1>10 DEF EvalRun, Judging
    <2>3. \A i \in Items : (Kept \subseteq ckpt'[i]) <=> (Kept \subseteq ckpt[i])
      <3>1. \A i \in Items : Kept \subseteq ckpt[i] => Kept \subseteq ckpt'[i]
        BY KeptStep
      <3>2. \A i \in Items : ckpt'[i] = ckpt[i] \/ i = cur[p]
        BY <1>10 DEF EvalRun, TypeOK
      <3> QED
        BY <2>2, <3>1, <3>2 DEF SavedInv
    <2>4. Phase' = Phase
      BY <2>1, <2>3 DEF Phase, Kept
    <2> QED
      BY <1>3, <2>1, <2>4
  <1>11. ASSUME NEW p \in Workers, EvalEnd(p) PROVE [Once!Next]_(Once!vars)
    <2> DEFINE i == cur[p]
    <2>1. Phase' = Phase /\ Under' = Under /\ i \in Items /\ Judging(p)
      BY <1>1, <1>2, <1>11 DEF EvalEnd, files, CurInv, InItem, Judging
    <2>2. Phase[i] \in {"saved", "done"}
      BY <2>1 DEF SavedInv, Phase
    <2>3. \E v \in {"pass", "fail"} : verdict' = [verdict EXCEPT ![i] = v]
      BY <1>11 DEF EvalEnd
    <2>4. Once!Judge(i)
      BY <2>1, <2>2, <2>3 DEF Once!Judge
    <2> QED
      BY <1>0, <2>1, <2>4 DEF Once!Next
  <1>12. ASSUME NEW o \in Operators, OperatorNext(o) PROVE Hidden
    <2>1. UNCHANGED <<starts, job, ckpt, contract, verdict>>
      BY <1>12 DEF OperatorNext, ApproveLoad, ApproveWrite, ResetLoad, ResetWrite,
                   files, ghosts, procs
    <2> QED
      BY <1>1, <1>2, <2>1
  <1>13. CASE UNCHANGED vars
    BY <1>1, <1>2, <1>3, <1>13 DEF vars
  <1>14. ASSUME NEW p \in Workers, WorkerNext(p), ~Freeze(p), ~Launch(p), ~TrainEnd(p),
                ~Crash(p), ~EvalRun(p), ~EvalEnd(p)
         PROVE  Hidden
    <2>1. UNCHANGED <<starts, job, ckpt, contract, verdict>>
      BY <1>14 DEF WorkerNext, Work, LoadNext, Promote, Reload, Pick, Idle, Prepare,
         UpdateLoad, UpdateWrite, Finish, Retain, EvalSkip, StartWatcher, StartRetry,
         files, ghosts
    <2> QED
      BY <1>1, <1>2, <2>1
  <1> QED
    BY <1>3, <1>4, <1>5, <1>7, <1>8, <1>9, <1>10, <1>11, <1>12, <1>13, <1>14
       DEF Next, TrainingNext

\* The queue keeps the promise of TrainingOnce, however often it is killed, reset,
\* re-armed, retried or overwritten: one contract per item, frozen before the
\* launch and never changed; one training; no verdict before that training wrote
\* the checkpoints that stay.
THEOREM Refinement == Spec => RefinesOnce
  <1>1. Init => SavedInv
    BY DEF Init, SavedInv, Judging
  <1>2. IInv /\ SavedInv /\ [Next]_vars => SavedInv'
    BY SavedStep DEF IInv
  <1>3. IInv /\ SavedInv /\ [Next]_vars => [Once!Next]_(Once!vars)
    BY PhaseStep
  <1> QED
    BY Invariance, <1>1, <1>2, <1>3, PhaseInit, PTL DEF Spec, RefinesOnce, Once!Spec
=============================================================================
