----------------------------- MODULE QueueHandoff -----------------------------
(***************************************************************************)
(* Two experiment queues and what passes between them.  A queue is worked   *)
(* off by loops of scripts/nano_prefix_dataset_queue.py ("dataset") or      *)
(* scripts/nano_roundtrip_queue.py ("roundtrip").  nano_queue_chain.py      *)
(* waits for items of the first queue and then starts a loop of the second; *)
(* nano_queue_gate.py unblocks an item of the second on evidence from the   *)
(* first.  Each reads and rewrites whole queue files; only loops lock them. *)
(***************************************************************************)
EXTENDS Naturals

CONSTANTS
    First, Second,   \* the prerequisite queue and the next queue
    N,               \* items per queue
    Kinds,           \* which script works which queue: a set of functions
    Dir,             \* Dir[q]: output_hf_dir of the checkpoint q prepares
    GenerationOnly,  \* items of round-trip queues without a scoring gate
    Gated,           \* items of Second that start blocked
    Dependency,      \* the item of First that nano_queue_gate.py looks at
    Selected,        \* --prerequisite-item, or all items
    RequireGatePass, \* --require-gate-pass
    Hands, Child,    \* loops started by hand, and the one the chain starts
    None,
    MaxResets, MaxGates, MaxFaults

Queues == {First, Second}
Items == 1 .. N
Loops == Hands \cup {Child}
Dirs == {Dir[q] : q \in Queues}

ASSUME QueueAssumption == First # Second /\ N \in Nat \ {0}
ASSUME KindAssumption == Kinds \subseteq [Queues -> {"dataset", "roundtrip"}]
ASSUME ItemAssumption == /\ GenerationOnly \subseteq Items /\ Gated \subseteq Items
                         /\ Selected \subseteq Items /\ Selected # {}
                         /\ Dependency \in Items \ GenerationOnly
ASSUME LoopAssumption == Child \notin Hands /\ None \notin Loops
ASSUME FlagAssumption == RequireGatePass \in BOOLEAN
ASSUME BoundAssumption == {MaxResets, MaxGates, MaxFaults} \subseteq Nat

(* gate_passed: absent, true or false.                                      *)
Passed == {"absent", "yes", "no"}
Item == [status : {"pending", "running", "complete", "failed", "blocked"}, passed : Passed]
Doc == [Items -> Item]
NoDoc == [i \in Items |-> [status |-> "pending", passed |-> "absent"]]

VARIABLES
    kind,    \* the script of each queue
    file,    \* file[q]: the queue file
    lock,    \* lock[q]: the loop that holds <queue>.lock
    loop,    \* loop[l]: step, queue, item, copy of the file, fields to write
    export,  \* export[d]: the HF checkpoint in directory d
    report,  \* report[q][i]: gate.passed in the report of an item
    chain,   \* where nano_queue_chain.py is
    gate,    \* nano_queue_gate.py: step, dependency and target as it read them
    reset,   \* --reset-active: step, queue and copy; stale is history: one
             \* has overwritten what was written after it read the file
    earned,  \* history: the gate results of the jobs of an item that succeeded
    resets, gates, faults

vars == <<kind, file, lock, loop, export, report, chain, gate, reset, earned,
          resets, gates, faults>>
data == <<kind, export, report, earned>>
others == <<chain, gate, reset, resets, gates>>

Live(l) == loop[l].at \notin {"off", "gone"}
Working(q) == {l \in Loops : Live(l) /\ loop[l].q = q}
RoundTrip(l) == kind[loop[l].q] = "roundtrip"
Export(l) == export[Dir[loop[l].q]]
Export_(l, x) == export' = [export EXCEPT ![Dir[loop[l].q]] = x]

(* A step forgets the copy of the file, unless it says it keeps one.        *)
NoLoop == [at |-> "off", q |-> Second, i |-> 1, doc |-> NoDoc, set |-> NoDoc[1]]
Goto(l, at) == loop' = [loop EXCEPT ![l].at = at, ![l].doc = NoDoc]
Freed(l) == [q \in Queues |-> IF lock[q] = l THEN None ELSE lock[q]]
Leave(l) == /\ loop' = [loop EXCEPT ![l] = [NoLoop EXCEPT !.at = "gone"]]
            /\ lock' = Freed(l)
NoGate == [at |-> "off", dep |-> NoDoc[1], doc |-> NoDoc]
NoReset == [at |-> "off", q |-> First, doc |-> NoDoc, stale |-> FALSE]
Fault == faults < MaxFaults /\ faults' = faults + 1

Init ==
    /\ kind \in Kinds
    /\ file = [q \in Queues |-> [i \in Items |->
          [status |-> IF q = Second /\ i \in Gated THEN "blocked" ELSE "pending",
           passed |-> "absent"]]]
    /\ lock = [q \in Queues |-> None]
    /\ loop = [l \in Loops |-> NoLoop]
    /\ export = [d \in Dirs |-> "absent"]
    /\ report = [q \in Queues |-> [i \in Items |-> "absent"]]
    /\ chain = "wait"
    /\ gate = NoGate
    /\ reset = NoReset
    /\ earned = [q \in Queues |-> [i \in Items |-> {}]]
    /\ resets = 0 /\ gates = 0 /\ faults = 0

-----------------------------------------------------------------------------
(* update_item: read the file, set the fields that are given, rewrite it.   *)
Updated(doc, i, set) ==
    [doc EXCEPT ![i] = [status |-> set.status,
                        passed |-> IF set.passed = "absent" THEN @.passed ELSE set.passed]]
Record(l, status, passed) ==
    loop' = [loop EXCEPT ![l].at = "update", ![l].set = [status |-> status, passed |-> passed]]

UpdateLoad(l) ==
    /\ loop[l].at = "update"
    /\ loop' = [loop EXCEPT ![l].at = "write", ![l].doc = file[loop[l].q]]
    /\ UNCHANGED <<file, lock, data, others, faults>>

(* After its job a round-trip loop frees the lock and sleeps; a dataset     *)
(* loop keeps it.  A failure ends both (--continue-on-failure is off).      *)
UpdateWrite(l) ==
    LET s == loop[l].set.status IN
    /\ loop[l].at = "write"
    /\ file' = [file EXCEPT ![loop[l].q] = Updated(loop[l].doc, loop[l].i, loop[l].set)]
    /\ CASE s = "running" -> Goto(l, "run") /\ UNCHANGED lock
         [] s = "failed" -> Leave(l)
         [] s = "complete" /\ RoundTrip(l) -> Goto(l, "lock") /\ lock' = Freed(l)
         [] s = "complete" /\ ~RoundTrip(l) -> Goto(l, "load") /\ UNCHANGED lock
    /\ UNCHANGED <<data, others, faults>>

-----------------------------------------------------------------------------
(* The loops: process_next under queue_lock.                                *)
Start(l, q) ==
    /\ l \in Hands /\ loop[l].at = "off"
    /\ loop' = [loop EXCEPT ![l].at = "lock", ![l].q = q]
    /\ UNCHANGED <<file, lock, data, others, faults>>

TakeLock(l) ==
    /\ loop[l].at = "lock" /\ lock[loop[l].q] = None
    /\ lock' = [lock EXCEPT ![loop[l].q] = l] /\ Goto(l, "load")
    /\ UNCHANGED <<file, data, others, faults>>

Pending(q) == {i \in Items : file[q][i].status = "pending"}

Idle(l) ==
    /\ loop[l].at = "load" /\ Pending(loop[l].q) = {}
    /\ IF RoundTrip(l) THEN Goto(l, "clean") /\ lock' = Freed(l) ELSE Leave(l)
    /\ UNCHANGED <<file, data, others, faults>>

(* A dataset loop marks the item in the copy it has just read.              *)
Load(l) ==
    LET q == loop[l].q
    IN /\ loop[l].at = "load"
       /\ \E i \in Pending(q) :
             /\ \A j \in Pending(q) : i <= j
             /\ loop' = [loop EXCEPT ![l].at = IF RoundTrip(l) THEN "guard" ELSE "write",
                           ![l].i = i, ![l].doc = IF RoundTrip(l) THEN NoDoc ELSE file[q],
                           ![l].set = [status |-> "running", passed |-> "absent"]]
       /\ UNCHANGED <<file, lock, data, others, faults>>

(* launch_guard: no conversion and no evaluation may be running, of any     *)
(* queue, nor any other process its patterns name.                          *)
Busy(l) == \E k \in Loops \ {l} : RoundTrip(k) /\ loop[k].at \in {"convert", "run"}
GuardStops(l) ==
    /\ loop[l].at = "guard"
    /\ \/ Busy(l) /\ UNCHANGED faults
       \/ Fault
    /\ Leave(l) /\ UNCHANGED <<file, data, others>>
GuardPasses(l) ==
    /\ loop[l].at = "guard" /\ ~Busy(l) /\ Goto(l, "prepare")
    /\ UNCHANGED <<file, lock, data, others, faults>>

(* prepare_av_checkpoint takes a directory with a config.json as it is,     *)
(* even one a conversion has not finished; an exception leaves the item     *)
(* pending.                                                                 *)
Prepare(l) ==
    /\ loop[l].at = "prepare"
    /\ IF Export(l) = "absent" THEN Goto(l, "convert") /\ Export_(l, "partial")
       ELSE Record(l, "running", "absent") /\ UNCHANGED export
    /\ UNCHANGED <<kind, file, lock, report, earned, others, faults>>
Converted(l) ==
    /\ loop[l].at = "convert" /\ Export(l) # "absent"
    /\ Record(l, "running", "absent") /\ Export_(l, "whole")
    /\ UNCHANGED <<kind, file, lock, report, earned, others, faults>>
ConvertFails(l) ==
    /\ loop[l].at = "convert"
    /\ IF Export(l) = "absent" THEN UNCHANGED faults ELSE Fault
    /\ Leave(l) /\ UNCHANGED <<file, data, others>>

(* The job.  Its report is read, or its artifacts are checked, before the   *)
(* item is recorded complete.                                               *)
Results(l) == IF ~RoundTrip(l) THEN {"yes"}
              ELSE IF loop[l].i \in GenerationOnly THEN {"absent"} ELSE {"yes", "no"}
JobSucceeds(l) ==
    LET q == loop[l].q i == loop[l].i IN
    /\ loop[l].at = "run"
    /\ RoundTrip(l) => Export(l) = "whole"
    /\ \E p \in Results(l) :
          /\ report' = [report EXCEPT ![q][i] = p]
          /\ earned' = [earned EXCEPT ![q][i] = @ \cup {p}]
          /\ Record(l, "complete", p)
    /\ UNCHANGED <<kind, file, lock, export, others, faults>>
JobFails(l) ==
    /\ loop[l].at = "run"
    /\ \/ RoundTrip(l) /\ Export(l) # "whole" /\ UNCHANGED faults
       \/ Fault
    /\ Record(l, "failed", IF RoundTrip(l) THEN "absent" ELSE "no")
    /\ UNCHANGED <<file, lock, data, others>>

(* cleanup_prepared_checkpoint, after the lock was given up.                *)
BugAllComplete(doc) == \A i \in Items : doc[i].status # "pending"  \* bug: nothing is pending
AllComplete(doc) == \A i \in Items : doc[i].status = "complete"
CleanLoad(l) ==
    /\ loop[l].at = "clean"
    /\ IF AllComplete(file[loop[l].q])
       THEN /\ loop' = [loop EXCEPT ![l].at = "remove", ![l].doc = file[loop[l].q]]
            /\ UNCHANGED lock
       ELSE Leave(l)
    /\ UNCHANGED <<file, data, others, faults>>
Remove(l) ==
    /\ loop[l].at = "remove" /\ Export_(l, "absent")
    /\ loop' = [loop EXCEPT ![l].at = "cleaned"]
    /\ UNCHANGED <<kind, file, lock, report, earned, others, faults>>
CleanWrite(l) ==
    /\ loop[l].at = "cleaned" /\ Leave(l)
    /\ file' = [file EXCEPT ![loop[l].q] = loop[l].doc]
    /\ UNCHANGED <<data, others, faults>>

(* A kill frees the lock; the item and a half-made export stay.             *)
Kill(l) ==
    /\ Live(l) /\ Fault /\ Leave(l)
    /\ UNCHANGED <<file, data, others>>

LoopStep(l) ==
    \/ TakeLock(l) \/ Idle(l) \/ Load(l) \/ GuardStops(l) \/ GuardPasses(l)
    \/ Prepare(l) \/ Converted(l) \/ ConvertFails(l)
    \/ JobSucceeds(l) \/ JobFails(l) \/ UpdateLoad(l) \/ UpdateWrite(l)
    \/ CleanLoad(l) \/ Remove(l) \/ CleanWrite(l)

-----------------------------------------------------------------------------
(* nano_queue_chain.py: queue_state over the selected items.                *)
TerminalFailures == {"failed", "blocked"}
BugQueueState(doc) ==   \* bug: a failed item may still complete
    IF \E i \in Selected : doc[i].status # "complete" THEN "waiting"
    ELSE IF RequireGatePass /\ \E i \in Selected : doc[i].passed # "yes" THEN "failed"
    ELSE "complete"
QueueState(doc) ==
    IF \E i \in Selected : doc[i].status \in TerminalFailures THEN "failed"
    ELSE IF \E i \in Selected : doc[i].status # "complete" THEN "waiting"
    ELSE IF RequireGatePass /\ \E i \in Selected : doc[i].passed # "yes" THEN "failed"
    ELSE "complete"

Poll ==
    /\ chain = "wait" /\ QueueState(file[First]) # "waiting"
    /\ chain' = IF QueueState(file[First]) = "failed" THEN "gave up" ELSE "launch"
    /\ UNCHANGED <<file, lock, loop, data, gate, reset, resets, gates, faults>>
Launch ==
    /\ chain = "launch" /\ chain' = "running"
    /\ loop' = [loop EXCEPT ![Child].at = "lock", ![Child].q = Second]
    /\ UNCHANGED <<file, lock, data, gate, reset, resets, gates, faults>>
ChildEnds ==
    /\ chain = "running" /\ ~Live(Child) /\ chain' = "ended"
    /\ UNCHANGED <<file, lock, loop, data, gate, reset, resets, gates, faults>>
ChainStep == Poll \/ Launch \/ ChildEnds

(* nano_queue_gate.py, unblock_when_ready: both files are read before the   *)
(* report is looked at, and the copy of the target is written back.         *)
GateLoads ==
    /\ gate.at = "off" /\ gates < MaxGates /\ gates' = gates + 1
    /\ gate' = [gate EXCEPT !.at = "dependency", !.dep = file[First][Dependency]]
    /\ UNCHANGED <<file, lock, loop, data, chain, reset, resets, faults>>
GateLoadsTarget ==
    /\ gate.at = "dependency" /\ gate' = [gate EXCEPT !.at = "target", !.doc = file[Second]]
    /\ UNCHANGED <<file, lock, loop, data, chain, reset, resets, gates, faults>>
BugReady == gate.dep.status = "complete"  \* bug: the gate of the report is not required
Ready == gate.dep.status = "complete" /\ report[First][Dependency] = "yes"
GateDecides ==
    /\ gate.at = "target"
    /\ gate' = NoGate
    /\ \/ /\ Ready
          /\ \E i \in Gated :
                /\ gate.doc[i].status = "blocked"
                /\ file' = [file EXCEPT ![Second] = [gate.doc EXCEPT ![i].status = "pending"]]
       \/ /\ ~Ready \/ \E i \in Gated : gate.doc[i].status # "blocked"
          /\ UNCHANGED file
    /\ UNCHANGED <<lock, loop, data, chain, reset, resets, gates, faults>>
GateStep == GateLoads \/ GateLoadsTarget \/ GateDecides

(* --reset-active, for items left running by a loop that is gone: read,     *)
(* then rewritten without the lock; the round-trip script rewrites nothing  *)
(* when it finds no such item.                                              *)
ResetLoads(q) ==
    /\ reset.at = "off" /\ Working(q) = {} /\ resets < MaxResets /\ resets' = resets + 1
    /\ reset' = [reset EXCEPT !.at = "loaded", !.q = q, !.doc = file[q]]
    /\ UNCHANGED <<file, lock, loop, data, chain, gate, gates, faults>>
ResetWrites ==
    /\ reset.at = "loaded"
    /\ IF kind[reset.q] = "roundtrip" /\ \A i \in Items : reset.doc[i].status # "running"
       THEN UNCHANGED file /\ reset' = [NoReset EXCEPT !.stale = reset.stale]
       ELSE /\ file' = [file EXCEPT ![reset.q] = [i \in Items |->
                  IF reset.doc[i].status = "running" THEN [reset.doc[i] EXCEPT !.status = "pending"]
                  ELSE reset.doc[i]]]
            /\ reset' = [NoReset EXCEPT !.stale = reset.stale \/ file[reset.q] # reset.doc]
    /\ UNCHANGED <<lock, loop, data, chain, gate, resets, gates, faults>>

Next ==
    \/ \E l \in Loops : LoopStep(l) \/ Kill(l) \/ \E q \in Queues : Start(l, q)
    \/ ChainStep \/ GateStep
    \/ (\E q \in Queues : ResetLoads(q)) \/ ResetWrites

Spec == Init /\ [][Next]_vars
FairSpec == Spec /\ (\A l \in Loops : WF_vars(LoopStep(l))) /\ WF_vars(ChainStep)

-----------------------------------------------------------------------------
LoopRecord == [at : {"off", "lock", "load", "guard", "prepare", "convert", "update", "write",
                     "run", "clean", "remove", "cleaned", "gone"},
               q : Queues, i : Items, doc : Doc, set : Item]

TypeOK ==
    /\ kind \in Kinds /\ file \in [Queues -> Doc] /\ lock \in [Queues -> Loops \cup {None}]
    /\ loop \in [Loops -> LoopRecord]
    /\ export \in [Dirs -> {"absent", "partial", "whole"}]
    /\ report \in [Queues -> [Items -> Passed]]
    /\ chain \in {"wait", "gave up", "launch", "running", "ended"}
    /\ gate \in [at : {"off", "dependency", "target"}, dep : Item, doc : Doc]
    /\ reset \in [at : {"off", "loaded"}, q : Queues, doc : Doc, stale : BOOLEAN]
    /\ earned \in [Queues -> [Items -> SUBSET Passed]]
    /\ resets \in 0 .. MaxResets /\ gates \in 0 .. MaxGates /\ faults \in 0 .. MaxFaults

(* Whatever copies the loops, the gate and the resets write back: an item   *)
(* is only recorded complete, and passed, after a job of it succeeded, and  *)
(* passed; the second queue is only started for prerequisites that were,    *)
(* and a blocked item is only unblocked on a dependency that passed.        *)
HandoffIsEarned ==
    /\ \A q \in Queues : \A i \in Items :
          /\ file[q][i].status = "complete" => earned[q][i] # {}
          /\ file[q][i].passed = "yes" => "yes" \in earned[q][i]
    /\ chain \in {"launch", "running", "ended"} => \A i \in Selected :
          earned[First][i] # {} /\ (RequireGatePass => "yes" \in earned[First][i])
    /\ \A i \in Gated : file[Second][i].status # "blocked" => "yes" \in earned[First][Dependency]

(* cleanup_prepared_checkpoint removes an export without the lock, on a copy *)
(* of the queue it has read: it does so only when a job of every item of    *)
(* that queue has succeeded, and while no loop of that queue has an item in *)
(* hand - unless a reset has written an old copy back and made an item      *)
(* pending that was done, so that a job done again loses its export.  It    *)
(* does not look at another queue that exports to the same directory.       *)
InHand == {"guard", "prepare", "convert", "update", "write", "run"}
CleanUpIsLast ==
    \A k \in Loops : loop[k].at = "remove" =>
        /\ \A i \in Items : earned[loop[k].q][i] # {}
        /\ reset.stale \/ \A l \in Loops : loop[l].q = loop[k].q => loop[l].at \notin InHand

(* The chain comes to a verdict, unless the first queue stops for good with *)
(* a selected item that is not finished and no loop to finish it: after a   *)
(* kill, a busy machine or a conversion that failed.                        *)
Stranded == /\ Working(First) = {}
            /\ \E i \in Selected : file[First][i].status \in {"pending", "running"}
ChainAnswers == <>[]Stranded \/ <>(chain # "wait")
=============================================================================
