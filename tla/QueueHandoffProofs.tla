-------------------------- MODULE QueueHandoffProofs --------------------------
(* Theorems about QueueHandoff, for any number of items, loops, gates,      *)
(* resets and faults.                                                       *)
EXTENDS QueueHandoff, TLAPS

(* A set of successes E bears out what a copy of a queue file says.         *)
Backed(s, x, E) == /\ s.status \in {"running", "complete", "failed"}
                   /\ s.status = "complete" => E[x.q][x.i] # {}
                   /\ s.passed = "yes" => "yes" \in E[x.q][x.i]
Unblocked(E) == "yes" \in E[First][Dependency]
DocOK(q, d, E) ==
    /\ \A i \in Items : /\ d[i].status = "complete" => E[q][i] # {}
                        /\ d[i].passed = "yes" => "yes" \in E[q][i]
    /\ q = Second => \A i \in Gated : d[i].status # "blocked" => Unblocked(E)

(* What a loop knows, by the step it has reached.                           *)
LoopOK(n, E) ==
    /\ n.at \in {"write", "remove", "cleaned"} => DocOK(n.q, n.doc, E)
    /\ n.at = "remove" => AllComplete(n.doc)
    /\ n.at \in {"update", "write"} => Backed(n.set, n, E)
    /\ n.at \in {"guard", "prepare", "convert", "update", "write", "run"} =>
          (n.q = Second /\ n.i \in Gated => Unblocked(E))

GateOK(g, E) == g.at = "target" => DocOK(Second, g.doc, E)
ResetOK(r, E) == r.at = "loaded" => DocOK(r.q, r.doc, E)
ReportOK(p, E) == \A q \in Queues : \A i \in Items : p[q][i] = "yes" => "yes" \in E[q][i]
ChainOK(c, E) ==
    c \in {"launch", "running", "ended"} => \A i \in Selected :
        E[First][i] # {} /\ (RequireGatePass => "yes" \in E[First][i])

FilesOK == \A q \in Queues : DocOK(q, file[q], earned)
LoopsOK == \A l \in Loops : LoopOK(loop[l], earned)

IInv == /\ TypeOK /\ FilesOK /\ LoopsOK
        /\ GateOK(gate, earned) /\ ResetOK(reset, earned)
        /\ ReportOK(report, earned) /\ ChainOK(chain, earned)

Larger(E) == \A q \in Queues : \A i \in Items : earned[q][i] \subseteq E[q][i]

LEMMA Constants ==
    /\ First \in Queues /\ Second \in Queues /\ First # Second
    /\ Dependency \in Items /\ Gated \subseteq Items /\ Selected \subseteq Items
    /\ 1 \in Items
    /\ NoDoc \in Doc /\ NoDoc[1] \in Item
    /\ NoLoop \in LoopRecord
  BY QueueAssumption, ItemAssumption
  DEF Queues, Items, NoDoc, Doc, Item, Passed, NoLoop, LoopRecord

(* More successes bear out everything that fewer did.                       *)
LEMMA Grow ==
    ASSUME NEW E, Larger(E)
    PROVE  /\ \A q \in Queues : \A d : DocOK(q, d, earned) => DocOK(q, d, E)
           /\ \A n \in LoopRecord : LoopOK(n, earned) => LoopOK(n, E)
           /\ \A g : GateOK(g, earned) => GateOK(g, E)
           /\ \A r : r.q \in Queues /\ ResetOK(r, earned) => ResetOK(r, E)
           /\ \A p : ReportOK(p, earned) => ReportOK(p, E)
           /\ \A c : ChainOK(c, earned) => ChainOK(c, E)
  <1>1. Unblocked(earned) => Unblocked(E)
    BY Constants DEF Larger, Unblocked
  <1>2. \A q \in Queues : \A d : DocOK(q, d, earned) => DocOK(q, d, E)
    BY <1>1 DEF DocOK, Larger
  <1>3. ASSUME NEW n \in LoopRecord, LoopOK(n, earned) PROVE LoopOK(n, E)
    <2>1. n.q \in Queues /\ n.i \in Items
      BY DEF LoopRecord
    <2>2. Backed(n.set, n, earned) => Backed(n.set, n, E)
      BY <2>1 DEF Backed, Larger
    <2> QED
      BY <1>1, <1>2, <1>3, <2>1, <2>2 DEF LoopOK
  <1>4. \A c : ChainOK(c, earned) => ChainOK(c, E)
    BY Constants DEF ChainOK, Larger
  <1>5. \A p : ReportOK(p, earned) => ReportOK(p, E)
    BY DEF ReportOK, Larger
  <1>6. \A g : GateOK(g, earned) => GateOK(g, E)
    BY <1>2, Constants DEF GateOK
  <1>7. \A r : r.q \in Queues /\ ResetOK(r, earned) => ResetOK(r, E)
    BY <1>2 DEF ResetOK
  <1> QED
    BY <1>2, <1>3, <1>4, <1>5, <1>6, <1>7

LEMMA InitInv == Init => IInv
  <1> SUFFICES ASSUME Init PROVE IInv
    OBVIOUS
  <1>1. TypeOK
    <2>1. file \in [Queues -> Doc]
      BY DEF Init, Doc, Item, Passed
    <2>2. loop \in [Loops -> LoopRecord]
      BY Constants DEF Init
    <2>3. report \in [Queues -> [Items -> Passed]] /\ earned \in [Queues -> [Items -> SUBSET Passed]]
      BY DEF Init, Passed
    <2>4. /\ gate \in [at : {"off", "dependency", "target"}, dep : Item, doc : Doc]
          /\ reset \in [at : {"off", "loaded"}, q : Queues, doc : Doc, stale : BOOLEAN]
      BY Constants DEF Init, NoGate, NoReset
    <2>5. resets \in 0 .. MaxResets /\ gates \in 0 .. MaxGates /\ faults \in 0 .. MaxFaults
      BY BoundAssumption DEF Init
    <2> QED
      BY <2>1, <2>2, <2>3, <2>4, <2>5 DEF Init, TypeOK
  <1>2. FilesOK
    BY Constants DEF Init, FilesOK, DocOK
  <1>3. LoopsOK
    BY DEF Init, LoopsOK, LoopOK, NoLoop
  <1>4. GateOK(gate, earned) /\ ResetOK(reset, earned)
    BY DEF Init, GateOK, ResetOK, NoGate, NoReset
  <1>5. ReportOK(report, earned) /\ ChainOK(chain, earned)
    BY DEF Init, ReportOK, ChainOK
  <1> QED
    BY <1>1, <1>2, <1>3, <1>4, <1>5 DEF IInv

-----------------------------------------------------------------------------
(* One loop moves, and perhaps its queue file, an export, or the result of  *)
(* the job it has run.                                                      *)
LEMMA OwnStep ==
    ASSUME IInv, NEW l \in Loops, NEW n \in LoopRecord,
           loop' = [loop EXCEPT ![l] = n],
           Larger(earned'), LoopOK(n, earned'),
           \/ UNCHANGED file
           \/ \E q \in Queues, d \in Doc :
                 file' = [file EXCEPT ![q] = d] /\ DocOK(q, d, earned'),
           lock' \in [Queues -> Loops \cup {None}],
           export' \in [Dirs -> {"absent", "partial", "whole"}],
           report' \in [Queues -> [Items -> Passed]], ReportOK(report', earned'),
           earned' \in [Queues -> [Items -> SUBSET Passed]],
           UNCHANGED <<kind, others>>, faults' \in 0 .. MaxFaults
    PROVE  IInv'
  <1> USE DEF IInv
  <1>0. UNCHANGED <<kind, chain, gate, reset, resets, gates>>
    BY DEF others
  <1>1. TypeOK'
    <2>1. file' \in [Queues -> Doc]
      BY DEF TypeOK
    <2>2. loop' \in [Loops -> LoopRecord]
      BY DEF TypeOK
    <2> QED
      BY <1>0, <2>1, <2>2 DEF TypeOK
  <1>2. FilesOK'
    <2>1. \A q \in Queues : DocOK(q, file[q], earned')
      BY Grow DEF FilesOK
    <2> QED
      BY <2>1 DEF FilesOK, TypeOK
  <1>3. LoopsOK'
    <2>1. \A k \in Loops : loop[k] \in LoopRecord /\ LoopOK(loop[k], earned)
      BY DEF LoopsOK, TypeOK
    <2>2. \A k \in Loops : LoopOK(loop[k], earned')
      BY <2>1, Grow
    <2> QED
      BY <2>2 DEF LoopsOK, TypeOK
  <1>4. GateOK(gate, earned)' /\ ResetOK(reset, earned)' /\ ChainOK(chain, earned)'
    BY <1>0, Grow DEF TypeOK
  <1> QED
    BY <1>1, <1>2, <1>3, <1>4

(* A loop moves and touches no data.                                        *)
LEMMA QuietStep ==
    ASSUME IInv, NEW l \in Loops, NEW n \in LoopRecord,
           loop' = [loop EXCEPT ![l] = n], LoopOK(n, earned),
           lock' \in [Queues -> Loops \cup {None}],
           UNCHANGED <<file, data, others>>, faults' \in 0 .. MaxFaults
    PROVE  IInv'
  <1>1. UNCHANGED <<kind, export, report, earned>>
    BY DEF data
  <1>2. Larger(earned') /\ LoopOK(n, earned') /\ ReportOK(report', earned')
    BY <1>1 DEF Larger, IInv
  <1>3. /\ export' \in [Dirs -> {"absent", "partial", "whole"}]
        /\ report' \in [Queues -> [Items -> Passed]]
        /\ earned' \in [Queues -> [Items -> SUBSET Passed]]
    BY <1>1 DEF IInv, TypeOK
  <1> QED
    BY <1>1, <1>2, <1>3, OwnStep

LEMMA LoopFacts ==
    ASSUME IInv, NEW l \in Loops
    PROVE  /\ loop[l] \in LoopRecord /\ LoopOK(loop[l], earned)
           /\ loop[l].q \in Queues /\ loop[l].i \in Items
           /\ loop[l].doc \in Doc /\ loop[l].set \in Item
           /\ file[loop[l].q] \in Doc /\ DocOK(loop[l].q, file[loop[l].q], earned)
           /\ lock \in [Queues -> Loops \cup {None}]
           /\ Freed(l) \in [Queues -> Loops \cup {None}]
           /\ [lock EXCEPT ![loop[l].q] = l] \in [Queues -> Loops \cup {None}]
           /\ DOMAIN loop = Loops
           /\ faults \in 0 .. MaxFaults
  <1>1. loop[l] \in LoopRecord /\ file \in [Queues -> Doc]
    BY DEF IInv, TypeOK
  <1>2. loop[l].q \in Queues /\ loop[l].i \in Items /\ loop[l].doc \in Doc /\ loop[l].set \in Item
    BY <1>1 DEF LoopRecord
  <1>3. lock \in [Queues -> Loops \cup {None}] /\ DOMAIN loop = Loops /\ faults \in 0 .. MaxFaults
    BY DEF IInv, TypeOK
  <1>4. Freed(l) \in [Queues -> Loops \cup {None}]
    BY <1>3 DEF Freed
  <1>5. [lock EXCEPT ![loop[l].q] = l] \in [Queues -> Loops \cup {None}]
    BY <1>2, <1>3
  <1> QED
    BY <1>1, <1>2, <1>3, <1>4, <1>5 DEF IInv, FilesOK, LoopsOK

LEMMA FaultBound == ASSUME IInv, Fault PROVE faults' \in 0 .. MaxFaults
  <1>1. MaxFaults \in Nat
    BY BoundAssumption
  <1>2. faults \in 0 .. MaxFaults /\ faults < MaxFaults /\ faults' = faults + 1
    BY DEF IInv, TypeOK, Fault
  <1> QED
    BY <1>1, <1>2

(* A loop that ends knows nothing.                                          *)
LEMMA LeaveStep ==
    ASSUME IInv, NEW l \in Loops, Leave(l), UNCHANGED <<file, data, others>>,
           faults' \in 0 .. MaxFaults
    PROVE  IInv'
  <1> DEFINE n == [NoLoop EXCEPT !.at = "gone"]
  <1>1. n \in LoopRecord /\ n.at = "gone"
    BY Constants DEF NoLoop, LoopRecord
  <1>2. LoopOK(n, earned)
    BY <1>1 DEF LoopOK
  <1>3. loop' = [loop EXCEPT ![l] = n] /\ lock' = Freed(l)
    BY DEF Leave
  <1> QED
    BY <1>1, <1>2, <1>3, LoopFacts, QuietStep

(* A loop that goes on to a step at which it needs no copy.                 *)
LEMMA GotoStep ==
    ASSUME IInv, NEW l \in Loops,
           NEW at \in {"lock", "load", "guard", "prepare", "convert", "run", "clean"},
           at \in {"prepare", "convert", "run"} =>
               loop[l].at \in {"guard", "prepare", "convert", "write"}, at # "guard"
    PROVE  \E n \in LoopRecord :
              /\ [loop EXCEPT ![l].at = at, ![l].doc = NoDoc] = [loop EXCEPT ![l] = n]
              /\ LoopOK(n, earned)
  <1> DEFINE n == [loop[l] EXCEPT !.at = at, !.doc = NoDoc]
  <1>1. n \in LoopRecord /\ n.at = at /\ n.q = loop[l].q /\ n.i = loop[l].i
    BY LoopFacts, Constants DEF LoopRecord
  <1>2. LoopOK(n, earned)
    BY <1>1, LoopFacts DEF LoopOK
  <1>3. [loop EXCEPT ![l].at = at, ![l].doc = NoDoc] = [loop EXCEPT ![l] = n]
    BY LoopFacts
  <1> QED
    BY <1>1, <1>2, <1>3

(* A loop that is about to record something it may record.                  *)
LEMMA RecordStep ==
    ASSUME IInv, NEW l \in Loops, NEW E, Larger(E),
           NEW status \in {"running", "complete", "failed"}, NEW passed \in Passed,
           Record(l, status, passed),
           loop[l].at \in {"prepare", "convert", "run"},
           Backed([status |-> status, passed |-> passed], loop[l], E)
    PROVE  \E n \in LoopRecord : loop' = [loop EXCEPT ![l] = n] /\ LoopOK(n, E)
  <1> DEFINE s == [status |-> status, passed |-> passed]
             n == [loop[l] EXCEPT !.at = "update", !.set = s]
  <1>1. s \in Item
    BY DEF Item
  <1>2. n \in LoopRecord /\ n.at = "update" /\ n.q = loop[l].q /\ n.i = loop[l].i /\ n.set = s
    BY <1>1, LoopFacts DEF LoopRecord
  <1>3. Backed(n.set, n, E)
    BY <1>2 DEF Backed
  <1>4. LoopOK(loop[l], E)
    BY LoopFacts, Grow
  <1>5. LoopOK(n, E)
    BY <1>2, <1>3, <1>4 DEF LoopOK
  <1>6. loop' = [loop EXCEPT ![l] = n]
    BY LoopFacts DEF Record
  <1> QED
    BY <1>2, <1>5, <1>6

LEMMA StartInv == ASSUME IInv, NEW l \in Loops, NEW q \in Queues, Start(l, q) PROVE IInv'
  <1> DEFINE n == [loop[l] EXCEPT !.at = "lock", !.q = q]
  <1>1. n \in LoopRecord /\ n.at = "lock"
    BY LoopFacts DEF LoopRecord
  <1>2. LoopOK(n, earned)
    BY <1>1 DEF LoopOK
  <1>3. loop' = [loop EXCEPT ![l] = n]
    BY LoopFacts DEF Start
  <1> QED
    BY <1>1, <1>2, <1>3, LoopFacts, QuietStep DEF Start

LEMMA TakeLockInv == ASSUME IInv, NEW l \in Loops, TakeLock(l) PROVE IInv'
  <1>1. PICK n \in LoopRecord : loop' = [loop EXCEPT ![l] = n] /\ LoopOK(n, earned)
    BY GotoStep DEF TakeLock, Goto
  <1> QED
    BY <1>1, LoopFacts, QuietStep DEF TakeLock

LEMMA IdleInv == ASSUME IInv, NEW l \in Loops, Idle(l) PROVE IInv'
  <1>0. UNCHANGED <<file, data, others>> /\ faults' \in 0 .. MaxFaults
    BY LoopFacts DEF Idle
  <1>1. CASE RoundTrip(l)
    <2>1. PICK n \in LoopRecord : loop' = [loop EXCEPT ![l] = n] /\ LoopOK(n, earned)
      BY <1>1, GotoStep DEF Idle, Goto
    <2>2. lock' = Freed(l)
      BY <1>1 DEF Idle
    <2> QED
      BY <1>0, <2>1, <2>2, LoopFacts, QuietStep
  <1>2. CASE ~RoundTrip(l)
    BY <1>0, <1>2, LeaveStep DEF Idle
  <1> QED
    BY <1>1, <1>2

LEMMA LoadInv == ASSUME IInv, NEW l \in Loops, Load(l) PROVE IInv'
  <1> DEFINE q == loop[l].q
             set == [status |-> "running", passed |-> "absent"]
             at == IF RoundTrip(l) THEN "guard" ELSE "write"
             doc == IF RoundTrip(l) THEN NoDoc ELSE file[q]
  <1>1. PICK i \in Pending(q) :
           loop' = [loop EXCEPT ![l].at = at, ![l].i = i, ![l].doc = doc, ![l].set = set]
    BY DEF Load
  <1> DEFINE n == [loop[l] EXCEPT !.at = at, !.i = i, !.doc = doc, !.set = set]
  <1>2. i \in Items /\ file[q][i].status = "pending"
    BY DEF Pending
  <1>3. set \in Item /\ doc \in Doc
    BY LoopFacts, Constants DEF Item, Passed
  <1>4. n \in LoopRecord /\ n.at = at /\ n.q = q /\ n.i = i /\ n.doc = doc /\ n.set = set
    BY <1>2, <1>3, LoopFacts DEF LoopRecord
  <1>5. q = Second /\ i \in Gated => Unblocked(earned)
    BY <1>2, LoopFacts DEF DocOK
  <1>6. ~RoundTrip(l) => DocOK(n.q, n.doc, earned)
    BY <1>4, LoopFacts
  <1>7. Backed(n.set, n, earned)
    BY <1>4 DEF Backed
  <1>8. loop' = [loop EXCEPT ![l] = n]
    BY <1>1, LoopFacts
  <1>9. /\ n.at \in {"guard", "write"} /\ (n.at = "write" => ~RoundTrip(l))
        /\ (n.q = Second /\ n.i \in Gated => Unblocked(earned))
    <2>1. n.at \in {"guard", "write"} /\ (n.at = "write" => ~RoundTrip(l))
      BY <1>4
    <2>2. n.q = Second /\ n.i \in Gated => Unblocked(earned)
      BY <1>4, <1>5
    <2> QED
      BY <2>1, <2>2
  <1> HIDE DEF n
  <1>10. LoopOK(n, earned)
    BY <1>6, <1>7, <1>9 DEF LoopOK
  <1> QED
    BY <1>4, <1>8, <1>10, LoopFacts, QuietStep DEF Load

LEMMA GuardInv ==
    ASSUME IInv, NEW l \in Loops, GuardStops(l) \/ GuardPasses(l) PROVE IInv'
  <1>1. CASE GuardStops(l)
    BY <1>1, LeaveStep, FaultBound, LoopFacts DEF GuardStops
  <1>2. CASE GuardPasses(l)
    <2>0. loop[l].at = "guard" /\ loop' = [loop EXCEPT ![l].at = "prepare", ![l].doc = NoDoc]
      BY <1>2 DEF GuardPasses, Goto
    <2>1. \E n \in LoopRecord :
             /\ [loop EXCEPT ![l].at = "prepare", ![l].doc = NoDoc] = [loop EXCEPT ![l] = n]
             /\ LoopOK(n, earned)
      BY <2>0, GotoStep
    <2>2. PICK n \in LoopRecord : loop' = [loop EXCEPT ![l] = n] /\ LoopOK(n, earned)
      BY <2>0, <2>1
    <2> QED
      BY <1>2, <2>2, LoopFacts, QuietStep DEF GuardPasses
  <1> QED
    BY <1>1, <1>2

LEMMA SameEarned == IInv => Larger(earned)
  BY DEF Larger

(* Steps that change the loop and its export, and nothing of the record.    *)
LEMMA ExportStep ==
    ASSUME IInv, NEW l \in Loops, NEW n \in LoopRecord,
           loop' = [loop EXCEPT ![l] = n], LoopOK(n, earned),
           \/ UNCHANGED export
           \/ \E x \in {"absent", "partial", "whole"} : Export_(l, x),
           UNCHANGED <<kind, file, lock, report, earned, others, faults>>
    PROVE  IInv'
  <1>1. export' \in [Dirs -> {"absent", "partial", "whole"}]
    BY DEF Export_, IInv, TypeOK
  <1>2. report' \in [Queues -> [Items -> Passed]] /\ earned' \in [Queues -> [Items -> SUBSET Passed]]
    BY DEF IInv, TypeOK
  <1>3. Larger(earned') /\ LoopOK(n, earned') /\ ReportOK(report', earned')
    BY SameEarned DEF IInv
  <1>4. lock' \in [Queues -> Loops \cup {None}] /\ faults' \in 0 .. MaxFaults
    BY LoopFacts
  <1>5. UNCHANGED <<kind, others>> /\ UNCHANGED file
    OBVIOUS
  <1> QED
    BY <1>1, <1>2, <1>3, <1>4, <1>5, OwnStep

LEMMA RecordRunning ==
    ASSUME IInv, NEW l \in Loops, loop[l].at \in {"prepare", "convert", "run"},
           Record(l, "running", "absent")
    PROVE  \E n \in LoopRecord : loop' = [loop EXCEPT ![l] = n] /\ LoopOK(n, earned)
  <1>1. Backed([status |-> "running", passed |-> "absent"], loop[l], earned)
    BY DEF Backed
  <1>2. "absent" \in Passed
    BY DEF Passed
  <1> QED
    BY <1>1, <1>2, RecordStep, SameEarned

LEMMA PrepareInv == ASSUME IInv, NEW l \in Loops, Prepare(l) PROVE IInv'
  <1>0. /\ loop[l].at = "prepare"
        /\ UNCHANGED <<kind, file, lock, report, earned, others, faults>>
    BY DEF Prepare
  <1>1. CASE Export(l) = "absent"
    <2>1. loop' = [loop EXCEPT ![l].at = "convert", ![l].doc = NoDoc] /\ Export_(l, "partial")
      BY <1>1 DEF Prepare, Goto
    <2>2. \E n \in LoopRecord :
             /\ [loop EXCEPT ![l].at = "convert", ![l].doc = NoDoc] = [loop EXCEPT ![l] = n]
             /\ LoopOK(n, earned)
      BY <1>0, GotoStep
    <2> QED
      BY <1>0, <2>1, <2>2, ExportStep
  <1>2. CASE Export(l) # "absent"
    <2>1. Record(l, "running", "absent") /\ UNCHANGED export
      BY <1>2 DEF Prepare
    <2> QED
      BY <1>0, <2>1, RecordRunning, ExportStep
  <1> QED
    BY <1>1, <1>2

LEMMA ConvertedInv == ASSUME IInv, NEW l \in Loops, Converted(l) PROVE IInv'
  <1>1. /\ loop[l].at = "convert" /\ Record(l, "running", "absent") /\ Export_(l, "whole")
        /\ UNCHANGED <<kind, file, lock, report, earned, others, faults>>
    BY DEF Converted
  <1> QED
    BY <1>1, RecordRunning, ExportStep

LEMMA ConvertFailsInv == ASSUME IInv, NEW l \in Loops, ConvertFails(l) PROVE IInv'
  <1>1. faults' \in 0 .. MaxFaults
    BY FaultBound, LoopFacts DEF ConvertFails
  <1> QED
    BY <1>1, LeaveStep DEF ConvertFails

LEMMA KillInv == ASSUME IInv, NEW l \in Loops, Kill(l) PROVE IInv'
  BY LeaveStep, FaultBound DEF Kill

(* The job of a loop succeeds: its result is earned when it is reported.    *)
LEMMA JobSucceedsInv == ASSUME IInv, NEW l \in Loops, JobSucceeds(l) PROVE IInv'
  <1> DEFINE q == loop[l].q
             i == loop[l].i
  <1>1. PICK p \in Results(l) :
           /\ report' = [report EXCEPT ![q][i] = p]
           /\ earned' = [earned EXCEPT ![q][i] = @ \cup {p}]
           /\ Record(l, "complete", p)
    BY DEF JobSucceeds
  <1>2. /\ loop[l].at = "run"
        /\ UNCHANGED <<kind, file, lock, export, others, faults>>
    BY DEF JobSucceeds
  <1>3. p \in Passed
    BY DEF Results, Passed
  <1>4. q \in Queues /\ i \in Items
    BY LoopFacts
  <1>5. /\ earned \in [Queues -> [Items -> SUBSET Passed]]
        /\ report \in [Queues -> [Items -> Passed]] /\ ReportOK(report, earned)
    BY DEF IInv, TypeOK
  <1>6. /\ earned' \in [Queues -> [Items -> SUBSET Passed]]
        /\ report' \in [Queues -> [Items -> Passed]]
    BY <1>1, <1>3, <1>4, <1>5
  <1>7. Larger(earned') /\ p \in earned'[q][i]
    BY <1>1, <1>4, <1>5 DEF Larger
  <1>8. ReportOK(report', earned')
    BY <1>1, <1>4, <1>5 DEF ReportOK
  <1>9. Backed([status |-> "complete", passed |-> p], loop[l], earned')
    BY <1>7 DEF Backed
  <1>10. PICK n \in LoopRecord : loop' = [loop EXCEPT ![l] = n] /\ LoopOK(n, earned')
    BY <1>1, <1>2, <1>3, <1>7, <1>9, RecordStep
  <1>11. /\ export' \in [Dirs -> {"absent", "partial", "whole"}]
         /\ lock' \in [Queues -> Loops \cup {None}] /\ faults' \in 0 .. MaxFaults
    BY <1>2 DEF IInv, TypeOK
  <1> QED
    BY <1>2, <1>6, <1>7, <1>8, <1>10, <1>11, OwnStep

LEMMA JobFailsInv == ASSUME IInv, NEW l \in Loops, JobFails(l) PROVE IInv'
  <1> DEFINE p == IF RoundTrip(l) THEN "absent" ELSE "no"
  <1>1. /\ loop[l].at = "run" /\ Record(l, "failed", p)
        /\ UNCHANGED <<file, lock, data, others>>
    BY DEF JobFails
  <1>2. faults' \in 0 .. MaxFaults
    BY FaultBound, LoopFacts DEF JobFails
  <1>3. p \in Passed /\ Backed([status |-> "failed", passed |-> p], loop[l], earned)
    BY DEF Passed, Backed
  <1> HIDE DEF p
  <1>4. PICK n \in LoopRecord : loop' = [loop EXCEPT ![l] = n] /\ LoopOK(n, earned)
    BY <1>1, <1>3, SameEarned, RecordStep
  <1> QED
    BY <1>1, <1>2, <1>4, LoopFacts, QuietStep

LEMMA UpdateLoadInv == ASSUME IInv, NEW l \in Loops, UpdateLoad(l) PROVE IInv'
  <1> DEFINE n == [loop[l] EXCEPT !.at = "write", !.doc = file[loop[l].q]]
  <1>1. /\ n \in LoopRecord /\ n.at = "write" /\ n.q = loop[l].q /\ n.i = loop[l].i
        /\ n.set = loop[l].set /\ n.doc = file[loop[l].q]
    BY LoopFacts DEF LoopRecord
  <1>2. loop' = [loop EXCEPT ![l] = n] /\ loop[l].at = "update"
    BY LoopFacts DEF UpdateLoad
  <1> HIDE DEF n
  <1>3. Backed(n.set, n, earned)
    BY <1>1, <1>2, LoopFacts DEF LoopOK, Backed
  <1>4. DocOK(n.q, n.doc, earned) /\ (n.q = Second /\ n.i \in Gated => Unblocked(earned))
    BY <1>1, <1>2, LoopFacts DEF LoopOK
  <1>5. LoopOK(n, earned)
    BY <1>1, <1>3, <1>4 DEF LoopOK
  <1> QED
    BY <1>1, <1>2, <1>5, LoopFacts, QuietStep DEF UpdateLoad

(* Steps that rewrite the queue file of the loop.                           *)
LEMMA FileStep ==
    ASSUME IInv, NEW l \in Loops, NEW n \in LoopRecord, NEW q \in Queues, NEW d \in Doc,
           loop' = [loop EXCEPT ![l] = n], LoopOK(n, earned),
           file' = [file EXCEPT ![q] = d], DocOK(q, d, earned),
           lock' \in [Queues -> Loops \cup {None}],
           UNCHANGED <<data, others, faults>>
    PROVE  IInv'
  <1>1. UNCHANGED <<kind, export, report, earned>>
    BY DEF data
  <1>2. Larger(earned') /\ LoopOK(n, earned') /\ ReportOK(report', earned') /\ DocOK(q, d, earned')
    BY <1>1 DEF Larger, IInv
  <1>3. /\ export' \in [Dirs -> {"absent", "partial", "whole"}]
        /\ report' \in [Queues -> [Items -> Passed]]
        /\ earned' \in [Queues -> [Items -> SUBSET Passed]]
    BY <1>1 DEF IInv, TypeOK
  <1>4. UNCHANGED <<kind, others>> /\ faults' \in 0 .. MaxFaults
    BY <1>1, LoopFacts
  <1> QED
    BY <1>1, <1>2, <1>3, <1>4, OwnStep

LEMMA UpdatedOK ==
    ASSUME IInv, NEW l \in Loops, loop[l].at = "write"
    PROVE  LET d == Updated(loop[l].doc, loop[l].i, loop[l].set)
           IN d \in Doc /\ DocOK(loop[l].q, d, earned)
  <1> DEFINE i == loop[l].i
             c == loop[l].doc
             s == loop[l].set
             r == [status |-> s.status,
                   passed |-> IF s.passed = "absent" THEN c[i].passed ELSE s.passed]
  <1>1. c \in Doc /\ i \in Items /\ s \in Item /\ loop[l].q \in Queues
    BY LoopFacts
  <1>2. c[i] \in Item
    BY <1>1 DEF Doc
  <1>3. r \in Item
    BY <1>1, <1>2 DEF Item
  <1>4. Updated(c, i, s) = [c EXCEPT ![i] = r]
    BY <1>1 DEF Updated, Doc
  <1>5. DocOK(loop[l].q, c, earned) /\ Backed(s, loop[l], earned)
    BY LoopFacts DEF LoopOK
  <1>6. loop[l].q = Second /\ i \in Gated => Unblocked(earned)
    BY LoopFacts DEF LoopOK
  <1>7. /\ r.status = "complete" => earned[loop[l].q][i] # {}
        /\ r.passed = "yes" => "yes" \in earned[loop[l].q][i]
    BY <1>1, <1>5 DEF Backed, DocOK
  <1> HIDE DEF r
  <1>8. [c EXCEPT ![i] = r] \in Doc
    BY <1>1, <1>3 DEF Doc
  <1>9. \A j \in Items : [c EXCEPT ![i] = r][j] = IF j = i THEN r ELSE c[j]
    BY <1>1 DEF Doc
  <1> HIDE DEF c, i, s
  <1>10. DocOK(loop[l].q, [c EXCEPT ![i] = r], earned)
    BY <1>5, <1>6, <1>7, <1>9, Constants DEF DocOK
  <1> QED
    BY <1>4, <1>8, <1>10 DEF c, i, s

LEMMA UpdateWriteInv == ASSUME IInv, NEW l \in Loops, UpdateWrite(l) PROVE IInv'
  <1> DEFINE d == Updated(loop[l].doc, loop[l].i, loop[l].set)
             s == loop[l].set.status
  <1>1. /\ loop[l].at = "write" /\ file' = [file EXCEPT ![loop[l].q] = d]
        /\ UNCHANGED <<data, others, faults>>
    BY DEF UpdateWrite
  <1>2. d \in Doc /\ DocOK(loop[l].q, d, earned)
    BY <1>1, UpdatedOK
  <1> HIDE DEF d
  <1>3. s \in {"running", "complete", "failed"}
    BY <1>1, LoopFacts DEF LoopOK, Backed
  <1>4. CASE s = "failed"
    <2> DEFINE n == [NoLoop EXCEPT !.at = "gone"]
    <2>1. n \in LoopRecord /\ n.at = "gone"
      BY Constants DEF NoLoop, LoopRecord
    <2>2. loop' = [loop EXCEPT ![l] = n] /\ lock' = Freed(l)
      BY <1>4 DEF UpdateWrite, Leave
    <2>3. LoopOK(n, earned)
      BY <2>1 DEF LoopOK
    <2> QED
      BY <1>1, <1>2, <2>1, <2>2, <2>3, LoopFacts, FileStep
  <1>5. CASE s \in {"running", "complete"}
    <2>1. PICK at \in {"run", "lock", "load"} :
             loop' = [loop EXCEPT ![l].at = at, ![l].doc = NoDoc]
      BY <1>5 DEF UpdateWrite, Goto
    <2>2. lock' \in {lock, Freed(l)}
      BY <1>5 DEF UpdateWrite
    <2>3. \E n \in LoopRecord :
             /\ [loop EXCEPT ![l].at = at, ![l].doc = NoDoc] = [loop EXCEPT ![l] = n]
             /\ LoopOK(n, earned)
      <3>1. at \in {"lock", "load", "guard", "prepare", "convert", "run", "clean"} /\ at # "guard"
        OBVIOUS
      <3>2. loop[l].at \in {"guard", "prepare", "convert", "write"}
        BY <1>1
      <3> QED
        BY <3>1, <3>2, GotoStep
    <2>4. PICK n \in LoopRecord : loop' = [loop EXCEPT ![l] = n] /\ LoopOK(n, earned)
      BY <2>1, <2>3
    <2>5. lock' \in [Queues -> Loops \cup {None}] /\ loop[l].q \in Queues
      BY <2>2, LoopFacts
    <2> QED
      BY <1>1, <1>2, <2>4, <2>5, FileStep
  <1> QED
    BY <1>3, <1>4, <1>5

LEMMA CleanLoadInv == ASSUME IInv, NEW l \in Loops, CleanLoad(l) PROVE IInv'
  <1>0. UNCHANGED <<file, data, others>> /\ faults' \in 0 .. MaxFaults
    BY LoopFacts DEF CleanLoad
  <1>1. CASE AllComplete(file[loop[l].q])
    <2> DEFINE n == [loop[l] EXCEPT !.at = "remove", !.doc = file[loop[l].q]]
    <2>1. n \in LoopRecord /\ n.at = "remove" /\ n.q = loop[l].q /\ n.doc = file[loop[l].q]
      BY LoopFacts DEF LoopRecord
    <2>2. loop' = [loop EXCEPT ![l] = n] /\ UNCHANGED lock
      BY <1>1, LoopFacts DEF CleanLoad
    <2> HIDE DEF n
    <2>3. LoopOK(n, earned)
      BY <1>1, <2>1, LoopFacts DEF LoopOK
    <2> QED
      BY <1>0, <2>1, <2>2, <2>3, LoopFacts, QuietStep
  <1>2. CASE ~AllComplete(file[loop[l].q])
    BY <1>0, <1>2, LeaveStep DEF CleanLoad
  <1> QED
    BY <1>1, <1>2

LEMMA RemoveInv == ASSUME IInv, NEW l \in Loops, Remove(l) PROVE IInv'
  <1> DEFINE n == [loop[l] EXCEPT !.at = "cleaned"]
  <1>1. n \in LoopRecord /\ n.at = "cleaned" /\ n.q = loop[l].q /\ n.doc = loop[l].doc
    BY LoopFacts DEF LoopRecord
  <1>2. loop' = [loop EXCEPT ![l] = n] /\ loop[l].at = "remove" /\ Export_(l, "absent")
    BY LoopFacts DEF Remove
  <1> HIDE DEF n
  <1>3. LoopOK(n, earned)
    BY <1>1, <1>2, LoopFacts DEF LoopOK
  <1> QED
    BY <1>1, <1>2, <1>3, ExportStep DEF Remove

LEMMA CleanWriteInv == ASSUME IInv, NEW l \in Loops, CleanWrite(l) PROVE IInv'
  <1> DEFINE n == [NoLoop EXCEPT !.at = "gone"]
  <1>1. n \in LoopRecord /\ n.at = "gone"
    BY Constants DEF NoLoop, LoopRecord
  <1>2. LoopOK(n, earned)
    BY <1>1 DEF LoopOK
  <1>3. loop' = [loop EXCEPT ![l] = n] /\ lock' = Freed(l)
    BY DEF CleanWrite, Leave
  <1>4. /\ loop[l].at = "cleaned" /\ file' = [file EXCEPT ![loop[l].q] = loop[l].doc]
        /\ UNCHANGED <<data, others, faults>>
    BY DEF CleanWrite
  <1>5. DocOK(loop[l].q, loop[l].doc, earned)
    BY <1>4, LoopFacts DEF LoopOK
  <1> HIDE DEF n
  <1> QED
    BY <1>1, <1>2, <1>3, <1>4, <1>5, LoopFacts, FileStep

-----------------------------------------------------------------------------
(* The chain, the gate and the resets: no loop moves, but for the child.    *)
LEMMA Rest ==
    ASSUME IInv, UNCHANGED data,
           TypeOK', FilesOK', LoopsOK',
           GateOK(gate', earned), ResetOK(reset', earned), ChainOK(chain', earned)
    PROVE  IInv'
  <1>1. UNCHANGED <<report, earned>>
    BY DEF data
  <1> QED
    BY <1>1 DEF IInv

LEMMA PollInv == ASSUME IInv, Poll PROVE IInv'
  <1>1. QueueState(file[First]) = "complete" => ChainOK("launch", earned)
    BY Constants DEF QueueState, IInv, FilesOK, DocOK, ChainOK, TerminalFailures
  <1>2. QueueState(file[First]) \in {"failed", "waiting", "complete"}
    BY DEF QueueState
  <1>3. ChainOK(chain', earned)
    BY <1>1, <1>2 DEF Poll, ChainOK
  <1>4. TypeOK'
    BY DEF Poll, data, IInv, TypeOK
  <1> QED
    BY <1>3, <1>4, Rest DEF Poll, data, IInv, FilesOK, LoopsOK

LEMMA LaunchInv == ASSUME IInv, Launch PROVE IInv'
  <1> DEFINE n == [loop[Child] EXCEPT !.at = "lock", !.q = Second]
  <1>0. Child \in Loops
    BY DEF Loops
  <1>1. n \in LoopRecord /\ n.at = "lock"
    BY <1>0, LoopFacts, Constants DEF LoopRecord
  <1>2. loop' = [loop EXCEPT ![Child] = n]
    BY <1>0, LoopFacts DEF Launch
  <1> HIDE DEF n
  <1>3. LoopsOK'
    BY <1>1, <1>2 DEF LoopOK, LoopsOK, IInv, TypeOK, Launch, data
  <1>4. TypeOK'
    <2>1. loop' \in [Loops -> LoopRecord]
      BY <1>1, <1>2 DEF IInv, TypeOK
    <2> QED
      BY <2>1 DEF Launch, data, IInv, TypeOK
  <1>5. ChainOK(chain', earned)
    BY DEF Launch, IInv, ChainOK
  <1> QED
    BY <1>3, <1>4, <1>5, Rest DEF Launch, data, IInv, FilesOK

LEMMA ChildEndsInv == ASSUME IInv, ChildEnds PROVE IInv'
  <1>1. TypeOK'
    BY DEF ChildEnds, data, IInv, TypeOK
  <1>2. ChainOK(chain', earned)
    BY DEF ChildEnds, IInv, ChainOK
  <1> QED
    BY <1>1, <1>2, Rest DEF ChildEnds, data, IInv, FilesOK, LoopsOK

LEMMA GateInv == ASSUME IInv, GateStep PROVE IInv'
  <1>0. /\ file \in [Queues -> Doc] /\ gate.doc \in Doc
        /\ DocOK(Second, file[Second], earned) /\ Second \in Queues
        /\ file[First][Dependency] \in Item /\ file[Second] \in Doc
    <2>1. file \in [Queues -> Doc] /\ gate.doc \in Doc
      BY DEF IInv, TypeOK
    <2>2. file[First][Dependency] \in Item /\ file[Second] \in Doc
      BY <2>1, Constants DEF Doc
    <2> QED
      BY <2>1, <2>2, Constants DEF IInv, FilesOK
  <1>1. CASE GateLoads
    <2> DEFINE g == [gate EXCEPT !.at = "dependency", !.dep = file[First][Dependency]]
    <2>1. g \in [at : {"off", "dependency", "target"}, dep : Item, doc : Doc] /\ g.at = "dependency"
      BY <1>0 DEF IInv, TypeOK
    <2>2. gates' \in 0 .. MaxGates
      <3>1. MaxGates \in Nat
        BY BoundAssumption
      <3>2. gates \in 0 .. MaxGates /\ gates < MaxGates /\ gates' = gates + 1
        BY <1>1 DEF GateLoads, IInv, TypeOK
      <3> QED
        BY <3>1, <3>2
    <2>3. gate' = g
      BY <1>1 DEF GateLoads
    <2> HIDE DEF g
    <2>4. TypeOK' /\ GateOK(gate', earned)
      BY <1>1, <2>1, <2>2, <2>3 DEF GateLoads, data, IInv, TypeOK, GateOK
    <2> QED
      BY <1>1, <2>4, Rest DEF GateLoads, data, IInv, FilesOK, LoopsOK
  <1>2. CASE GateLoadsTarget
    <2> DEFINE g == [gate EXCEPT !.at = "target", !.doc = file[Second]]
    <2>1. g \in [at : {"off", "dependency", "target"}, dep : Item, doc : Doc] /\ g.doc = file[Second]
      BY <1>0 DEF IInv, TypeOK
    <2>2. gate' = g
      BY <1>2 DEF GateLoadsTarget
    <2> HIDE DEF g
    <2>3. TypeOK' /\ GateOK(gate', earned)
      BY <1>0, <1>2, <2>1, <2>2 DEF GateLoadsTarget, data, IInv, TypeOK, GateOK
    <2> QED
      BY <1>2, <2>3, Rest DEF GateLoadsTarget, data, IInv, FilesOK, LoopsOK
  <1>3. CASE GateDecides
    <2>1. GateOK(gate', earned) /\ gate' \in [at : {"off", "dependency", "target"}, dep : Item, doc : Doc]
      BY <1>3, Constants DEF GateDecides, GateOK, NoGate
    <2>2. \/ UNCHANGED file
          \/ \E d \in Doc : file' = [file EXCEPT ![Second] = d] /\ DocOK(Second, d, earned)
      <3>1. CASE UNCHANGED file
        BY <3>1
      <3>2. CASE Ready /\ file' # file
        <4>1. PICK i \in Gated : file' = [file EXCEPT ![Second] = [gate.doc EXCEPT ![i].status = "pending"]]
          BY <1>3, <3>2 DEF GateDecides
        <4> DEFINE r == [gate.doc[i] EXCEPT !.status = "pending"]
                   d == [gate.doc EXCEPT ![i] = r]
        <4>2. i \in Items /\ gate.doc[i] \in Item
          BY <1>0, Constants DEF Doc
        <4>3. r \in Item /\ r.status = "pending" /\ r.passed = gate.doc[i].passed
          BY <4>2 DEF Item
        <4>4. file' = [file EXCEPT ![Second] = d]
          BY <1>0, <4>1, <4>2 DEF Doc
        <4> HIDE DEF r
        <4>5. d \in Doc /\ \A j \in Items : d[j] = IF j = i THEN r ELSE gate.doc[j]
          BY <1>0, <4>2, <4>3 DEF Doc
        <4>6. DocOK(Second, gate.doc, earned)
          BY <1>3 DEF GateDecides, IInv, GateOK
        <4>7. Unblocked(earned)
          BY <3>2, Constants DEF Ready, IInv, ReportOK, Unblocked
        <4> HIDE DEF d
        <4>8. DocOK(Second, d, earned)
          BY <4>2, <4>3, <4>5, <4>6, <4>7, Constants DEF DocOK
        <4> QED
          BY <4>4, <4>5, <4>8
      <3> QED
        BY <1>3, <3>1, <3>2 DEF GateDecides
    <2>3. FilesOK'
      BY <1>0, <1>3, <2>2 DEF FilesOK, IInv, GateDecides, data
    <2>4. TypeOK'
      <3>1. file' \in [Queues -> Doc]
        BY <1>0, <2>2
      <3> QED
        BY <1>3, <2>1, <3>1 DEF GateDecides, data, IInv, TypeOK
    <2> QED
      BY <1>3, <2>1, <2>3, <2>4, Rest DEF GateDecides, data, IInv, LoopsOK
  <1> QED
    BY <1>1, <1>2, <1>3 DEF GateStep

LEMMA ResetInv ==
    ASSUME IInv, (\E q \in Queues : ResetLoads(q)) \/ ResetWrites PROVE IInv'
  <1>0. file \in [Queues -> Doc] /\ reset.q \in Queues /\ reset.doc \in Doc
    BY DEF IInv, TypeOK
  <1>1. CASE \E q \in Queues : ResetLoads(q)
    <2>1. PICK q \in Queues : ResetLoads(q)
      BY <1>1
    <2>2. resets' \in 0 .. MaxResets
      <3>1. MaxResets \in Nat
        BY BoundAssumption
      <3>2. resets \in 0 .. MaxResets /\ resets < MaxResets /\ resets' = resets + 1
        BY <2>1 DEF ResetLoads, IInv, TypeOK
      <3> QED
        BY <3>1, <3>2
    <2> DEFINE r == [reset EXCEPT !.at = "loaded", !.q = q, !.doc = file[q]]
    <2>a. /\ r \in [at : {"off", "loaded"}, q : Queues, doc : Doc, stale : BOOLEAN]
          /\ r.q = q /\ r.doc = file[q]
      BY <1>0 DEF IInv, TypeOK
    <2>b. reset' = r
      BY <2>1 DEF ResetLoads
    <2> HIDE DEF r
    <2>3. /\ reset' \in [at : {"off", "loaded"}, q : Queues, doc : Doc, stale : BOOLEAN]
          /\ ResetOK(reset', earned)
      BY <2>a, <2>b DEF ResetOK, IInv, FilesOK
    <2>4. TypeOK'
      BY <2>1, <2>2, <2>3 DEF ResetLoads, data, IInv, TypeOK
    <2> QED
      BY <2>1, <2>3, <2>4, Rest DEF ResetLoads, data, IInv, FilesOK, LoopsOK
  <1>2. CASE ResetWrites
    <2> DEFINE d == [i \in Items |->
               IF reset.doc[i].status = "running" THEN [reset.doc[i] EXCEPT !.status = "pending"]
               ELSE reset.doc[i]]
    <2>1. DocOK(reset.q, reset.doc, earned)
      BY <1>2 DEF ResetWrites, IInv, ResetOK
    <2>2. \A i \in Items : reset.doc[i] \in Item
      BY <1>0 DEF Doc
    <2>3. \A i \in Items :
            /\ d[i] \in Item /\ d[i].passed = reset.doc[i].passed
            /\ \/ d[i].status = reset.doc[i].status
               \/ reset.doc[i].status = "running" /\ d[i].status = "pending"
      BY <2>2 DEF Item
    <2>4. d \in Doc
      BY <2>3 DEF Doc
    <2>5. UNCHANGED file \/ file' = [file EXCEPT ![reset.q] = d]
      BY <1>2 DEF ResetWrites
    <2> HIDE DEF d
    <2>6. DocOK(reset.q, d, earned)
      <3>1. \A i \in Items : d[i].status = "complete" => reset.doc[i].status = "complete"
        BY <2>3
      <3>2. \A i \in Items : d[i].passed = "yes" => reset.doc[i].passed = "yes"
        BY <2>3
      <3>3. Gated \subseteq Items
        BY Constants
      <3>4. \A i \in Items : d[i].status # "blocked" => reset.doc[i].status # "blocked"
        BY <2>3
      <3>5. reset.q = Second => \A i \in Gated : d[i].status # "blocked" => Unblocked(earned)
        BY <2>1, <3>3, <3>4 DEF DocOK
      <3> QED
        BY <2>1, <3>1, <3>2, <3>5 DEF DocOK
    <2>7. FilesOK'
      BY <1>0, <1>2, <2>4, <2>5, <2>6 DEF FilesOK, IInv, ResetWrites, data
    <2>8. /\ reset' \in [at : {"off", "loaded"}, q : Queues, doc : Doc, stale : BOOLEAN]
          /\ ResetOK(reset', earned)
      <3>1. PICK b \in BOOLEAN : reset' = [NoReset EXCEPT !.stale = b]
        BY <1>2 DEF ResetWrites, IInv, TypeOK
      <3>2. /\ [NoReset EXCEPT !.stale = b] \in
                   [at : {"off", "loaded"}, q : Queues, doc : Doc, stale : BOOLEAN]
            /\ [NoReset EXCEPT !.stale = b].at = "off"
        BY Constants DEF NoReset
      <3> QED
        BY <3>1, <3>2 DEF ResetOK
    <2>9. TypeOK'
      <3>1. file' \in [Queues -> Doc]
        BY <1>0, <2>4, <2>5
      <3> QED
        BY <1>2, <2>8, <3>1 DEF ResetWrites, data, IInv, TypeOK
    <2> QED
      BY <1>2, <2>7, <2>8, <2>9, Rest DEF ResetWrites, data, IInv, LoopsOK
  <1> QED
    BY <1>1, <1>2

LEMMA StepInv == ASSUME IInv, [Next]_vars PROVE IInv'
  <1>1. ASSUME NEW l \in Loops, LoopStep(l) PROVE IInv'
    BY <1>1, TakeLockInv, IdleInv, LoadInv, GuardInv, PrepareInv, ConvertedInv, ConvertFailsInv,
       JobSucceedsInv, JobFailsInv, UpdateLoadInv, UpdateWriteInv, CleanLoadInv, RemoveInv,
       CleanWriteInv DEF LoopStep
  <1>2. ASSUME NEW l \in Loops, Kill(l) PROVE IInv'
    BY <1>2, KillInv
  <1>3. ASSUME NEW l \in Loops, NEW q \in Queues, Start(l, q) PROVE IInv'
    BY <1>3, StartInv
  <1>4. CASE ChainStep
    BY <1>4, PollInv, LaunchInv, ChildEndsInv DEF ChainStep
  <1>5. CASE GateStep
    BY <1>5, GateInv
  <1>6. CASE (\E q \in Queues : ResetLoads(q)) \/ ResetWrites
    BY <1>6, ResetInv
  <1>7. CASE UNCHANGED vars
    BY <1>7 DEF vars, IInv, TypeOK, FilesOK, LoopsOK
  <1> QED
    BY <1>1, <1>2, <1>3, <1>4, <1>5, <1>6, <1>7 DEF Next

-----------------------------------------------------------------------------
(* In every reachable state each copy of a queue file, in whatever process, *)
(* only claims successes that happened (update_item, unblock_when_ready and *)
(* reset_active_items write such copies back).                              *)
THEOREM CopiesAreBacked == Spec => []IInv
  <1>1. IInv /\ [Next]_vars => IInv'
    BY StepInv
  <1> QED
    BY InitInv, <1>1, PTL DEF Spec

(* Completed items, the start of the second queue and unblocked items are   *)
(* earned, for any number of loops, gates, resets and kills.                *)
THEOREM HandoffsAreEarned == Spec => []HandoffIsEarned
  <1>1. IInv => HandoffIsEarned
    BY Constants DEF IInv, FilesOK, DocOK, ChainOK, Unblocked, HandoffIsEarned
  <1> QED
    BY CopiesAreBacked, <1>1, PTL

-----------------------------------------------------------------------------
(* The clean up of a round-trip queue.  A loop that works on an item holds  *)
(* the lock of its queue, so nobody else finishes items of it meanwhile.    *)
Held == {"load", "guard", "prepare", "convert", "update", "write", "run"}
Exclusive == \A l \in Loops : loop[l].at \in Held => lock[loop[l].q] = l

(* Where d is written over f, or was read before it: an item that has the   *)
(* status s in f has it in d.                                               *)
Keeps(f, d, s, j) == f[j].status = s => d[j].status = s
Settled(f, d, j) == Keeps(f, d, "complete", j) /\ Keeps(f, d, "blocked", j)

(* What a loop relies on in the file f of its queue: its own item is not    *)
(* finished; the copy it writes back undoes no success and no unblocking    *)
(* but the gate's; and the queue whose export it removes stays complete.    *)
LoopFresh(n, f) ==
    /\ n.at \in InHand => f[n.i].status \notin {"complete", "blocked"}
    /\ n.at = "write" => \A j \in Items \ {n.i} : Settled(f, n.doc, j)
    /\ n.at \in {"remove", "cleaned"} => AllComplete(f) /\ AllComplete(n.doc)
GateFresh(g, f) == g.at = "target" => \A j \in Items : Settled(g.doc, f, j)

Fresh == /\ \A l \in Loops : LoopFresh(loop[l], file[loop[l].q])
         /\ GateFresh(gate, file[Second])
FInv == Exclusive /\ (reset.stale \/ Fresh)

LEMMA InitFresh == Init => FInv
  <1> SUFFICES ASSUME Init PROVE FInv
    OBVIOUS
  <1>1. \A l \in Loops : loop[l].at = "off"
    BY DEF Init, NoLoop
  <1>2. gate.at = "off"
    BY DEF Init, NoGate
  <1> QED
    BY <1>1, <1>2 DEF FInv, Exclusive, Fresh, LoopFresh, GateFresh,
                      Held, InHand

(* The lock changes hands through None only.                                *)
LEMMA LockStep ==
    ASSUME IInv, Exclusive, NEW l \in Loops, NEW n \in LoopRecord,
           loop' = [loop EXCEPT ![l] = n],
           \/ lock' = lock
           \/ lock' = Freed(l)
           \/ lock[n.q] = None /\ lock' = [lock EXCEPT ![n.q] = l],
           n.at \in Held => lock'[n.q] = l
    PROVE  Exclusive'
  <1>0. None \notin Loops /\ n.q \in Queues
    BY LoopAssumption DEF LoopRecord
  <1> SUFFICES ASSUME NEW k \in Loops, loop'[k].at \in Held PROVE lock'[loop'[k].q] = k
    BY DEF Exclusive
  <1>1. CASE k = l
    BY <1>1, LoopFacts
  <1>2. CASE k # l
    <2>1. loop'[k] = loop[k] /\ loop[k].q \in Queues
      BY <1>2, LoopFacts
    <2>2. lock[loop[k].q] = k
      BY <2>1 DEF Exclusive
    <2>3. Freed(l)[loop[k].q] = k
      BY <1>2, <2>1, <2>2 DEF Freed
    <2>4. lock[n.q] = None => [lock EXCEPT ![n.q] = l][loop[k].q] = k
      BY <1>0, <2>1, <2>2, LoopFacts
    <2> QED
      BY <2>1, <2>2, <2>3, <2>4
  <1> QED
    BY <1>1, <1>2

(* A loop moves.                                                            *)
LEMMA MoveFresh ==
    ASSUME IInv, Fresh, NEW l \in Loops, NEW n \in LoopRecord,
           loop' = [loop EXCEPT ![l] = n], UNCHANGED <<file, gate>>,
           LoopFresh(n, file[n.q])
    PROVE  Fresh'
  <1>1. ASSUME NEW k \in Loops PROVE LoopFresh(loop[k], file[loop[k].q])'
    BY <1>1, LoopFacts DEF Fresh
  <1>2. GateFresh(gate, file[Second])'
    BY DEF Fresh
  <1> QED
    BY <1>1, <1>2 DEF Fresh

LEMMA MoveStep ==
    ASSUME IInv, FInv, NEW l \in Loops, NEW n \in LoopRecord,
           loop' = [loop EXCEPT ![l] = n], UNCHANGED <<file, gate, reset>>,
           \/ lock' = lock
           \/ lock' = Freed(l)
           \/ lock[n.q] = None /\ lock' = [lock EXCEPT ![n.q] = l],
           n.at \in Held => lock'[n.q] = l,
           Fresh => LoopFresh(n, file[n.q])
    PROVE  FInv'
  <1>1. Exclusive'
    BY LockStep DEF FInv
  <1>2. Fresh => Fresh'
    <2> SUFFICES ASSUME Fresh PROVE Fresh'
      OBVIOUS
    <2>1. LoopFresh(n, file[n.q])
      OBVIOUS
    <2> QED
      BY <2>1, MoveFresh
  <1> QED
    BY <1>1, <1>2 DEF FInv

LEMMA LeaveFresh ==
    ASSUME IInv, FInv, NEW l \in Loops, Leave(l), UNCHANGED <<file, gate, reset>>
    PROVE  FInv'
  <1> DEFINE n == [NoLoop EXCEPT !.at = "gone"]
  <1>1. n \in LoopRecord /\ n.at = "gone"
    BY Constants DEF NoLoop, LoopRecord
  <1>2. loop' = [loop EXCEPT ![l] = n] /\ lock' = Freed(l)
    BY DEF Leave
  <1> HIDE DEF n
  <1>3. n.at \notin Held /\ LoopFresh(n, file[n.q])
    BY <1>1 DEF LoopFresh, Held, InHand
  <1> QED
    BY <1>1, <1>2, <1>3, MoveStep

(* A loop goes on without a copy of the file.                               *)
LEMMA GotoFresh ==
    ASSUME IInv, FInv, NEW l \in Loops,
           NEW at \in {"lock", "load", "prepare", "convert", "clean"},
           Goto(l, at), UNCHANGED <<file, gate, reset>>,
           \/ lock' = lock
           \/ lock' = Freed(l)
           \/ lock[loop[l].q] = None /\ lock' = [lock EXCEPT ![loop[l].q] = l],
           at \in Held => lock'[loop[l].q] = l,
           at \in {"prepare", "convert"} => loop[l].at \in InHand
    PROVE  FInv'
  <1> DEFINE n == [loop[l] EXCEPT !.at = at, !.doc = NoDoc]
  <1>1. n \in LoopRecord /\ n.at = at /\ n.q = loop[l].q /\ n.i = loop[l].i
    BY LoopFacts, Constants DEF LoopRecord
  <1>2. loop' = [loop EXCEPT ![l] = n]
    BY LoopFacts DEF Goto
  <1> HIDE DEF n
  <1>3. ASSUME Fresh PROVE LoopFresh(n, file[n.q])
    <2>1. LoopFresh(loop[l], file[loop[l].q])
      BY <1>3 DEF Fresh
    <2> QED
      BY <1>1, <2>1 DEF LoopFresh, InHand
  <1>5. /\ \/ lock' = lock
           \/ lock' = Freed(l)
           \/ lock[n.q] = None /\ lock' = [lock EXCEPT ![n.q] = l]
        /\ n.at \in Held => lock'[n.q] = l
    BY <1>1
  <1> QED
    BY <1>1, <1>2, <1>3, <1>5, MoveStep

(* A loop is about to record something about its item.                      *)
LEMMA RecordFresh ==
    ASSUME IInv, FInv, NEW l \in Loops,
           NEW status \in {"running", "complete", "failed"}, NEW passed \in Passed,
           Record(l, status, passed), loop[l].at \in {"prepare", "convert", "run"},
           UNCHANGED <<file, gate, reset, lock>>
    PROVE  FInv'
  <1> DEFINE s == [status |-> status, passed |-> passed]
             n == [loop[l] EXCEPT !.at = "update", !.set = s]
  <1>1. s \in Item
    BY DEF Item
  <1>2. n \in LoopRecord /\ n.at = "update" /\ n.q = loop[l].q /\ n.i = loop[l].i
    BY <1>1, LoopFacts DEF LoopRecord
  <1>3. loop' = [loop EXCEPT ![l] = n]
    BY LoopFacts DEF Record
  <1> HIDE DEF n
  <1>4. ASSUME Fresh PROVE LoopFresh(n, file[n.q])
    <2>1. LoopFresh(loop[l], file[loop[l].q])
      BY <1>4 DEF Fresh
    <2> QED
      BY <1>2, <2>1 DEF LoopFresh, InHand
  <1>5. lock'[n.q] = l
    BY <1>2 DEF FInv, Exclusive, Held
  <1> QED
    BY <1>2, <1>3, <1>4, <1>5, MoveStep

LEMMA StartFresh == ASSUME IInv, FInv, NEW l \in Loops, NEW q \in Queues, Start(l, q) PROVE FInv'
  <1> DEFINE n == [loop[l] EXCEPT !.at = "lock", !.q = q]
  <1>1. n \in LoopRecord /\ n.at = "lock"
    BY LoopFacts DEF LoopRecord
  <1>2. loop' = [loop EXCEPT ![l] = n] /\ UNCHANGED <<file, gate, reset, lock>>
    BY LoopFacts DEF Start, data, others
  <1> HIDE DEF n
  <1>3. n.at \notin Held /\ LoopFresh(n, file[n.q])
    BY <1>1 DEF LoopFresh, Held, InHand
  <1> QED
    BY <1>1, <1>2, <1>3, MoveStep

LEMMA TakeLockFresh == ASSUME IInv, FInv, NEW l \in Loops, TakeLock(l) PROVE FInv'
  <1>1. /\ Goto(l, "load") /\ lock[loop[l].q] = None /\ lock' = [lock EXCEPT ![loop[l].q] = l]
        /\ UNCHANGED <<file, gate, reset>>
    BY DEF TakeLock, data, others
  <1>2. lock'[loop[l].q] = l
    BY <1>1, LoopFacts
  <1> QED
    BY <1>1, <1>2, GotoFresh

LEMMA IdleFresh == ASSUME IInv, FInv, NEW l \in Loops, Idle(l) PROVE FInv'
  <1>1. UNCHANGED <<file, gate, reset>>
    BY DEF Idle, data, others
  <1>2. CASE RoundTrip(l)
    <2>1. Goto(l, "clean") /\ lock' = Freed(l) /\ "clean" \notin Held
      BY <1>2 DEF Idle, Held
    <2> QED
      BY <1>1, <2>1, GotoFresh
  <1>3. CASE ~RoundTrip(l)
    BY <1>1, <1>3, LeaveFresh DEF Idle
  <1> QED
    BY <1>2, <1>3

(* The item a loop takes is pending, in the file it has just read.          *)
LEMMA LoadFresh == ASSUME IInv, FInv, NEW l \in Loops, Load(l) PROVE FInv'
  <1> DEFINE q == loop[l].q
             set == [status |-> "running", passed |-> "absent"]
             at == IF RoundTrip(l) THEN "guard" ELSE "write"
             doc == IF RoundTrip(l) THEN NoDoc ELSE file[q]
  <1>1. PICK i \in Pending(q) :
           loop' = [loop EXCEPT ![l].at = at, ![l].i = i, ![l].doc = doc, ![l].set = set]
    BY DEF Load
  <1> DEFINE n == [loop[l] EXCEPT !.at = at, !.i = i, !.doc = doc, !.set = set]
  <1>2. i \in Items /\ file[q][i].status = "pending"
    BY DEF Pending
  <1>3. set \in Item /\ doc \in Doc
    BY LoopFacts, Constants DEF Item, Passed
  <1>4. n \in LoopRecord /\ n.at = at /\ n.q = q /\ n.i = i /\ n.doc = doc
    BY <1>2, <1>3, LoopFacts DEF LoopRecord
  <1>5. loop' = [loop EXCEPT ![l] = n]
    BY <1>1, LoopFacts
  <1>6. UNCHANGED <<file, gate, reset, lock>> /\ loop[l].at = "load"
    BY DEF Load, data, others
  <1>7. n.at \in {"guard", "write"} /\ (n.at = "write" => n.doc = file[n.q] /\ ~RoundTrip(l))
    BY <1>4
  <1> HIDE DEF n
  <1>8. LoopFresh(n, file[n.q])
    BY <1>2, <1>4, <1>7 DEF LoopFresh, Settled, Keeps, RoundTrip
  <1>9. lock'[n.q] = l
    BY <1>4, <1>6 DEF FInv, Exclusive, Held
  <1> QED
    BY <1>4, <1>5, <1>6, <1>8, <1>9, MoveStep

LEMMA GuardFresh ==
    ASSUME IInv, FInv, NEW l \in Loops, GuardStops(l) \/ GuardPasses(l) PROVE FInv'
  <1>1. CASE GuardStops(l)
    BY <1>1, LeaveFresh DEF GuardStops, data, others
  <1>2. CASE GuardPasses(l)
    <2>1. /\ Goto(l, "prepare") /\ loop[l].at = "guard"
          /\ UNCHANGED <<file, gate, reset, lock>>
      BY <1>2 DEF GuardPasses, data, others
    <2>2. loop[l].at \in InHand /\ lock'[loop[l].q] = l
      BY <2>1 DEF InHand, FInv, Exclusive, Held
    <2> QED
      BY <2>1, <2>2, GotoFresh
  <1> QED
    BY <1>1, <1>2

LEMMA PrepareFresh == ASSUME IInv, FInv, NEW l \in Loops, Prepare(l) PROVE FInv'
  <1>0. loop[l].at = "prepare" /\ UNCHANGED <<file, lock, gate, reset>>
    BY DEF Prepare, others
  <1>1. CASE Export(l) = "absent"
    <2>1. Goto(l, "convert") /\ Export_(l, "partial")
      BY <1>1 DEF Prepare
    <2>2. loop[l].at \in InHand /\ lock'[loop[l].q] = l
      BY <1>0 DEF InHand, FInv, Exclusive, Held
    <2> QED
      BY <1>0, <2>1, <2>2, GotoFresh
  <1>2. CASE Export(l) # "absent"
    <2>1. Record(l, "running", "absent") /\ UNCHANGED export
      BY <1>2 DEF Prepare
    <2>2. export'[Dir[loop[l].q]] # "absent" /\ "absent" \in Passed
      BY <1>2, <2>1 DEF Export, Passed
    <2> QED
      BY <1>0, <2>1, <2>2, RecordFresh
  <1> QED
    BY <1>1, <1>2

LEMMA ConvertedFresh == ASSUME IInv, FInv, NEW l \in Loops, Converted(l) PROVE FInv'
  <1>1. /\ loop[l].at = "convert" /\ Record(l, "running", "absent") /\ Export_(l, "whole")
        /\ UNCHANGED <<file, lock, gate, reset>>
    BY DEF Converted, others
  <1>2. "absent" \in Passed
    BY DEF Passed
  <1> QED
    BY <1>1, <1>2, RecordFresh

LEMMA JobFresh == ASSUME IInv, FInv, NEW l \in Loops, JobSucceeds(l) \/ JobFails(l) PROVE FInv'
  <1>1. /\ loop[l].at = "run"
        /\ UNCHANGED <<file, lock, gate, reset>>
    BY DEF JobSucceeds, JobFails, data, others
  <1>2. \E p \in Passed : Record(l, "complete", p) \/ Record(l, "failed", p)
    <2>1. CASE JobSucceeds(l)
      BY <2>1 DEF JobSucceeds, Results, Passed
    <2>2. CASE JobFails(l)
      BY <2>2 DEF JobFails, Passed
    <2> QED
      BY <2>1, <2>2
  <1> QED
    BY <1>1, <1>2, RecordFresh

LEMMA UpdateLoadFresh == ASSUME IInv, FInv, NEW l \in Loops, UpdateLoad(l) PROVE FInv'
  <1> DEFINE n == [loop[l] EXCEPT !.at = "write", !.doc = file[loop[l].q]]
  <1>1. /\ n \in LoopRecord /\ n.at = "write" /\ n.q = loop[l].q /\ n.i = loop[l].i
        /\ n.doc = file[loop[l].q]
    BY LoopFacts DEF LoopRecord
  <1>2. /\ loop' = [loop EXCEPT ![l] = n] /\ loop[l].at = "update"
        /\ UNCHANGED <<file, lock, gate, reset>>
    BY LoopFacts DEF UpdateLoad, data, others
  <1> HIDE DEF n
  <1>3. ASSUME Fresh PROVE LoopFresh(n, file[n.q])
    <2>1. LoopFresh(loop[l], file[loop[l].q])
      BY <1>3 DEF Fresh
    <2> QED
      BY <1>1, <1>2, <2>1 DEF LoopFresh, InHand, Settled, Keeps
  <1>4. lock'[n.q] = l
    BY <1>1, <1>2 DEF FInv, Exclusive, Held
  <1> QED
    BY <1>1, <1>2, <1>3, <1>4, MoveStep

LEMMA CleanLoadFresh == ASSUME IInv, FInv, NEW l \in Loops, CleanLoad(l) PROVE FInv'
  <1>0. UNCHANGED <<file, gate, reset>>
    BY DEF CleanLoad, data, others
  <1>1. CASE AllComplete(file[loop[l].q])
    <2> DEFINE n == [loop[l] EXCEPT !.at = "remove", !.doc = file[loop[l].q]]
    <2>1. n \in LoopRecord /\ n.at = "remove" /\ n.q = loop[l].q /\ n.doc = file[loop[l].q]
      BY LoopFacts DEF LoopRecord
    <2>2. loop' = [loop EXCEPT ![l] = n] /\ UNCHANGED lock
      BY <1>1, LoopFacts DEF CleanLoad
    <2> HIDE DEF n
    <2>3. n.at \notin Held /\ LoopFresh(n, file[n.q])
      BY <1>1, <2>1 DEF LoopFresh, Held, InHand
    <2> QED
      BY <1>0, <2>1, <2>2, <2>3, MoveStep
  <1>2. CASE ~AllComplete(file[loop[l].q])
    BY <1>0, <1>2, LeaveFresh DEF CleanLoad
  <1> QED
    BY <1>1, <1>2

(* Nothing but the loop and the export changes when it is removed.          *)
LEMMA RemoveFresh == ASSUME IInv, FInv, NEW l \in Loops, Remove(l) PROVE FInv'
  <1> DEFINE n == [loop[l] EXCEPT !.at = "cleaned"]
  <1>1. n \in LoopRecord /\ n.at = "cleaned" /\ n.q = loop[l].q /\ n.doc = loop[l].doc
    BY LoopFacts DEF LoopRecord
  <1>2. /\ loop' = [loop EXCEPT ![l] = n] /\ loop[l].at = "remove"
        /\ UNCHANGED <<file, lock, gate, reset>>
    BY LoopFacts DEF Remove, others
  <1> HIDE DEF n
  <1>3. n.at \notin Held
    BY <1>1 DEF Held
  <1>4. Fresh => LoopFresh(n, file[n.q])
    BY <1>1, <1>2 DEF Fresh, LoopFresh, InHand
  <1> QED
    BY <1>1, <1>2, <1>3, <1>4, MoveStep

(* A file is rewritten by one that finishes and blocks nothing new.         *)
LEMMA RewriteFresh ==
    ASSUME NEW n \in LoopRecord, NEW f \in Doc, NEW d \in Doc, LoopFresh(n, f),
           \A j \in Items : Settled(d, f, j),
           AllComplete(f) => AllComplete(d)
    PROVE  LoopFresh(n, d)
  <1>1. n.i \in Items /\ n.doc \in Doc
    BY DEF LoopRecord
  <1>2. n.at \in InHand => d[n.i].status \notin {"complete", "blocked"}
    BY <1>1 DEF LoopFresh, Settled, Keeps
  <1>3. n.at = "write" => \A j \in Items \ {n.i} : Settled(d, n.doc, j)
    BY DEF LoopFresh, Settled, Keeps
  <1> QED
    BY <1>2, <1>3 DEF LoopFresh

LEMMA RewriteGate ==
    ASSUME NEW g, NEW f, NEW d, GateFresh(g, f), \A j \in Items : Settled(f, d, j)
    PROVE  GateFresh(g, d)
  BY DEF GateFresh, Settled, Keeps

(* What update_item writes, on the file it has meanwhile become.            *)
LEMMA UpdatedSettles ==
    ASSUME IInv, NEW l \in Loops, loop[l].at = "write", LoopFresh(loop[l], file[loop[l].q])
    PROVE  LET d == Updated(loop[l].doc, loop[l].i, loop[l].set)
           IN /\ d \in Doc
              /\ d[loop[l].i].status = loop[l].set.status
              /\ \A j \in Items : Settled(file[loop[l].q], d, j)
              /\ ~AllComplete(file[loop[l].q])
  <1> DEFINE d == Updated(loop[l].doc, loop[l].i, loop[l].set)
             f == file[loop[l].q]
  <1>1. d \in Doc
    BY UpdatedOK
  <1>2. loop[l].doc \in Doc /\ loop[l].i \in Items
    BY LoopFacts
  <1>3. /\ d[loop[l].i].status = loop[l].set.status
        /\ \A j \in Items \ {loop[l].i} : d[j] = loop[l].doc[j]
    BY <1>2 DEF Updated, Doc
  <1>4. f[loop[l].i].status \notin {"complete", "blocked"}
    BY DEF LoopFresh, InHand
  <1>5. \A j \in Items \ {loop[l].i} : Settled(f, loop[l].doc, j)
    BY DEF LoopFresh
  <1> HIDE DEF d, f
  <1>6. \A j \in Items : Settled(f, d, j)
    BY <1>3, <1>4, <1>5 DEF Settled, Keeps
  <1>7. ~AllComplete(f)
    BY <1>2, <1>4 DEF AllComplete
  <1> QED
    BY <1>1, <1>3, <1>6, <1>7 DEF d, f

(* Of the loops of its queue the writer alone has an item in hand, and none *)
(* is removing the export, as the queue is not complete.                    *)
LEMMA OthersFresh ==
    ASSUME IInv, Exclusive, Fresh, NEW l \in Loops, loop[l].at \in Held,
           ~AllComplete(file[loop[l].q]),
           NEW k \in Loops, k # l, loop[k].q = loop[l].q, NEW d
    PROVE  LoopFresh(loop[k], d)
  <1>1. loop[k].at \notin Held
    BY DEF Exclusive
  <1>2. loop[k].at \notin {"remove", "cleaned"}
    BY DEF Fresh, LoopFresh
  <1> QED
    BY <1>1, <1>2 DEF LoopFresh, Held, InHand

LEMMA UpdateWriteFresh == ASSUME IInv, FInv, NEW l \in Loops, UpdateWrite(l) PROVE FInv'
  <1> DEFINE d == Updated(loop[l].doc, loop[l].i, loop[l].set)
             q == loop[l].q
             s == loop[l].set.status
  <1>1. /\ loop[l].at = "write" /\ file' = [file EXCEPT ![q] = d]
        /\ UNCHANGED <<gate, reset>>
    BY DEF UpdateWrite, data, others
  <1>2. file \in [Queues -> Doc] /\ q \in Queues
    BY LoopFacts DEF IInv, TypeOK
  <1>3. \E n \in LoopRecord :
           /\ loop' = [loop EXCEPT ![l] = n]
           /\ lock' = lock \/ lock' = Freed(l)
           /\ n.at \in Held => lock' = lock /\ n.q = q
           /\ n.at \in {"run", "load", "lock", "gone"}
           /\ n.at = "run" => s = "running" /\ n.i = loop[l].i /\ n.q = q
    <2>1. CASE s = "failed"
      <3> DEFINE n == [NoLoop EXCEPT !.at = "gone"]
      <3>1. n \in LoopRecord /\ n.at = "gone"
        BY Constants DEF NoLoop, LoopRecord
      <3>2. loop' = [loop EXCEPT ![l] = n] /\ lock' = Freed(l)
        BY <2>1 DEF UpdateWrite, Leave
      <3> HIDE DEF n
      <3> QED
        BY <3>1, <3>2 DEF Held
    <2>2. ASSUME NEW at \in {"run", "load", "lock"}, Goto(l, at), at = "run" => s = "running",
                 lock' = lock \/ lock' = Freed(l), at # "lock" => lock' = lock
          PROVE  \E n \in LoopRecord :
                    /\ loop' = [loop EXCEPT ![l] = n]
                    /\ lock' = lock \/ lock' = Freed(l)
                    /\ n.at \in Held => lock' = lock /\ n.q = q
                    /\ n.at \in {"run", "load", "lock", "gone"}
                    /\ n.at = "run" => s = "running" /\ n.i = loop[l].i /\ n.q = q
      <3> DEFINE n == [loop[l] EXCEPT !.at = at, !.doc = NoDoc]
      <3>1. n \in LoopRecord /\ n.at = at /\ n.q = q /\ n.i = loop[l].i
        BY LoopFacts, Constants DEF LoopRecord
      <3>2. loop' = [loop EXCEPT ![l] = n]
        BY <2>2, LoopFacts DEF Goto
      <3> HIDE DEF n
      <3> QED
        BY <2>2, <3>1, <3>2 DEF Held
    <2>3. s \in {"running", "complete", "failed"}
      BY <1>1, LoopFacts DEF LoopOK, Backed
    <2>4. CASE s = "running"
      BY <2>2, <2>4 DEF UpdateWrite
    <2>5. CASE s = "complete"
      BY <2>2, <2>5 DEF UpdateWrite
    <2> QED
      BY <2>1, <2>3, <2>4, <2>5
  <1>4. PICK n \in LoopRecord :
           /\ loop' = [loop EXCEPT ![l] = n]
           /\ lock' = lock \/ lock' = Freed(l)
           /\ n.at \in Held => lock' = lock /\ n.q = q
           /\ n.at \in {"run", "load", "lock", "gone"}
           /\ n.at = "run" => s = "running" /\ n.i = loop[l].i /\ n.q = q
    BY <1>3
  <1>5. Exclusive'
    <2>1. n.at \in Held => lock'[n.q] = l
      BY <1>1, <1>4 DEF FInv, Exclusive, Held
    <2> QED
      BY <1>4, <2>1, LockStep DEF FInv
  <1>6. ASSUME Fresh PROVE Fresh'
    <2>1. LoopFresh(loop[l], file[q])
      BY <1>6 DEF Fresh
    <2>2. /\ d \in Doc /\ d[loop[l].i].status = s /\ ~AllComplete(file[q])
          /\ \A j \in Items : Settled(file[q], d, j)
      BY <1>1, <2>1, UpdatedSettles
    <2> HIDE DEF d
    <2>3. \A k \in Loops : k # l => LoopFresh(loop[k], file[loop[k].q])'
      <3> TAKE k \in Loops
      <3> SUFFICES ASSUME k # l PROVE LoopFresh(loop'[k], file'[loop'[k].q])
        OBVIOUS
      <3>1. loop'[k] = loop[k] /\ loop[k].q \in Queues /\ LoopFresh(loop[k], file[loop[k].q])
        BY <1>4, <1>6, LoopFacts DEF Fresh
      <3>2. CASE loop[k].q = q
        BY <1>1, <1>6, <2>2, <3>1, <3>2, OthersFresh DEF FInv, Held
      <3>3. CASE loop[k].q # q
        BY <1>1, <1>2, <3>1, <3>3
      <3> QED
        BY <3>2, <3>3
    <2>4. LoopFresh(loop[l], file[loop[l].q])'
      <3>1. loop'[l] = n
        BY <1>4, LoopFacts
      <3>2. n.at = "run" => file'[n.q] = d
        BY <1>1, <1>2, <1>4
      <3>3. LoopFresh(n, file'[n.q])
        BY <1>4, <2>2, <3>2 DEF LoopFresh, InHand
      <3> QED
        BY <3>1, <3>3
    <2>6. GateFresh(gate, file[Second])'
      <3>1. GateFresh(gate, file[Second])
        BY <1>6 DEF Fresh
      <3>2. CASE q = Second
        BY <1>1, <1>2, <2>2, <3>1, <3>2, RewriteGate
      <3>3. CASE q # Second
        BY <1>1, <1>2, <3>1, <3>3, Constants
      <3> QED
        BY <3>2, <3>3
    <2> QED
      BY <2>3, <2>4, <2>6 DEF Fresh
  <1> QED
    BY <1>1, <1>5, <1>6 DEF FInv

(* The copy cleanup_prepared_checkpoint writes back finds a complete file.  *)
LEMMA CleanWriteFresh == ASSUME IInv, FInv, NEW l \in Loops, CleanWrite(l) PROVE FInv'
  <1> DEFINE n == [NoLoop EXCEPT !.at = "gone"]
             d == loop[l].doc
             q == loop[l].q
  <1>1. n \in LoopRecord /\ n.at = "gone"
    BY Constants DEF NoLoop, LoopRecord
  <1>2. loop' = [loop EXCEPT ![l] = n] /\ lock' = Freed(l)
    BY DEF CleanWrite, Leave
  <1>3. /\ loop[l].at = "cleaned" /\ file' = [file EXCEPT ![q] = d]
        /\ UNCHANGED <<gate, reset>>
    BY DEF CleanWrite, data, others
  <1> HIDE DEF n
  <1>4. Exclusive'
    BY <1>1, <1>2, LockStep DEF FInv, Held
  <1>5. file \in [Queues -> Doc] /\ q \in Queues /\ d \in Doc
    BY LoopFacts DEF IInv, TypeOK
  <1>6. ASSUME Fresh PROVE Fresh'
    <2>1. AllComplete(file[q]) /\ AllComplete(d)
      BY <1>3, <1>6 DEF Fresh, LoopFresh
    <2>2. \A j \in Items : Settled(d, file[q], j) /\ Settled(file[q], d, j)
      BY <2>1 DEF AllComplete, Settled, Keeps
    <2> HIDE DEF d
    <2>3. ASSUME NEW k \in Loops PROVE LoopFresh(loop[k], file[loop[k].q])'
      <3>1. loop'[k] = IF k = l THEN n ELSE loop[k]
        BY <1>2, <2>3, LoopFacts
      <3>2. LoopFresh(n, file'[n.q])
        BY <1>1 DEF LoopFresh, InHand
      <3>3. loop[k] \in LoopRecord /\ loop[k].q \in Queues /\ LoopFresh(loop[k], file[loop[k].q])
        BY <1>6, <2>3, LoopFacts DEF Fresh
      <3>4. LoopFresh(loop[k], file'[loop[k].q])
        <4>1. CASE loop[k].q = q
          <5>1. file'[loop[k].q] = d /\ file[q] \in Doc
            BY <1>3, <1>5, <4>1
          <5> QED
            BY <1>5, <2>1, <2>2, <3>3, <4>1, <5>1, RewriteFresh
        <4>2. CASE loop[k].q # q
          BY <1>3, <1>5, <3>3, <4>2
        <4> QED
          BY <4>1, <4>2
      <3> QED
        BY <3>1, <3>2, <3>4
    <2>5. GateFresh(gate, file[Second])'
      <3>1. GateFresh(gate, file[Second])
        BY <1>6 DEF Fresh
      <3>2. CASE q = Second
        BY <1>3, <1>5, <2>2, <3>1, <3>2, RewriteGate
      <3>3. CASE q # Second
        BY <1>3, <1>5, <3>1, <3>3, Constants
      <3> QED
        BY <3>2, <3>3
    <2> QED
      BY <2>3, <2>5 DEF Fresh
  <1> QED
    BY <1>3, <1>4, <1>6 DEF FInv

(* No loop moves, and perhaps somebody else rewrites a queue file.          *)
LEMMA BystandersFresh ==
    ASSUME IInv, Fresh, UNCHANGED <<loop>>,
           NEW q \in Queues, NEW d \in Doc,
           UNCHANGED file \/ file' = [file EXCEPT ![q] = d],
           \A j \in Items : Settled(d, file[q], j), AllComplete(file[q]) => AllComplete(d),
           GateFresh(gate', file'[Second])
    PROVE  Fresh'
  <1>0. file \in [Queues -> Doc]
    BY DEF IInv, TypeOK
  <1>1. ASSUME NEW k \in Loops PROVE LoopFresh(loop[k], file[loop[k].q])'
    <2>1. loop[k] \in LoopRecord /\ loop[k].q \in Queues /\ LoopFresh(loop[k], file[loop[k].q])
      BY <1>1, LoopFacts DEF Fresh
    <2>2. CASE file'[loop[k].q] = file[loop[k].q]
      BY <2>1, <2>2
    <2>3. CASE loop[k].q = q /\ file'[loop[k].q] = d
      BY <1>0, <2>1, <2>3, RewriteFresh
    <2> QED
      BY <1>0, <2>1, <2>2, <2>3
  <1> QED
    BY <1>1 DEF Fresh

LEMMA SettledRefl == \A f : \A j \in Items : Settled(f, f, j)
  BY DEF Settled, Keeps

(* The gate unblocks an item that is still blocked in the file, and nothing *)
(* else its copy has finished or blocked is different there.                *)
LEMMA GateStepFresh == ASSUME IInv, FInv, GateStep PROVE FInv'
  <1>0. /\ file \in [Queues -> Doc] /\ file[Second] \in Doc /\ Second \in Queues
        /\ gate.doc \in Doc
    BY Constants DEF IInv, TypeOK
  <1>1. UNCHANGED <<loop, lock, reset>>
    BY DEF GateStep, GateLoads, GateLoadsTarget, GateDecides, data
  <1>2. Exclusive'
    BY <1>1 DEF FInv, Exclusive
  <1>3. ASSUME Fresh PROVE Fresh'
    <2>1. CASE GateLoads
      <3>1. gate' = [gate EXCEPT !.at = "dependency", !.dep = file[First][Dependency]]
            /\ UNCHANGED file
        BY <2>1 DEF GateLoads
      <3>2. gate'.at = "dependency"
        BY <3>1 DEF IInv, TypeOK
      <3> QED
        BY <1>0, <1>1, <1>3, <3>1, <3>2, SettledRefl, BystandersFresh DEF GateFresh
    <2>2. CASE GateLoadsTarget
      <3>1. gate' = [gate EXCEPT !.at = "target", !.doc = file[Second]] /\ UNCHANGED file
        BY <2>2 DEF GateLoadsTarget
      <3>2. gate'.doc = file[Second]
        BY <3>1 DEF IInv, TypeOK
      <3>3. GateFresh(gate', file'[Second])
        BY <3>1, <3>2, SettledRefl DEF GateFresh
      <3> QED
        BY <1>0, <1>1, <1>3, <3>1, <3>3, SettledRefl, BystandersFresh
    <2>3. CASE GateDecides
      <3>1. gate.at = "target" /\ gate' = NoGate
        BY <2>3 DEF GateDecides
      <3>2. GateFresh(gate', file'[Second])
        BY <3>1 DEF GateFresh, NoGate
      <3>3. \A j \in Items : Settled(gate.doc, file[Second], j)
        BY <1>3, <3>1 DEF Fresh, GateFresh
      <3>4. CASE UNCHANGED file
        BY <1>0, <1>1, <1>3, <3>2, <3>4, SettledRefl, BystandersFresh
      <3>5. CASE file' # file
        <4>1. PICK i \in Gated :
                 /\ gate.doc[i].status = "blocked"
                 /\ file' = [file EXCEPT ![Second] = [gate.doc EXCEPT ![i].status = "pending"]]
          BY <2>3, <3>5 DEF GateDecides
        <4> DEFINE r == [gate.doc[i] EXCEPT !.status = "pending"]
                   d == [gate.doc EXCEPT ![i] = r]
        <4>2. i \in Items /\ gate.doc[i] \in Item
          BY <1>0, Constants DEF Doc
        <4>3. r \in Item /\ r.status = "pending"
          BY <4>2 DEF Item
        <4>4. file' = [file EXCEPT ![Second] = d]
          BY <1>0, <4>1, <4>2 DEF Doc
        <4> HIDE DEF r
        <4>5. d \in Doc /\ \A j \in Items : d[j] = IF j = i THEN r ELSE gate.doc[j]
          BY <1>0, <4>2, <4>3 DEF Doc
        <4> HIDE DEF d
        <4>6. \A j \in Items : Settled(d, file[Second], j)
          BY <3>3, <4>3, <4>5 DEF Settled, Keeps
        <4>7. ~AllComplete(file[Second])
          BY <3>3, <4>1, <4>2 DEF AllComplete, Settled, Keeps
        <4> QED
          BY <1>0, <1>1, <1>3, <3>2, <4>4, <4>5, <4>6, <4>7, BystandersFresh
      <3> QED
        BY <3>4, <3>5
    <2> QED
      BY <2>1, <2>2, <2>3 DEF GateStep
  <1> QED
    BY <1>1, <1>2, <1>3 DEF FInv

(* A reset that finds the file as it read it touches running items only.    *)
LEMMA ResetFresh ==
    ASSUME IInv, FInv, (\E q \in Queues : ResetLoads(q)) \/ ResetWrites PROVE FInv'
  <1>0. /\ file \in [Queues -> Doc] /\ reset.q \in Queues /\ reset.doc \in Doc
        /\ reset.stale \in BOOLEAN /\ Second \in Queues
    BY Constants DEF IInv, TypeOK
  <1>1. UNCHANGED <<loop, lock, gate>>
    BY DEF ResetLoads, ResetWrites, data
  <1>2. Exclusive'
    BY <1>1 DEF FInv, Exclusive
  <1>3. CASE \E q \in Queues : ResetLoads(q)
    <2>1. UNCHANGED file /\ reset'.stale = reset.stale
      <3>1. PICK q \in Queues : ResetLoads(q)
        BY <1>3
      <3> QED
        BY <3>1 DEF ResetLoads, IInv, TypeOK
    <2>2. Fresh => Fresh'
      BY <1>1, <2>1 DEF Fresh
    <2> QED
      BY <1>2, <2>1, <2>2 DEF FInv
  <1>4. CASE ResetWrites
    <2> DEFINE d == [i \in Items |->
               IF reset.doc[i].status = "running" THEN [reset.doc[i] EXCEPT !.status = "pending"]
               ELSE reset.doc[i]]
    <2>1. \/ UNCHANGED file /\ reset' = [NoReset EXCEPT !.stale = reset.stale]
          \/ /\ file' = [file EXCEPT ![reset.q] = d]
             /\ reset' = [NoReset EXCEPT !.stale = reset.stale \/ file[reset.q] # reset.doc]
      BY <1>4 DEF ResetWrites
    <2>2. /\ reset'.stale = FALSE => reset.stale = FALSE
          /\ reset'.stale \in BOOLEAN
          /\ reset'.stale = FALSE => UNCHANGED file \/ file[reset.q] = reset.doc
      BY <1>0, <2>1 DEF NoReset
    <2>3. /\ d \in Doc
          /\ \A i \in Items : \/ d[i].status = reset.doc[i].status
                              \/ reset.doc[i].status = "running" /\ d[i].status = "pending"
      <3>1. \A i \in Items : reset.doc[i] \in Item
        BY <1>0 DEF Doc
      <3>2. \A i \in Items :
              /\ d[i] \in Item
              /\ \/ d[i].status = reset.doc[i].status
                 \/ reset.doc[i].status = "running" /\ d[i].status = "pending"
        BY <3>1 DEF Item
      <3> QED
        BY <3>2 DEF Doc
    <2> HIDE DEF d
    <2>4. ASSUME Fresh, reset'.stale = FALSE PROVE Fresh'
      <3>1. GateFresh(gate, file[Second])
        BY <2>4 DEF Fresh
      <3>2. CASE UNCHANGED file
        BY <1>1, <2>4, <3>2 DEF Fresh
      <3>3. CASE file' = [file EXCEPT ![reset.q] = d] /\ file[reset.q] = reset.doc
        <4>1. \A j \in Items : Settled(d, file[reset.q], j) /\ Settled(file[reset.q], d, j)
          BY <2>3, <3>3 DEF Settled, Keeps
        <4>2. AllComplete(file[reset.q]) => AllComplete(d)
          BY <2>3, <3>3 DEF AllComplete
        <4>3. GateFresh(gate', file'[Second])
          <5>1. CASE reset.q = Second
            BY <1>0, <1>1, <3>1, <3>3, <4>1, <5>1, RewriteGate
          <5>2. CASE reset.q # Second
            BY <1>0, <1>1, <3>1, <3>3, <5>2
          <5> QED
            BY <5>1, <5>2
        <4> QED
          BY <1>0, <1>1, <2>3, <2>4, <3>3, <4>1, <4>2, <4>3, BystandersFresh
      <3> QED
        BY <2>1, <2>2, <2>4, <3>2, <3>3
    <2> QED
      BY <1>0, <1>2, <2>2, <2>4 DEF FInv
  <1> QED
    BY <1>3, <1>4

LEMMA ChainFresh == ASSUME IInv, FInv, ChainStep PROVE FInv'
  <1>1. CASE Poll \/ ChildEnds
    <2>1. UNCHANGED <<file, lock, loop, gate, reset>>
      BY <1>1 DEF Poll, ChildEnds, data
    <2> QED
      BY <2>1 DEF FInv, Exclusive, Fresh
  <1>2. CASE Launch
    <2> DEFINE n == [loop[Child] EXCEPT !.at = "lock", !.q = Second]
    <2>0. Child \in Loops
      BY DEF Loops
    <2>1. n \in LoopRecord /\ n.at = "lock"
      BY <2>0, LoopFacts, Constants DEF LoopRecord
    <2>2. loop' = [loop EXCEPT ![Child] = n] /\ UNCHANGED <<kind, file, lock, export, gate, reset>>
      BY <1>2, <2>0, LoopFacts DEF Launch, data
    <2> HIDE DEF n
    <2>3. n.at \notin Held /\ LoopFresh(n, file[n.q])
      BY <2>1 DEF LoopFresh, Held, InHand
    <2> QED
      BY <2>0, <2>1, <2>2, <2>3, MoveStep
  <1> QED
    BY <1>1, <1>2 DEF ChainStep

LEMMA StepFresh == ASSUME IInv, FInv, [Next]_vars PROVE FInv'
  <1>1. ASSUME NEW l \in Loops, LoopStep(l) PROVE FInv'
    <2>1. CASE GuardStops(l) \/ GuardPasses(l)
      BY <1>1, <2>1, GuardFresh
    <2>2. CASE JobSucceeds(l) \/ JobFails(l)
      BY <1>1, <2>2, JobFresh
    <2>3. CASE ConvertFails(l)
      BY <1>1, <2>3, LeaveFresh DEF ConvertFails, data, others
    <2> QED
      BY <1>1, <2>1, <2>2, <2>3, TakeLockFresh, IdleFresh, LoadFresh, PrepareFresh, ConvertedFresh,
         UpdateLoadFresh, UpdateWriteFresh, CleanLoadFresh, RemoveFresh, CleanWriteFresh DEF LoopStep
  <1>2. ASSUME NEW l \in Loops, Kill(l) PROVE FInv'
    BY <1>2, LeaveFresh DEF Kill, data, others
  <1>3. ASSUME NEW l \in Loops, NEW q \in Queues, Start(l, q) PROVE FInv'
    BY <1>3, StartFresh
  <1>4. CASE ChainStep
    BY <1>4, ChainFresh
  <1>5. CASE GateStep
    BY <1>5, GateStepFresh
  <1>6. CASE (\E q \in Queues : ResetLoads(q)) \/ ResetWrites
    BY <1>6, ResetFresh
  <1>7. CASE UNCHANGED vars
    BY <1>7 DEF vars, data, FInv, Exclusive, Fresh
  <1> QED
    BY <1>1, <1>2, <1>3, <1>4, <1>5, <1>6, <1>7 DEF Next

(* The loop that holds the lock of a queue (queue_lock) is the only one     *)
(* that has an item of it in hand, and, until a reset overwrites a newer    *)
(* file, what a loop or the gate writes back undoes no success and blocks   *)
(* no item anew, and the file of a queue whose export is being removed      *)
(* stays complete.                                                          *)
THEOREM CopiesAreFresh == Spec => [](IInv /\ FInv)
  <1>1. Init => IInv /\ FInv
    BY InitInv, InitFresh
  <1>2. (IInv /\ FInv) /\ [Next]_vars => (IInv /\ FInv)'
    BY StepInv, StepFresh
  <1> QED
    BY <1>1, <1>2, PTL DEF Spec

(* cleanup_prepared_checkpoint, for any directories, loops, gates, resets   *)
(* and kills: it removes an export only after a job of every item of its    *)
(* queue succeeded, and while no loop of the queue has an item in hand,     *)
(* unless a reset has written an old copy back.                             *)
THEOREM CleanUpComesLast == Spec => []CleanUpIsLast
  <1>1. IInv /\ FInv => CleanUpIsLast
    <2> SUFFICES ASSUME IInv, FInv, NEW k \in Loops, loop[k].at = "remove"
                 PROVE  /\ \A i \in Items : earned[loop[k].q][i] # {}
                        /\ \/ reset.stale
                           \/ \A l \in Loops :
                                 loop[l].q = loop[k].q => loop[l].at \notin InHand
      BY DEF CleanUpIsLast
    <2>1. AllComplete(loop[k].doc) /\ DocOK(loop[k].q, loop[k].doc, earned)
      BY DEF IInv, LoopsOK, LoopOK
    <2>2. \A i \in Items : earned[loop[k].q][i] # {}
      BY <2>1 DEF AllComplete, DocOK
    <2>3. ASSUME Fresh, NEW l \in Loops, loop[l].q = loop[k].q PROVE loop[l].at \notin InHand
      <3>1. AllComplete(file[loop[k].q]) /\ LoopFresh(loop[l], file[loop[k].q])
        BY <2>3 DEF Fresh, LoopFresh
      <3>2. loop[l].i \in Items
        BY LoopFacts
      <3> QED
        BY <3>1, <3>2 DEF LoopFresh, AllComplete
    <2> QED
      BY <2>2, <2>3 DEF FInv
  <1> QED
    BY CopiesAreFresh, <1>1, PTL
===============================================================================
