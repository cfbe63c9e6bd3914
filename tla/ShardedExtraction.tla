--------------------------- MODULE ShardedExtraction ---------------------------
(***************************************************************************)
(* scripts/nano_prefix_sharded_extract.py: a launcher plans contiguous row  *)
(* ranges, one per GPU, starts an extractor for each range whose files it   *)
(* cannot reuse (nano_prefix_activation_extract.py), waits for them and     *)
(* merges their parquet files layer by layer.  A launcher may be killed     *)
(* with its extractors at any step and started again, for the same or for   *)
(* other rows, in the same directory.                                       *)
(***************************************************************************)
EXTENDS Integers, Sequences, FiniteSets, SequencesExt

CONSTANTS
    Doc,         \* Doc[i]: the document of row i - 1 of the source parquet
    Layers,      \* number of boundaries extracted
    Requests,    \* the launches made: rows, devices, alignment, batch size
    None,        \* no file
    MaxLaunches, \* bound on launches for another request or without --resume
    MaxFaults    \* bound on failing extractors and kills

SourceRows == 0..(Len(Doc) - 1)
Request == [start : Nat, limit : Nat, devices : Nat \ {0}, batch : Nat \ {0},
            align : {"row", "document", "document_batch"}, resume : BOOLEAN, overwrite : BOOLEAN]

ASSUME DocAssumption == Len(Doc) \in Nat
ASSUME RequestAssumption == Requests \subseteq Request
ASSUME LayerAssumption == Layers \in Nat \ {0}
ASSUME LaunchAssumption == MaxLaunches \in Nat /\ MaxFaults \in Nat

Span(start, count) == start..(start + count - 1)
Selected(q) == Span(q.start, q.limit)
DocOf(r) == Doc[r + 1]

-----------------------------------------------------------------------------
(* What an extractor computes for rows S: they are grouped by document, in  *)
(* the order in which the documents appear, and b documents at a time go    *)
(* through the model, padded to one length; a row's activation is that of   *)
(* the row among the rows of its batch.                                     *)
GroupOf(S, r) == Cardinality({DocOf(q) : q \in {p \in S : \A t \in S : DocOf(t) = DocOf(r) => p < t}}) + 1
BatchOf(S, b, r) == (GroupOf(S, r) - 1) \div b
Extracted(S, b) ==
    LET before(q, r) == \/ GroupOf(S, q) < GroupOf(S, r)
                        \/ GroupOf(S, q) = GroupOf(S, r) /\ q < r
        order == [i \in 1..Cardinality(S) |->
                     CHOOSE r \in S : Cardinality({q \in S : before(q, r)}) = i - 1]
    IN [i \in 1..Cardinality(S) |->
           [row |-> order[i],
            among |-> {q \in S : BatchOf(S, b, q) = BatchOf(S, b, order[i])}]]

-----------------------------------------------------------------------------
(* The plan: a sequence of ranges, empty when the launcher refuses.         *)
Fits(q) == q.limit > 0 /\ q.start + q.limit <= Len(Doc)
Piece(from, to) == [start |-> from, count |-> to - from]
Lower(m, n) == IF m < n THEN m ELSE n
Upper(m, n) == IF m < n THEN n ELSE m
Distance(m, n) == Upper(m, n) - Lower(m, n)

(* plan_row_shards: the first limit % n devices get one row more.           *)
RowPlan(q) ==
    LET n == Lower(q.devices, q.limit)
        cut(i) == q.start + i * (q.limit \div n) + Lower(i, q.limit % n)
    IN [i \in 1..n |-> Piece(cut(i - 1), cut(i))]

(* The row after each document of the source, in order, if every document   *)
(* is contiguous, and those of the selection.                               *)
Ends == {r + 1 : r \in {p \in SourceRows : p + 1 \notin SourceRows \/ DocOf(p + 1) # DocOf(p)}}
Contiguous == Cardinality(Ends) = Cardinality({DocOf(r) : r \in SourceRows})
WholeDocuments(q) == /\ q.start \in Ends \cup {0} /\ q.start + q.limit \in Ends
                     /\ Contiguous
DocEnds(q) ==
    LET S == {e \in Ends : q.start < e /\ e <= q.start + q.limit}
    IN [i \in 1..Cardinality(S) |-> CHOOSE e \in S : Cardinality({f \in S : f < e}) = i - 1]

(* round() of Python: a half goes to the even neighbour.                    *)
RoundDiv(m, n) ==
    LET d == m \div n  r == m % n
    IN IF 2 * r < n \/ (2 * r = n /\ d % 2 = 0) THEN d ELSE d + 1

(* plan_document_aligned_shards: the cuts lie after whole batches of b      *)
(* documents, each as near as possible to the even split, and leave enough  *)
(* documents for the shards that follow; 0 stands for no such cut.          *)
BugSpare(n, k, b) == n - k  \* bug: one document per shard that follows
Spare(n, k, b) == (n - k - 1) * b + 1
NearestCut(q, b, n, k, from) ==
    LET ends == DocEnds(q)  target == q.start + RoundDiv(q.limit * k, n)
        after == {x \in (from + b)..(Len(ends) - Spare(n, k, b)) : (x - from) % b = 0}
        nearer(x, y) == \/ Distance(ends[x], target) < Distance(ends[y], target)
                        \/ Distance(ends[x], target) = Distance(ends[y], target) /\ x <= y
    IN IF after = {} THEN 0 ELSE CHOOSE x \in after : \A y \in after : nearer(x, y)
Cuts(q, b) ==
    LET d == Len(DocEnds(q))
        n == Lower(q.devices, (d + b - 1) \div b)
        cut[k \in 0..n] == IF k = 0 THEN 0 ELSE IF k = n THEN d
                           ELSE NearestCut(q, b, n, k, cut[k - 1])
    IN cut

DocPlan(q, b) ==
    LET ends == DocEnds(q)  cut == Cuts(q, b)
        at(k) == IF k = 0 THEN q.start ELSE ends[k]
        n == Cardinality(DOMAIN cut) - 1
    IN IF \E k \in 1..n : cut[k] = 0 THEN <<>>
       ELSE [k \in 1..n |-> Piece(at(cut[k - 1]), at(cut[k]))]

ShardPlan(q) ==
    CASE ~Fits(q) -> <<>>
      [] Fits(q) /\ q.align = "row" -> RowPlan(q)
      [] Fits(q) /\ q.align # "row" /\ ~WholeDocuments(q) -> <<>>
      [] OTHER -> DocPlan(q, IF q.align = "document_batch" THEN q.batch ELSE 1)

(* The launches that occur, with their plans, and what is extracted of a    *)
(* range (functions, so that TLC computes them once).                       *)
Again(q) == [q EXCEPT !.resume = TRUE, !.overwrite = TRUE]
Planned == [q \in Requests \cup {Again(q) : q \in Requests} |-> ShardPlan(q)]
Ranges == UNION {{[start |-> p.start, count |-> p.count, batch |-> q.batch] :
                     p \in {Planned[q][i] : i \in DOMAIN Planned[q]}} : q \in DOMAIN Planned}
Contents == [r \in Ranges |-> Extracted(Span(r.start, r.count), r.batch)]

-----------------------------------------------------------------------------
VARIABLES
    req,     \* the request of the last launch
    plan,    \* its ranges
    pc,      \* the launcher: "off", "start", "watch" or "merge"
    todo,    \* the shards it has yet to start an extractor for
    ext,     \* ext[s]: the extractor of shard s and the layer it has reached
    file,    \* file[s][l]: the parquet, sidecar and metadata of a shard
    out,     \* out[l]: the same of the merged output
    merged,  \* <<layer, files of it already published>> while merging
    status,  \* the status in the launcher's report
    asked,   \* history: the ranges and batch sizes launched in the directory
    launches, faults

shardVars == <<req, plan, pc, todo, ext, file, out, merged, status, asked, launches, faults>>

LayerSet == 1..Layers
Shards == UNION {1..q.devices : q \in Requests}

(* A parquet file that is begun and not closed has no footer: no rows can   *)
(* be read from it.  A sidecar says which rows it describes.                *)
NoFiles == [rows |-> None, side |-> None, meta |-> None]
Begun == <<>>
Gone == [pc |-> "off", at |-> 1]

(* _read_shard_descriptor and _shard_is_complete: the three files exist and *)
(* agree on the number of rows, which is the planned one.                   *)
Readable(f) == /\ f.rows # None /\ f.rows # Begun
               /\ f.side # None /\ f.side.count = Len(f.rows)
               /\ f.meta # None /\ f.meta = Len(f.rows)
BugIsComplete(s, count) ==  \* bug: only the parquet file is looked at
    \A l \in LayerSet : file[s][l].rows # None /\ Len(file[s][l].rows) = count
IsComplete(s, count) == \A l \in LayerSet : Readable(file[s][l]) /\ Len(file[s][l].rows) = count

Launch(q) ==
    /\ pc = "off"
    /\ req' = q /\ plan' = Planned[q]
    /\ IF Planned[q] = <<>> THEN UNCHANGED <<pc, todo, status, asked>>
       ELSE /\ pc' = "start" /\ status' = "starting"
            /\ asked' = asked \cup {[plan |-> Planned[q], batch |-> q.batch]}
            /\ todo' = {s \in DOMAIN Planned[q] : ~(q.resume /\ IsComplete(s, Planned[q][s].count))}
    /\ UNCHANGED <<ext, file, out, merged, faults>>

NewRequest == /\ launches < MaxLaunches /\ launches' = launches + 1
              /\ \E q \in Requests : Launch(q)
(* The operator repeats a launch that has not completed, with --resume and  *)
(* --overwrite.                                                             *)
Relaunch == /\ req # None /\ status # "completed" /\ UNCHANGED launches
            /\ Launch(Again(req))

(* One Popen after the other; then all of them are polled.                  *)
Start ==
    /\ pc = "start" /\ todo # {}
    /\ \E s \in todo :
          /\ \A t \in todo : s <= t
          /\ ext' = [ext EXCEPT ![s] = [Gone EXCEPT !.pc = "load"]]
          /\ todo' = todo \ {s}
    /\ status' = "extracting"
    /\ UNCHANGED <<req, plan, pc, file, out, merged, launches, asked, faults>>
Started ==
    /\ pc = "start" /\ todo = {} /\ pc' = "watch"
    /\ UNCHANGED <<req, plan, todo, ext, file, out, merged, status, launches, asked, faults>>

-----------------------------------------------------------------------------
(* An extractor refuses files that are there, without --overwrite; it opens *)
(* all layers, fills them, and then closes one after the other, each with   *)
(* its sidecar and metadata.                                                *)
Open(s) ==
    /\ ext[s].pc = "load"
    /\ req.overwrite \/ \A l \in LayerSet : file[s][l].rows = None
    /\ file' = [file EXCEPT ![s] = [l \in LayerSet |-> [@[l] EXCEPT !.rows = Begun]]]
    /\ ext' = [ext EXCEPT ![s].pc = "close"]
    /\ UNCHANGED <<req, plan, pc, todo, out, merged, status, launches, asked, faults>>
Refuse(s) ==
    /\ ext[s].pc = "load"
    /\ ~req.overwrite /\ \E l \in LayerSet : file[s][l].rows # None
    /\ ext' = [ext EXCEPT ![s].pc = "bad"]
    /\ UNCHANGED <<req, plan, pc, todo, file, out, merged, status, launches, asked, faults>>

Close(s) ==
    /\ ext[s].pc = "close"
    /\ file' = [file EXCEPT ![s][ext[s].at].rows =
                   Contents[[start |-> plan[s].start, count |-> plan[s].count, batch |-> req.batch]]]
    /\ ext' = [ext EXCEPT ![s].pc = "side"]
    /\ UNCHANGED <<req, plan, pc, todo, out, merged, status, launches, asked, faults>>
Side(s) ==
    /\ ext[s].pc = "side"
    /\ file' = [file EXCEPT ![s][ext[s].at].side = plan[s]]
    /\ ext' = [ext EXCEPT ![s].pc = "meta"]
    /\ UNCHANGED <<req, plan, pc, todo, out, merged, status, launches, asked, faults>>
Meta(s) ==
    /\ ext[s].pc = "meta"
    /\ file' = [file EXCEPT ![s][ext[s].at].meta = plan[s].count]
    /\ ext' = [ext EXCEPT ![s] = IF @.at = Layers THEN [@ EXCEPT !.pc = "ok"]
                                 ELSE [pc |-> "close", at |-> @.at + 1]]
    /\ UNCHANGED <<req, plan, pc, todo, out, merged, status, launches, asked, faults>>
Fail(s) ==
    /\ ext[s].pc \in {"load", "close", "side", "meta"} /\ faults < MaxFaults
    /\ faults' = faults + 1
    /\ ext' = [ext EXCEPT ![s].pc = "bad"]
    /\ UNCHANGED <<req, plan, pc, todo, file, out, merged, status, launches, asked>>

-----------------------------------------------------------------------------
(* The first failure found ends the others before it is recorded.           *)
NoExtractor == [s \in Shards |-> Gone]
PollFailure ==
    /\ pc = "watch" /\ \E s \in Shards : ext[s].pc = "bad"
    /\ ext' = NoExtractor /\ pc' = "off" /\ status' = "failed"
    /\ UNCHANGED <<req, plan, todo, file, out, merged, launches, asked, faults>>
PollSuccess ==
    /\ pc = "watch" /\ \A s \in Shards : ext[s].pc \in {"off", "ok"}
    /\ ext' = NoExtractor /\ pc' = "merge" /\ merged' = <<1, 0>> /\ status' = "merging"
    /\ UNCHANGED <<req, plan, todo, file, out, launches, asked, faults>>

(* merge_layer_shards: what a layer's shards must be, and what is made of   *)
(* them.                                                                    *)
BugMergeable(l) ==  \* bug: the merge goes by the number of rows too
    \A s \in DOMAIN plan : Readable(file[s][l]) /\ Len(file[s][l].rows) = plan[s].count
Mergeable(l) ==
    \A s \in DOMAIN plan : /\ Readable(file[s][l])
                           /\ Len(file[s][l].rows) = plan[s].count
                           /\ file[s][l].side.start = plan[s].start
JoinedRows(l) == FlattenSeq([s \in DOMAIN plan |-> file[s][l].rows])
ExpectedRows ==
    LET total[s \in 0..Len(plan)] == IF s = 0 THEN 0 ELSE total[s - 1] + plan[s].count
    IN total[Len(plan)]
JoinedSide(l) == [start |-> file[1][l].side.start, count |-> ExpectedRows]

(* The merged files replace the old ones in this order.                     *)
Publish ==
    LET l == merged[1]
    IN /\ pc = "merge" /\ l <= Layers
       /\ merged[2] = 0 => Mergeable(l)
       /\ out' = [out EXCEPT ![l] =
             CASE merged[2] = 0 -> [@ EXCEPT !.side = JoinedSide(l)]
               [] merged[2] = 1 -> [@ EXCEPT !.meta = ExpectedRows]
               [] merged[2] = 2 -> [@ EXCEPT !.rows = JoinedRows(l)]]
       /\ merged' = IF merged[2] = 2 THEN <<l + 1, 0>> ELSE <<l, merged[2] + 1>>
       /\ UNCHANGED <<req, plan, pc, todo, ext, file, status, launches, asked, faults>>
(* A merge that raises leaves the report as it is.                          *)
RefuseMerge ==
    /\ pc = "merge" /\ merged[1] <= Layers /\ merged[2] = 0 /\ ~Mergeable(merged[1])
    /\ pc' = "off"
    /\ UNCHANGED <<req, plan, todo, ext, file, out, merged, status, launches, asked, faults>>
Complete ==
    /\ pc = "merge" /\ merged[1] > Layers
    /\ pc' = "off" /\ status' = "completed"
    /\ UNCHANGED <<req, plan, todo, ext, file, out, merged, launches, asked, faults>>

(* The machine or the container goes down, launcher and extractors with it. *)
Kill ==
    /\ pc # "off" /\ faults < MaxFaults /\ faults' = faults + 1
    /\ pc' = "off" /\ ext' = NoExtractor
    /\ UNCHANGED <<req, plan, todo, file, out, merged, status, launches, asked>>

ShardInit ==
    /\ req = None /\ plan = <<>> /\ pc = "off" /\ todo = {} /\ ext = NoExtractor
    /\ file = [s \in Shards |-> [l \in LayerSet |-> NoFiles]]
    /\ out = [l \in LayerSet |-> NoFiles]
    /\ merged = <<1, 0>> /\ status = "none" /\ asked = {} /\ launches = 0 /\ faults = 0

Extract(s) == Open(s) \/ Refuse(s) \/ Close(s) \/ Side(s) \/ Meta(s)
Step == Start \/ Started \/ PollFailure \/ PollSuccess \/ Publish \/ RefuseMerge \/ Complete
ShardNext == \/ NewRequest \/ Relaunch \/ Step \/ Kill
             \/ \E s \in Shards : Extract(s) \/ Fail(s)

ShardSpec == ShardInit /\ [][ShardNext]_shardVars
FairShardSpec == /\ ShardSpec /\ WF_shardVars(Step) /\ WF_shardVars(Relaunch)
                 /\ \A s \in Shards : WF_shardVars(Extract(s))

-----------------------------------------------------------------------------
Bounds == /\ launches \in 0..MaxLaunches /\ faults \in 0..MaxFaults
ShardTypeOK ==
    /\ req \in Request \cup {None} /\ plan \in Seq([start : SourceRows, count : 1..Len(Doc)])
    /\ pc \in {"off", "start", "watch", "merge"} /\ todo \subseteq Shards
    /\ ext \in [Shards -> [pc : {"off", "load", "close", "side", "meta", "ok", "bad"}, at : LayerSet]]
    /\ DOMAIN file = Shards /\ DOMAIN out = LayerSet
    /\ merged \in (1..(Layers + 1)) \X (0..2)
    /\ status \in {"none", "starting", "extracting", "failed", "merging", "completed"}
    /\ Bounds

(* Every request for whole rows (whole documents, when aligned) is planned: *)
(* never "not enough documents to preserve requested batch-aligned shards". *)
(* The ranges are the selection, in order, none empty, none left over, and  *)
(* no more of them than there are devices.                                  *)
Acceptable(q) == Fits(q) /\ (q.align = "row" \/ WholeDocuments(q))
PlanIsWhole ==
    req # None /\ Acceptable(req) =>
       /\ Len(plan) \in 1..req.devices
       /\ plan[1].start = req.start
       /\ \A i \in 1..(Len(plan) - 1) : plan[i + 1].start = plan[i].start + plan[i].count
       /\ plan[Len(plan)].start + plan[Len(plan)].count = req.start + req.limit
       /\ \A i \in 1..Len(plan) : plan[i].count > 0

(* Once the report says completed, every layer's output has as many rows as *)
(* were asked for, under a sidecar and metadata that say so.  They are the  *)
(* selected rows in source order, and if batches were to be kept, row for   *)
(* row what one extractor for all of them would have written: however often *)
(* launches failed or were killed and repeated, if all that was launched in *)
(* the directory had the same ranges and batch size, as with one            *)
(* configuration.  A directory of several ones needs a second layer, whose  *)
(* parquet is begun before the first layer's sidecar tells too much, and    *)
(* one batch size.                                                          *)
OnePlan == \A x, y \in asked : x = y
Told == OnePlan \/ (Layers >= 2 /\ \A x, y \in asked : x.batch = y.batch)
CompletedIsSelection ==
    status = "completed" /\ Acceptable(req) =>
       \A l \in LayerSet :
          /\ Len(out[l].rows) = req.limit /\ out[l].meta = req.limit
          /\ out[l].side = [start |-> req.start, count |-> req.limit]
          /\ Told =>
                /\ [i \in DOMAIN out[l].rows |-> out[l].rows[i].row]
                      = [i \in 1..req.limit |-> req.start + i - 1]
                /\ req.align = "document_batch" => out[l].rows = Extracted(Selected(req), req.batch)

(* Repeated launches complete, unless a shard in the directory has the      *)
(* planned number of rows of another selection: --resume goes by the number *)
(* and takes it, the merge goes by the first row and refuses it.            *)
Foreign == \E s \in DOMAIN plan : /\ IsComplete(s, plan[s].count)
                                  /\ \E l \in LayerSet : /\ file[s][l].side # None
                                                         /\ file[s][l].side.start # plan[s].start
RelaunchCompletes == []<>(req = None \/ ~Acceptable(req) \/ status = "completed" \/ Foreign)
=============================================================================
