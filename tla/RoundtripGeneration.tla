--------------------------- MODULE RoundtripGeneration ---------------------------
(***************************************************************************)
(* scripts/eval_nano_av_ar_roundtrip_gate.py, as a post-eval or a queue     *)
(* item runs it: a generation command (--generation-only) whose workers     *)
(* append a record per row to shard files that are then merged, and a       *)
(* scoring command (--reuse-generated) that reads the merged file.  Either  *)
(* may be killed at any step and launched again with --resume-generated;    *)
(* a generation command killed alone leaves its workers writing.            *)
(***************************************************************************)
EXTENDS Naturals, FiniteSets

CONSTANTS
    R,           \* rows selected for evaluation, in evaluation order
    Workers,     \* --generation-workers
    Parallel,    \* --generation-max-parallel-workers
    Configs,     \* protocols and identities (model, tokenizer, data) requested
    MaxRestarts, \* bound on launches without --resume-generated
    MaxFaults    \* bound on failing workers and kills

Rows == 1 .. R
Shards == 1 .. Workers
Merged == 0                \* the merged file; the command that writes it alone
Files == {Merged} \cup Shards
Versions == 1 .. Configs

ASSUME WorkerAssumption == Workers \in Nat \ {0} /\ R \in Nat /\ Workers <= R
ASSUME ParallelAssumption == Parallel \in 1 .. Workers
ASSUME VersionAssumption == Configs \in Nat \ {0}
ASSUME BoundAssumption == MaxRestarts \in Nat /\ MaxFaults \in Nat

(* What is in a JSONL file: how many records of each row and version.  A    *)
(* kill while a record is appended may leave a line that is not JSON.       *)
Records == [Rows \X Versions -> Nat]
NoRecords == [x \in Rows \X Versions |-> 0]
Empty == [at |-> "text", n |-> NoRecords]
NoFile == [at |-> "none", n |-> NoRecords]

VARIABLES
    conf,      \* the version configured now
    parent,    \* the generation or scoring command: step, version, resume, group
    gen,       \* gen[g]: a generator: step, version, records to keep, rows to do
    file,      \* file[f]: the merged file and the shards
    mem,       \* the records in the parent's memory
    left,      \* rows it has yet to write to the merged file
    scored,    \* the version and the records that were scored last
    alone,     \* whether a parent has been killed without its workers
    restarts, faults

vars == <<conf, parent, gen, file, mem, left, scored, alone, restarts, faults>>

(* A shard may have a worker of the running command and one of a command    *)
(* that was killed.                                                         *)
Gens == {<<Merged, "own">>} \cup (Shards \X {"own", "orphan"})
Idle == [pc |-> "idle", v |-> 1, resume |-> FALSE, group |-> 0]
Off == [pc |-> "off", v |-> 1, resume |-> FALSE, keep |-> [r \in Rows |-> 0], todo |-> {}]
Started(p) == [Off EXCEPT !.pc = "start", !.v = p.v, !.resume = p.resume]

(* shard_eval_indices.                                                      *)
RowsOf(f) == IF f = Merged THEN Rows ELSE {r \in Rows : (r - 1) % Workers = f - 1}
Least(S) == CHOOSE x \in S : \A y \in S : x <= y

(* validate_generated_record_protocols and _provenance: records of one      *)
(* version, which is the requested one; without records they raise.         *)
OnlyOf(n, v) == \A x \in Rows \X Versions : n[x] > 0 => x[2] = v
Valid(n, v) == n # NoRecords /\ OnlyOf(n, v)
Readable(f) == f.at = "text"

(* select_reusable_generated_records: one record for each expected row.     *)
Reusable(n, f, v) == [r \in Rows |-> IF r \in RowsOf(f) /\ n[<<r, v>>] > 0 THEN 1 ELSE 0]

(* validate_generated_record_coverage.                                      *)
Whole(n, v) == \A x \in Rows \X Versions : n[x] = IF x[2] = v THEN 1 ELSE 0

-----------------------------------------------------------------------------
(* generate_roundtrip_records: read what can be kept, empty the file, write *)
(* back what is kept, load the model, append a record per row.              *)
Begin(g) ==
    LET p == gen[g]  f == file[g[1]]
        kept == IF p.resume /\ f.at # "none" THEN Reusable(f.n, g[1], p.v) ELSE Off.keep
    IN /\ p.pc = "start"
       /\ p.resume /\ f.at # "none" => Readable(f) /\ Valid(f.n, p.v)
       /\ gen' = [gen EXCEPT ![g].pc = "clear", ![g].keep = kept,
                             ![g].todo = {r \in RowsOf(g[1]) : kept[r] = 0}]
       /\ UNCHANGED <<conf, parent, file, mem, left, scored, alone, restarts, faults>>

BeginRefuses(g) ==
    LET p == gen[g]  f == file[g[1]]
    IN /\ p.pc = "start"
       /\ p.resume /\ f.at # "none" /\ ~(Readable(f) /\ Valid(f.n, p.v))
       /\ gen' = [gen EXCEPT ![g] = [Off EXCEPT !.pc = IF g[2] = "own" THEN "failed" ELSE "off"]]
       /\ UNCHANGED <<conf, parent, file, mem, left, scored, alone, restarts, faults>>

Clear(g) ==
    /\ gen[g].pc = "clear"
    /\ file' = [file EXCEPT ![g[1]] = Empty]
    /\ gen' = [gen EXCEPT ![g].pc = "write"]
    /\ UNCHANGED <<conf, parent, mem, left, scored, alone, restarts, faults>>

(* The records are opened, appended to and closed one at a time, so that a  *)
(* file that was removed meanwhile is there again.                          *)
ToKeep(g) == {r \in Rows : gen[g].keep[r] > 0}
Appended(f, x, k) == [at |-> IF f.at = "torn" THEN "torn" ELSE "text", n |-> [f.n EXCEPT ![x] = @ + k]]

AppendRow(g) ==
    LET keep == ToKeep(g)
        r == Least(IF keep # {} THEN keep ELSE gen[g].todo)
    IN /\ gen[g].pc = "write" /\ keep \cup gen[g].todo # {}
       /\ file' = [file EXCEPT ![g[1]] =
                      Appended(@, <<r, gen[g].v>>, IF keep # {} THEN gen[g].keep[r] ELSE 1)]
       /\ gen' = IF keep # {} THEN [gen EXCEPT ![g].keep[r] = 0]
                 ELSE [gen EXCEPT ![g].todo = @ \ {r}]
       /\ UNCHANGED <<conf, parent, mem, left, scored, alone, restarts, faults>>

Finish(g) ==
    /\ gen[g].pc = "write" /\ ToKeep(g) \cup gen[g].todo = {}
    /\ gen' = [gen EXCEPT ![g] = [Off EXCEPT !.pc = IF g[2] = "own" THEN "done" ELSE "off"]]
    /\ UNCHANGED <<conf, parent, file, mem, left, scored, alone, restarts, faults>>

(* Whoever is killed may leave a line of the file it writes cut off: at     *)
(* most one file here.                                                      *)
Writing(g) == gen[g].pc = "write" /\ ToKeep(g) \cup gen[g].todo # {}
Merging == {f \in {Merged} : parent.pc = "write" /\ left # {}}
Torn(S) == \/ UNCHANGED file
           \/ \E f \in S : file' = [file EXCEPT ![f].at = "torn"]

(* A worker runs out of memory, say.                                        *)
Fail(g) ==
    /\ gen[g].pc \in {"start", "clear", "write"} /\ faults < MaxFaults
    /\ faults' = faults + 1
    /\ gen' = [gen EXCEPT ![g] = [Off EXCEPT !.pc = IF g[2] = "own" THEN "failed" ELSE "off"]]
    /\ Torn({f \in {g[1]} : Writing(g)})
    /\ UNCHANGED <<conf, parent, mem, left, scored, alone, restarts>>

-----------------------------------------------------------------------------
(* generate_roundtrip_records_with_workers.  A merged file that is there is *)
(* resumed by the command itself, whatever the shards hold.                 *)
Group(i) == {k \in Shards : (k - 1) \div Parallel = i}
WithGroup(p) == [g \in Gens |-> IF g[1] \in Group(p.group) /\ g[2] = "own" THEN Started(p) ELSE
                                IF g[2] = "own" THEN Off ELSE gen[g]]
Removed == [f \in Files |-> IF f \in Shards THEN NoFile ELSE file[f]]

Launch(resume) ==
    LET self == Workers = 1 \/ (resume /\ file[Merged].at # "none")
        p == [pc |-> IF self THEN "self" ELSE "group", v |-> conf, resume |-> resume, group |-> 0]
    IN /\ parent.pc = "idle"
       /\ parent' = p
       /\ gen' = IF self THEN [gen EXCEPT ![<<Merged, "own">>] = Started(p)] ELSE WithGroup(p)
       /\ file' = IF self \/ resume THEN file ELSE Removed
       /\ UNCHANGED <<conf, mem, left, scored, alone, faults>>

IsScored(v) == scored.v = v
Resume == ~IsScored(conf) /\ Launch(TRUE) /\ UNCHANGED restarts
Restart == restarts < MaxRestarts /\ restarts' = restarts + 1 /\ Launch(FALSE)

(* A launch with --resume-generated is refused, and so is every later one:  *)
(* a file it resumes from is without a record (a kill before the first      *)
(* one), cut off in a line, or has records of another version.  Whoever     *)
(* sees this launches once without the flag.                                *)
Refused == \E f \in (IF file[Merged].at # "none" THEN {Merged} ELSE Shards) :
              file[f].at # "none" /\ ~(Readable(file[f]) /\ Valid(file[f].n, conf))
Anew == /\ ~IsScored(conf) /\ Refused /\ \A g \in Gens : gen[g].pc = "off"
        /\ Launch(FALSE) /\ UNCHANGED restarts

Own(f) == gen[<<f, "own">>]
(* Bug: a worker counts as over when it ends with success.                  *)
BugEnded(S) == \A f \in S : Own(f).pc = "done"
Ended(S) == \A f \in S : Own(f).pc \in {"done", "failed"}
(* Bug: a group of workers is good when one of them is.                     *)
BugGood(S) == \E f \in S : Own(f).pc = "done"
Good(S) == \A f \in S : Own(f).pc = "done"
NoOwn == [g \in Gens |-> IF g[2] = "own" THEN Off ELSE gen[g]]

GroupEnds ==
    /\ parent.pc = "group" /\ Ended(Group(parent.group)) /\ Good(Group(parent.group))
    /\ LET next == [parent EXCEPT !.group = @ + 1]
       IN IF Group(next.group) # {} THEN parent' = next /\ gen' = WithGroup(next)
          ELSE parent' = [parent EXCEPT !.pc = "merge"] /\ gen' = NoOwn
    /\ UNCHANGED <<conf, file, mem, left, scored, alone, restarts, faults>>

(* The command is over: by an exception, or after the scoring.              *)
Leave == /\ parent' = Idle /\ mem' = NoRecords /\ left' = {} /\ gen' = NoOwn

GivesUp(S) == Ended(S) /\ ~Good(S)
GenerationFails ==
    /\ \/ parent.pc = "group" /\ GivesUp(Group(parent.group))
       \/ parent.pc = "self" /\ GivesUp({Merged})
    /\ Leave
    /\ UNCHANGED <<conf, file, scored, alone, restarts, faults>>

(* merge_generated_shards: all records of all shards, then written to the   *)
(* merged file in the order of the rows.                                    *)
Joined == [x \in Rows \X Versions |-> LET k == CHOOSE k \in Shards : x[1] \in RowsOf(k)
                                      IN file[k].n[x]]
MergeReads ==
    /\ parent.pc = "merge" /\ \A k \in Shards : file[k].at # "torn"
    /\ mem' = Joined /\ left' = {r \in Rows : \E v \in Versions : Joined[<<r, v>>] > 0}
    /\ file' = [file EXCEPT ![Merged] = Empty]
    /\ parent' = [parent EXCEPT !.pc = "write"]
    /\ UNCHANGED <<conf, gen, scored, alone, restarts, faults>>
MergeFails ==
    /\ parent.pc = "merge" /\ \E k \in Shards : file[k].at = "torn"
    /\ Leave
    /\ UNCHANGED <<conf, file, scored, alone, restarts, faults>>
MergeWrites ==
    /\ parent.pc = "write"
    /\ IF left = {} THEN parent' = [parent EXCEPT !.pc = "check"] /\ UNCHANGED <<file, left>>
       ELSE LET r == Least(left)
            IN /\ file' = [file EXCEPT ![Merged].n =
                              [x \in Rows \X Versions |-> IF x[1] = r THEN mem[x] ELSE @[x]]]
               /\ left' = left \ {r} /\ UNCHANGED parent
    /\ UNCHANGED <<conf, gen, mem, scored, alone, restarts, faults>>

(* The parent alone has its records in memory when it is done.              *)
SelfEnds ==
    /\ parent.pc = "self" /\ Good({Merged})
    /\ mem' = [x \in Rows \X Versions |-> IF x[2] = parent.v THEN 1 ELSE 0]
    /\ parent' = [parent EXCEPT !.pc = "check"] /\ gen' = NoOwn
    /\ UNCHANGED <<conf, file, left, scored, alone, restarts, faults>>

(* main checks one protocol and provenance and reports the generation; the  *)
(* scoring command reads the file, checks both again and the coverage.      *)
Report ==
    /\ parent.pc = "check" /\ Valid(mem, parent.v)
    /\ parent' = [parent EXCEPT !.pc = "score"] /\ mem' = NoRecords
    /\ UNCHANGED <<conf, gen, file, left, scored, alone, restarts, faults>>
Score ==
    /\ parent.pc = "score" /\ Readable(file[Merged])
    /\ Valid(file[Merged].n, parent.v) /\ Whole(file[Merged].n, parent.v)
    /\ scored' = [v |-> parent.v, n |-> file[Merged].n]
    /\ Leave
    /\ UNCHANGED <<conf, file, alone, restarts, faults>>
Refuse ==
    /\ \/ parent.pc = "check" /\ ~Valid(mem, parent.v)
       \/ parent.pc = "score" /\ ~(/\ Readable(file[Merged]) /\ Valid(file[Merged].n, parent.v)
                                   /\ Whole(file[Merged].n, parent.v))
    /\ Leave
    /\ UNCHANGED <<conf, file, scored, alone, restarts, faults>>

-----------------------------------------------------------------------------
(* The machine stops.                                                       *)
Kill ==
    /\ faults < MaxFaults /\ faults' = faults + 1
    /\ parent.pc # "idle" /\ parent' = Idle /\ mem' = NoRecords /\ left' = {}
    /\ gen' = [g \in Gens |-> Off] /\ Torn(Merging \cup {g[1] : g \in {h \in Gens : Writing(h)}})
    /\ UNCHANGED <<conf, scored, alone, restarts>>

(* The command alone is killed; its workers go on.  One generation of them  *)
(* at a time.                                                               *)
Outlive == [g \in Gens |->
               IF g[2] = "orphan" /\ Own(g[1]).pc \in {"start", "clear", "write"} THEN Own(g[1]) ELSE Off]
KillParent ==
    /\ faults < MaxFaults /\ faults' = faults + 1
    /\ parent.pc # "idle" /\ parent' = Idle /\ mem' = NoRecords /\ left' = {}
    /\ IF parent.pc = "group"
       THEN /\ \A k \in Shards : gen[<<k, "orphan">>].pc = "off"
            /\ gen' = Outlive /\ alone' = TRUE
       ELSE gen' = NoOwn /\ UNCHANGED alone
    /\ Torn(Merging \cup {f \in {Merged} : Writing(<<f, "own">>)})
    /\ UNCHANGED <<conf, scored, restarts>>

(* Another checkpoint, prompt or data set is configured for these files.    *)
Edit == /\ conf + 1 \in Versions /\ conf' = conf + 1 /\ parent.pc = "idle"
        /\ UNCHANGED <<parent, gen, file, mem, left, scored, alone, restarts, faults>>

Init ==
    /\ conf = 1 /\ parent = Idle /\ gen = [g \in Gens |-> Off]
    /\ file = [f \in Files |-> NoFile] /\ mem = NoRecords /\ left = {}
    /\ scored = [v |-> 0, n |-> NoRecords] /\ alone = FALSE /\ restarts = 0 /\ faults = 0

Generate(g) == Begin(g) \/ BeginRefuses(g) \/ Clear(g) \/ AppendRow(g) \/ Finish(g)
Parent == \/ GroupEnds \/ GenerationFails \/ MergeReads \/ MergeFails \/ MergeWrites
          \/ SelfEnds \/ Report \/ Score \/ Refuse
Next == \/ Parent \/ Resume \/ Restart \/ Anew \/ Kill \/ KillParent \/ Edit
        \/ \E g \in Gens : Generate(g) \/ Fail(g)

Spec == Init /\ [][Next]_vars
FairSpec == /\ Spec /\ WF_vars(Parent) /\ WF_vars(Resume) /\ SF_vars(Anew)
            /\ \A g \in Gens : WF_vars(Generate(g))

-----------------------------------------------------------------------------
TypeOK ==
    /\ conf \in Versions
    /\ parent \in [pc : {"idle", "self", "group", "merge", "write", "check", "score"},
                   v : Versions, resume : BOOLEAN, group : Nat]
    /\ gen \in [Gens -> [pc : {"off", "start", "clear", "write", "done", "failed"}, v : Versions,
                         resume : BOOLEAN, keep : [Rows -> Nat], todo : SUBSET Rows]]
    /\ file \in [Files -> [at : {"none", "text", "torn"}, n : Records]]
    /\ mem \in Records /\ left \subseteq Rows
    /\ scored \in [v : {0} \cup Versions, n : Records] /\ alone \in BOOLEAN
    /\ restarts \in 0 .. MaxRestarts /\ faults \in 0 .. MaxFaults

(* The scoring command is handed a file with exactly one record of every    *)
(* selected row under the requested protocol, whatever was kept, lost or    *)
(* written again by earlier launches, unless workers outlived one of them;  *)
(* what those leave is never scored.                                        *)
ScoredIsWhole ==
    /\ parent.pc = "score" /\ ~alone => Readable(file[Merged]) /\ Whole(file[Merged].n, parent.v)
    /\ scored.v # 0 => Whole(scored.n, scored.v)

(* Launch after launch comes to a scored report, whatever was killed, cut   *)
(* off or left by other launches: those with --resume-generated, and one    *)
(* without it when a file is refused (records that are incomplete are not   *)
(* ignored then, as docs/experiment_logbook.md:3486-3488 has it; resuming   *)
(* alone would be refused for ever).  No file they all accept keeps them    *)
(* from it.                                                                 *)
ResumeFinishes == []<>IsScored(conf)
=============================================================================
