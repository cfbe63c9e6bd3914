------------------------------ MODULE DomainEval ------------------------------
(***************************************************************************)
(* scripts/nano_domain_eval_queue.py runs the six phases of a safety-domain *)
(* evaluation and keeps its progress in queue_state.json; the commands it   *)
(* starts, scripts/nano_domain_eval.py, read and write files that carry     *)
(* their own hashes.  Several chains (the RL and the SFT checkpoint of      *)
(* configs/nano_safety) have states and descriptions of their own but share *)
(* one manifest and one extraction, and nothing but those hashes says which *)
(* run a file is from.                                                      *)
(***************************************************************************)
EXTENDS Naturals, Sequences, FiniteSets

CONSTANTS
    Chains,           \* the configurations, one per AV checkpoint
    Base,             \* the chain in whose directory the shared files lie
    Splits,           \* the workers of the extract, describe and behavior phases
    Prompts,          \* Prompts[v]: the cases in version v of the configuration
    Boundary,         \* Boundary[v]: its extraction boundary
    None,             \* no file, no content
    MaxChainRestarts, \* bound on launches with --no-resume or --reuse-through
    MaxChainFaults    \* bound on failing commands, kills and reboots

Configurations == DOMAIN Prompts
All == "all"
Commands == Splits \cup {All}

ASSUME BaseAssumption == Base \in Chains
ASSUME SplitAssumption == IsFiniteSet(Splits) /\ Splits # {} /\ All \notin Splits
ASSUME ConfigAssumption == /\ Prompts \in Seq(Nat) /\ Boundary \in Seq(Nat)
                           /\ Len(Prompts) > 0 /\ Len(Boundary) = Len(Prompts)
ASSUME ChainBoundAssumption == MaxChainRestarts \in Nat /\ MaxChainFaults \in Nat

Phases == <<"build-manifest", "prepare-av", "extract", "describe", "behavior", "analyze">>
Names == {Phases[i] : i \in DOMAIN Phases}
Artifacts == Names \ {"prepare-av"}
Sharded == {"extract", "describe", "behavior"}

(* The state document: the version it was begun with (config_sha256), its   *)
(* status and one per phase.  None: queue_state.json does not exist.        *)
(* borrowed is a note of the specification, not in the document: a launch   *)
(* reused a manifest of other prompts than the configured ones for it.      *)
State == [version : Configurations, status : {"pending", "running", "failed", "complete"},
          phase : [Names -> {"pending", "running", "failed", "complete"}], borrowed : BOOLEAN]
NewState(v) == [version |-> v, status |-> "pending", phase |-> [p \in Names |-> "pending"],
                borrowed |-> FALSE]

VARIABLES
    config,   \* the version of the configuration on disk
    disk,     \* disk[c]: queue_state.json of chain c
    run,      \* run[c]: its launcher: step, phase, state in memory
    job,      \* job[c][k]: command k of the phase: step, version and inputs it read
    data,     \* data[<<c, p, k>>]: the output file of command k of phase p
    rep,      \* rep[<<c, p, k>>]: the report beside it: hashes of output and inputs
    hf,       \* hf[c]: the converted AV checkpoint, on a memory file system
    chainRestarts, chainFaults

chainVars == <<config, disk, run, job, data, rep, hf, chainRestarts, chainFaults>>

NoRun == [pc |-> "idle", ph |-> "analyze", st |-> None]
NoJob == [pc |-> "off", v |-> 1, in |-> <<>>]
Wave(ks) == [k \in Commands |-> IF k \in ks THEN [NoJob EXCEPT !.pc = "ready"] ELSE NoJob]

(* The overlay configurations name the files of the base for the manifest   *)
(* and the activations, and files of their own for the rest.                *)
Owner(c, p) == IF p \in {"build-manifest", "extract"} THEN Base ELSE c
At(c, p, k) == <<Owner(c, p), p, k>>
File(c, p) == data[At(c, p, All)]

(* The inputs of a phase, which its report lists by hash.                   *)
Upstream(c, p) ==
    CASE p = "build-manifest" -> <<>>
      [] p = "extract" -> <<File(c, "build-manifest")>>
      [] p = "describe" -> <<File(c, "extract")>>
      [] p = "behavior" -> <<File(c, "build-manifest"), File(c, "extract")>>
      [] p = "analyze" -> <<File(c, "describe"), File(c, "behavior")>>

IsMerge(p, k) == p \in Sharded /\ k = All
Parts(c, p) == [s \in Splits |-> data[At(c, p, s)]]

(* What command k writes, having read in under version v.  A merge joins    *)
(* the parts; a part is made of what its phase computes.                    *)
Made(c, p, k, in, v) ==
    CASE IsMerge(p, k) -> in
      [] p = "build-manifest" -> [prompts |-> Prompts[v]]
      [] p = "extract" /\ k # All -> [prompts |-> in[1].prompts, boundary |-> Boundary[v]]
      [] p = "describe" /\ k # All -> [of |-> in[1], av |-> c]
      [] p = "behavior" /\ k # All -> [prompts |-> in[1].prompts]
      [] p = "analyze" -> [described |-> in[1], decided |-> in[2]]

(* merge-extract, merge-describe and merge-behavior compare every part's    *)
(* report with the part and with the inputs that are there now.             *)
PartIsGood(c, p, s) ==
    LET r == rep[At(c, p, s)]
    IN r # None /\ r.sum = data[At(c, p, s)] /\ r.up = Upstream(c, p)

(* Whether command k gets through its inputs: generation needs a whole AV   *)
(* checkpoint, behavior the prompts the activations were extracted from.    *)
Accepts(c, p, k) ==
    IF IsMerge(p, k) THEN \A s \in Splits : PartIsGood(c, p, s)
    ELSE /\ \A i \in DOMAIN Upstream(c, p) : Upstream(c, p)[i] # None
         /\ p = "describe" => hf[c] = "whole"
         /\ p = "behavior" => \A s \in Splits :
               File(c, "extract")[s].prompts = File(c, "build-manifest").prompts

-----------------------------------------------------------------------------
(* --reuse-through: phases that the launch marks complete on the evidence   *)
(* of reports, without running them.                                        *)
Matches(c, p) == LET r == rep[At(c, p, All)]
                 IN r # None /\ r.sum = File(c, p) /\ r.up = Upstream(c, p)
BugHasConfigJson(c) == hf[c] # "none"  \* bug: the directory counts
HasConfigJson(c) == hf[c] \in {"half", "whole"}
ReuseManifest(c) == Matches(c, "build-manifest")
BugReuseExtract(c) == ReuseManifest(c) /\ Matches(c, "extract")  \* bug: any boundary
ReuseExtract(c) == /\ ReuseManifest(c) /\ Matches(c, "extract")
                   /\ rep[At(c, "extract", All)].boundary = Boundary[config]

ReusableThrough(c, through) ==
    CASE through = "nothing" -> TRUE
      [] through = "prepare-av" -> ReuseManifest(c) /\ HasConfigJson(c)
      [] through = "extract" -> ReuseExtract(c)
      [] through = "describe" -> ReuseExtract(c) /\ Matches(c, "describe")

Reused(c, through) ==
    CASE through = "nothing" -> {}
      [] through = "prepare-av" -> {"build-manifest", "prepare-av"}
      [] OTHER -> {"build-manifest", "extract"}
                  \cup {p \in {"prepare-av"} : HasConfigJson(c)}
                  \cup {p \in {"describe"} : through = "describe"}

(* The state a launch begins with; --resume refuses the state of another    *)
(* configuration.                                                           *)
Resumable(c) == IF disk[c] = None THEN TRUE ELSE disk[c].version = config
Loaded(c, resume) ==
    IF resume /\ disk[c] # None THEN disk[c] ELSE NewState(config)

Marked(st, ps, status) ==
    [st EXCEPT !.phase = [p \in Names |-> IF p \in ps THEN status ELSE @[p]]]

(* Nothing tells prompts of one version from those of another.              *)
OtherPrompts(c) == File(c, "build-manifest").prompts # Prompts[config]
Noted(c, st, through) ==
    [st EXCEPT !.borrowed = @ \/ (through # "nothing" /\ OtherPrompts(c))]

(* One chain runs at a time, as in the logbook: nothing enforces it.        *)
MayLaunch == \A d \in Chains : run[d].pc = "idle"

LaunchChain(c, resume, through) ==
    LET st == Noted(c, Marked(Loaded(c, resume), Reused(c, through), "complete"), through)
    IN /\ MayLaunch
       /\ resume => Resumable(c)
       /\ ReusableThrough(c, through)
       /\ run' = [run EXCEPT ![c] = [pc |-> "next", ph |-> "analyze", st |-> st]]
       /\ disk' = IF through = "nothing" THEN disk ELSE [disk EXCEPT ![c] = st]
       /\ UNCHANGED <<config, job, data, rep, hf, chainFaults>>

(* The two launches: the plain one resumes, the other is a decision.        *)
ResumeChain(c) ==
    /\ disk[c] # None => disk[c].status # "complete"
    /\ LaunchChain(c, TRUE, "nothing")
    /\ UNCHANGED chainRestarts
RestartChain(c) ==
    /\ chainRestarts < MaxChainRestarts /\ chainRestarts' = chainRestarts + 1
    /\ \E resume \in BOOLEAN,
          through \in {"nothing", "prepare-av", "extract", "describe"} :
          LaunchChain(c, resume, through)

(* _record_phase writes the whole document with one phase changed.          *)
Recorded(st, p, status) ==
    [Marked(st, {p}, status) EXCEPT
        !.status = IF status = "failed" THEN "failed" ELSE "running"]
Record(c, p, status, pc) ==
    LET st == Recorded(run[c].st, p, status)
    IN /\ disk' = [disk EXCEPT ![c] = st]
       /\ run' = [run EXCEPT ![c] = IF pc = "idle" THEN NoRun
                                    ELSE [@ EXCEPT !.pc = pc, !.ph = p, !.st = st]]

ToDo(st) == {i \in DOMAIN Phases : st.phase[Phases[i]] # "complete"}

NextPhase(c) ==
    /\ run[c].pc = "next"
    /\ \E i \in ToDo(run[c].st) :
          LET p == Phases[i]
              pc == IF p = "prepare-av" THEN "convert"
                    ELSE IF p \in Sharded THEN "shards" ELSE "last"
          IN /\ \A j \in ToDo(run[c].st) : i <= j
             /\ Record(c, p, "running", pc)
             /\ job' = [job EXCEPT ![c] = Wave(CASE pc = "shards" -> Splits
                                                 [] pc = "last" -> {All}
                                                 [] OTHER -> {})]
    /\ UNCHANGED <<config, data, rep, hf, chainRestarts, chainFaults>>

-----------------------------------------------------------------------------
(* prepare_av_checkpoint: config.json counts as a converted checkpoint;     *)
(* without one the directory is removed and converted in place.  The        *)
(* converter leaves config.json before the last files.                      *)
Converting(h) == CASE h = "none" -> "partial" [] h = "partial" -> "half" [] h = "half" -> "whole"

Convert(c) ==
    /\ run[c].pc \in {"convert", "converting"}
    /\ hf[c] # "whole"
    /\ run[c].pc = "convert" => ~HasConfigJson(c)
    /\ hf' = [hf EXCEPT ![c] = IF run[c].pc = "convert" THEN "partial" ELSE Converting(@)]
    /\ run' = [run EXCEPT ![c].pc = "converting"]
    /\ UNCHANGED <<config, disk, job, data, rep, chainRestarts, chainFaults>>

Prepared(c) ==
    /\ \/ run[c].pc = "convert" /\ HasConfigJson(c)
       \/ run[c].pc = "converting" /\ hf[c] = "whole"
    /\ Record(c, "prepare-av", "complete", "next")
    /\ UNCHANGED <<config, job, data, rep, hf, chainRestarts, chainFaults>>

-----------------------------------------------------------------------------
(* A command loads the configuration and its inputs, computes, writes its   *)
(* output, and then a report for which it hashes the inputs once more.      *)
Read(c, k) ==
    LET p == run[c].ph
    IN /\ job[c][k].pc = "ready" /\ Accepts(c, p, k)
       /\ job' = [job EXCEPT ![c][k] =
             [pc |-> "read", v |-> config,
              in |-> IF IsMerge(p, k) THEN Parts(c, p) ELSE Upstream(c, p)]]
       /\ UNCHANGED <<config, disk, run, data, rep, hf, chainRestarts, chainFaults>>

Write(c, k) ==
    LET p == run[c].ph  j == job[c][k]
    IN /\ j.pc = "read"
       /\ data' = [data EXCEPT ![At(c, p, k)] = Made(c, p, k, j.in, j.v)]
       /\ job' = [job EXCEPT ![c][k].pc = "written"]
       /\ UNCHANGED <<config, disk, run, rep, hf, chainRestarts, chainFaults>>

WriteReport(c, k) ==
    LET p == run[c].ph  j == job[c][k]
    IN /\ j.pc = "written"
       /\ rep' = [rep EXCEPT ![At(c, p, k)] =
             [sum |-> data[At(c, p, k)], up |-> Upstream(c, p), boundary |-> Boundary[j.v]]]
       /\ job' = [job EXCEPT ![c][k] = [NoJob EXCEPT !.pc = "done"]]
       /\ UNCHANGED <<config, disk, run, data, hf, chainRestarts, chainFaults>>

(* A command that refuses its inputs, and one that fails for any reason.    *)
CommandRefuses(c, k) ==
    /\ job[c][k].pc = "ready" /\ ~Accepts(c, run[c].ph, k)
    /\ job' = [job EXCEPT ![c][k] = [NoJob EXCEPT !.pc = "failed"]]
    /\ UNCHANGED <<config, disk, run, data, rep, hf, chainRestarts, chainFaults>>
CommandFails(c, k) ==
    /\ job[c][k].pc \in {"ready", "read", "written"} /\ chainFaults < MaxChainFaults
    /\ chainFaults' = chainFaults + 1
    /\ job' = [job EXCEPT ![c][k] = [NoJob EXCEPT !.pc = "failed"]]
    /\ UNCHANGED <<config, disk, run, data, rep, hf, chainRestarts>>

(* _run_sharded_gpu_phase waits for all its workers and raises when one     *)
(* has exited with another code than 0; the merge follows.                  *)
PhaseEnded(c) == \A k \in Commands : job[c][k].pc \in {"off", "done", "failed"}
Succeeded(c) == \A k \in Commands : job[c][k].pc \in {"off", "done"}

Merge(c) ==
    /\ run[c].pc = "shards" /\ PhaseEnded(c) /\ Succeeded(c)
    /\ run' = [run EXCEPT ![c].pc = "last"]
    /\ job' = [job EXCEPT ![c] = Wave({All})]
    /\ UNCHANGED <<config, disk, data, rep, hf, chainRestarts, chainFaults>>

EndPhase(c) ==
    /\ run[c].pc \in {"shards", "last"} /\ PhaseEnded(c)
    /\ \/ run[c].pc = "last" /\ Succeeded(c) /\ Record(c, run[c].ph, "complete", "next")
       \/ ~Succeeded(c) /\ Record(c, run[c].ph, "failed", "idle")
    /\ job' = [job EXCEPT ![c] = Wave({})]
    /\ UNCHANGED <<config, data, rep, hf, chainRestarts, chainFaults>>

(* All phases complete: the checkpoint is removed, then the state says so.  *)
CleanUp(c) ==
    /\ run[c].pc = "next" /\ ToDo(run[c].st) = {} /\ hf[c] # "none"
    /\ hf' = [hf EXCEPT ![c] = IF @ = "whole" THEN "half" ELSE "none"]
    /\ UNCHANGED <<config, disk, run, job, data, rep, chainRestarts, chainFaults>>
FinishChain(c) ==
    /\ run[c].pc = "next" /\ ToDo(run[c].st) = {} /\ hf[c] = "none"
    /\ disk' = [disk EXCEPT ![c] = [run[c].st EXCEPT !.status = "complete"]]
    /\ run' = [run EXCEPT ![c] = NoRun]
    /\ UNCHANGED <<config, job, data, rep, hf, chainRestarts, chainFaults>>

-----------------------------------------------------------------------------
(* The operator edits the configuration while no chain runs.                *)
EditConfig ==
    /\ config + 1 \in Configurations /\ MayLaunch
    /\ config' = config + 1
    /\ UNCHANGED <<disk, run, job, data, rep, hf, chainRestarts, chainFaults>>

(* A chain is killed with its commands; a reboot also empties memory.       *)
KillChain(c) ==
    /\ chainFaults < MaxChainFaults /\ chainFaults' = chainFaults + 1
    /\ run[c].pc # "idle"
    /\ run' = [run EXCEPT ![c] = NoRun]
    /\ job' = [job EXCEPT ![c] = Wave({})]
    /\ UNCHANGED <<config, disk, data, rep, hf, chainRestarts>>
Reboot ==
    /\ chainFaults < MaxChainFaults /\ chainFaults' = chainFaults + 1
    /\ run' = [c \in Chains |-> NoRun]
    /\ job' = [c \in Chains |-> Wave({})]
    /\ hf' = [c \in Chains |-> "none"]
    /\ UNCHANGED <<config, disk, data, rep, chainRestarts>>

Slots == {<<o, p, k>> : o \in Chains, p \in Artifacts, k \in Commands}

ChainInit ==
    /\ config = 1
    /\ disk = [c \in Chains |-> None]
    /\ run = [c \in Chains |-> NoRun]
    /\ job = [c \in Chains |-> Wave({})]
    /\ data = [x \in Slots |-> None]
    /\ rep = [x \in Slots |-> None]
    /\ hf = [c \in Chains |-> "none"]
    /\ chainRestarts = 0 /\ chainFaults = 0

Command(c, k) == Read(c, k) \/ Write(c, k) \/ WriteReport(c, k) \/ CommandRefuses(c, k)
Step(c) == \/ NextPhase(c) \/ Convert(c) \/ Prepared(c) \/ Merge(c) \/ EndPhase(c)
           \/ CleanUp(c) \/ FinishChain(c) \/ \E k \in Commands : Command(c, k)
ChainNext ==
    \/ \E c \in Chains : \/ Step(c) \/ ResumeChain(c) \/ RestartChain(c) \/ KillChain(c)
                         \/ \E k \in Commands : CommandFails(c, k)
    \/ EditConfig \/ Reboot

ChainSpec == ChainInit /\ [][ChainNext]_chainVars
FairChainSpec == /\ ChainSpec
                 /\ \A c \in Chains : WF_chainVars(Step(c)) /\ SF_chainVars(ResumeChain(c))

-----------------------------------------------------------------------------
ChainTypeOK ==
    /\ config \in Configurations
    /\ disk \in [Chains -> State \cup {None}]
    /\ \A c \in Chains : /\ run[c].pc \in {"idle", "next", "convert", "converting", "shards", "last"}
                         /\ run[c].ph \in Names
                         /\ run[c].pc # "idle" => run[c].st \in State
    /\ \A c \in Chains, k \in Commands :
          job[c][k].pc \in {"off", "ready", "read", "written", "done", "failed"}
    /\ DOMAIN data = Slots /\ DOMAIN rep = Slots
    /\ hf \in [Chains -> {"none", "partial", "half", "whole"}]
    /\ chainRestarts \in 0..MaxChainRestarts /\ chainFaults \in 0..MaxChainFaults

(* A chain whose state says complete has an analysis of its own             *)
(* configuration: descriptions by its own checkpoint, of one extraction at  *)
(* its boundary from one set of prompts, and decisions on one set.  These   *)
(* are its own prompts, unless it was launched with --reuse-through on a    *)
(* manifest of other prompts, which the reports do not tell apart.          *)
Complete(c) == disk[c] # None /\ disk[c].status = "complete"
CompletedIsOwn ==
    \A c \in Chains : Complete(c) =>
       LET a == File(c, "analyze")  v == disk[c].version
       IN \A s, t \in Splits :
             /\ a.described[s].av = c /\ a.described[s].of = a.described[t].of
             /\ a.described[s].of[t].boundary = Boundary[v]
             /\ a.described[s].of[s].prompts = a.described[s].of[t].prompts
             /\ a.decided[s].prompts = a.decided[t].prompts
             /\ ~disk[c].borrowed => /\ a.described[s].of[t].prompts = Prompts[v]
                                     /\ a.decided[t].prompts = Prompts[v]

(* Plain relaunches complete a chain, or else its state is of an earlier    *)
(* configuration, or the checkpoint it trusts was left without its last     *)
(* files by a kill, or lost with the memory of the machine.                 *)
Unprepared(c) ==
    /\ run[c].pc = "idle"
    /\ \/ hf[c] = "half"
       \/ hf[c] = "none" /\ disk[c] # None /\ disk[c].phase["prepare-av"] = "complete"
ChainFinishes ==
    \A c \in Chains : []<>(Complete(c) \/ ~Resumable(c) \/ Unprepared(c))
=============================================================================
