---------------------------- MODULE EvaluationProofs ----------------------------
(* Theorems about the evaluations: RoundtripGeneration, for any number of   *)
(* rows, workers, groups, versions, launches, failing workers and kills;    *)
(* and DomainEval, for any number of chains, shards, edits, launches of     *)
(* either kind, failing commands, kills and reboots.                        *)
EXTENDS RoundtripGeneration, DomainEval, TLAPS, WellFoundedInduction

-------------------------------------------------------------------------------
(* Round-trip generation.  The records of a file and of its generator.     *)
GenRec == [pc : {"off", "start", "clear", "write", "done", "failed"}, v : Versions,
           resume : BOOLEAN, keep : [Rows -> Nat], todo : SUBSET Rows]
FileRec == [at : {"none", "text", "torn"}, n : Records]
ParentRec == [pc : {"idle", "self", "group", "merge", "write", "check", "score"},
              v : Versions, resume : BOOLEAN, group : Nat]

(* The records file f is meant to hold: one of each of its rows, under the  *)
(* requested version.                                                       *)
Part(f, v) == [x \in Rows \X Versions |-> IF x[1] \in RowsOf(f) /\ x[2] = v THEN 1 ELSE 0]
Written(c, f, v) == c.at = "text" /\ c.n = Part(f, v)

(* What a generator has yet to write of a row, kept or new.                 *)
Pending(p, r) == p.keep[r] + IF r \in p.todo THEN 1 ELSE 0
Due(p, x) == IF x[2] = p.v THEN Pending(p, x[1]) ELSE 0

(* A generator p whose file has the content c: what it has written and what *)
(* it has yet to write make up its part, whatever was there when it began.  *)
WorkerOK(p, f, c, v) ==
    /\ p.pc \in {"start", "clear", "write"} => p.v = v
    /\ p.pc = "clear" => \A r \in Rows : Pending(p, r) = IF r \in RowsOf(f) THEN 1 ELSE 0
    /\ p.pc = "write" => /\ c.at = "text"
                         /\ \A x \in Rows \X Versions : c.n[x] + Due(p, x) = Part(f, v)[x]
    /\ p.pc = "done" => Written(c, f, v)

(* The generators of the running command, by the step it has reached.       *)
GroupOf(k) == (k - 1) \div Parallel
Busy(g) == \/ parent.pc = "self" /\ g = <<Merged, "own">>
           \/ parent.pc = "group" /\ g[2] = "own" /\ g[1] \in Group(parent.group)
ParentOK ==
    /\ parent.pc = "self" => WorkerOK(Own(Merged), Merged, file[Merged], parent.v)
    /\ parent.pc = "group" =>
          /\ \A k \in Group(parent.group) : WorkerOK(Own(k), k, file[k], parent.v)
          /\ \A k \in Shards : GroupOf(k) < parent.group => Written(file[k], k, parent.v)
    /\ parent.pc = "merge" => \A k \in Shards : Written(file[k], k, parent.v)
    /\ parent.pc = "write" =>
          /\ mem = Part(Merged, parent.v) /\ file[Merged].at = "text"
          /\ \A x \in Rows \X Versions : file[Merged].n[x] = IF x[1] \in left THEN 0 ELSE mem[x]
    /\ parent.pc \in {"check", "score"} => Written(file[Merged], Merged, parent.v)
Sound == (\A g \in Gens : gen[g].pc # "off" => Busy(g)) /\ ParentOK

ScoredOK == scored.v # 0 => Whole(scored.n, scored.v)
IInv == TypeOK /\ (alone \/ Sound) /\ ScoredOK

-----------------------------------------------------------------------------
(* The least member of a set of rows, which Least chooses, exists.          *)
LEMMA Minimum ==
    ASSUME NEW S, S \subseteq Nat, S # {}
    PROVE  \E x \in S : \A y \in S : x <= y
  <1> DEFINE Lt == {p \in Nat \X Nat : p[1] < p[2]}
  <1>1. IsWellFoundedOn(Lt, Nat)
    BY NatLessThanWellFounded DEF OpToRel
  <1>2. \A x, y \in Nat : x < y => <<x, y>> \in Lt
    OBVIOUS
  <1> HIDE DEF Lt
  <1>3. PICK x \in S : \A y \in S : ~ (<<y, x>> \in Lt)
    BY <1>1, WFMin
  <1>4. \A y \in S : ~ (y < x)
    BY <1>2, <1>3
  <1> QED
    BY <1>4

LEMMA LeastIn ==
    ASSUME NEW S, S \subseteq Rows, S # {} PROVE Least(S) \in S
  <1>1. S \subseteq Nat
    BY DEF Rows
  <1>2. \E x \in S : \A y \in S : x <= y
    BY <1>1, Minimum
  <1> QED
    BY <1>2 DEF Least

LEMMA Constants ==
    /\ Workers \in Nat /\ Workers > 0 /\ R \in Nat /\ Parallel \in Nat /\ Parallel > 0
    /\ Rows \subseteq Nat /\ Shards \subseteq Nat /\ Merged \notin Shards
    /\ Merged \in Files /\ Shards \subseteq Files
    /\ 1 \in Versions /\ 0 \notin Versions
    /\ MaxRestarts \in Nat /\ MaxFaults \in Nat
  BY WorkerAssumption, ParallelAssumption, VersionAssumption, BoundAssumption
  DEF Rows, Shards, Merged, Files, Versions

LEMMA GenFacts ==
    /\ <<Merged, "own">> \in Gens
    /\ \A k \in Shards : <<k, "own">> \in Gens /\ <<k, "orphan">> \in Gens
    /\ \A g \in Gens : /\ g = <<g[1], g[2]>> /\ g[1] \in Files /\ g[2] \in {"own", "orphan"}
                       /\ g[2] = "orphan" => g[1] \in Shards
                       /\ g[1] \in Shards \/ g = <<Merged, "own">>
  BY DEF Gens, Files

(* Every row is in exactly one shard (shard_eval_indices).                  *)
LEMMA RowsPartition ==
    \A r \in Rows : /\ \E k \in Shards : r \in RowsOf(k)
                    /\ \A k, m \in Shards : r \in RowsOf(k) /\ r \in RowsOf(m) => k = m
  <1> TAKE r \in Rows
  <1>1. r \in Nat /\ r >= 1 /\ Workers \in Nat \ {0}
    BY WorkerAssumption DEF Rows
  <1> DEFINE k == ((r - 1) % Workers) + 1
  <1>2. (r - 1) % Workers \in 0 .. (Workers - 1)
    BY <1>1
  <1>3. k \in Shards /\ k - 1 = (r - 1) % Workers
    BY <1>1, <1>2 DEF Shards
  <1> HIDE DEF k
  <1>4. r \in RowsOf(k)
    BY <1>3, Constants DEF RowsOf
  <1>5. \A j, m \in Shards : r \in RowsOf(j) /\ r \in RowsOf(m) => j = m
    BY Constants, <1>2 DEF RowsOf
  <1> QED
    BY <1>3, <1>4, <1>5

(* When a group has no workers, no later group has.                         *)
LEMMA LastGroup ==
    ASSUME NEW i \in Nat, Group(i) = {}
    PROVE  \A k \in Shards : GroupOf(k) < i
  <1> TAKE k \in Shards
  <1>1. k \in Nat /\ k >= 1 /\ k <= Workers /\ Parallel \in Nat \ {0} /\ Workers \in Nat
    BY WorkerAssumption, ParallelAssumption DEF Shards
  <1> SUFFICES ASSUME ~(GroupOf(k) < i) PROVE FALSE
    OBVIOUS
  <1> DEFINE q == (k - 1) \div Parallel
             m == i * Parallel
  <1>2. q \in Nat /\ k - 1 = Parallel * q + ((k - 1) % Parallel) /\ ((k - 1) % Parallel) >= 0
    BY <1>1
  <1>3. q >= i
    BY <1>2 DEF GroupOf
  <1>4. m \in Nat /\ Parallel * q >= m
    BY <1>1, <1>2, <1>3
  <1>5. m + 1 \in Shards
    BY <1>1, <1>2, <1>4 DEF Shards
  <1>6. ((m + 1) - 1) \div Parallel = i
    <2> DEFINE d == m \div Parallel
               e == m % Parallel
    <2>1. d \in Nat /\ e \in Nat /\ e < Parallel /\ m = Parallel * d + e
      BY <1>1, <1>4
    <2> HIDE DEF d, e
    <2>2. m = Parallel * i
      BY <1>1
    <2> HIDE DEF m
    <2>3. ASSUME d < i PROVE FALSE
      <3>1. Parallel * i >= Parallel * (d + 1)
        BY <1>1, <2>1, <2>3
      <3>2. Parallel * (d + 1) = Parallel * d + Parallel
        BY <1>1, <2>1
      <3> QED
        BY <1>1, <1>4, <2>1, <2>2, <3>1, <3>2
    <2>4. ASSUME d > i PROVE FALSE
      <3>1. Parallel * d >= Parallel * (i + 1)
        BY <1>1, <2>1, <2>4
      <3>2. Parallel * (i + 1) = Parallel * i + Parallel
        BY <1>1
      <3> QED
        BY <1>1, <1>4, <2>1, <2>2, <3>1, <3>2
    <2>5. d = i
      BY <2>1, <2>3, <2>4, SMT
    <2>6. (m + 1) - 1 = m
      BY <1>4
    <2> QED
      BY <2>5, <2>6 DEF d
  <1> QED
    BY <1>5, <1>6 DEF Group

LEMMA Shapes ==
    /\ NoRecords \in Records /\ Empty \in FileRec /\ NoFile \in FileRec
    /\ Off \in GenRec /\ Off.pc = "off" /\ Idle \in ParentRec
    /\ \A p \in ParentRec : /\ Started(p) \in GenRec
                            /\ Started(p).pc = "start" /\ Started(p).v = p.v
    /\ \A pc \in {"done", "failed", "off"} : [Off EXCEPT !.pc = pc] \in GenRec
                                             /\ [Off EXCEPT !.pc = pc].pc = pc
    /\ \A f, v : Part(f, v) \in Records
  <1>1. NoRecords \in Records
    BY DEF NoRecords, Records
  <1>2. Off \in GenRec
    BY Constants DEF Off, GenRec
  <1>3. Empty \in FileRec /\ NoFile \in FileRec
    BY <1>1 DEF Empty, NoFile, FileRec
  <1>4. Idle \in ParentRec
    BY Constants DEF Idle, ParentRec
  <1>5. \A p \in ParentRec : Started(p) \in GenRec /\ Started(p).pc = "start" /\ Started(p).v = p.v
    BY <1>2 DEF Started, Off, GenRec, ParentRec
  <1>6. \A pc \in {"done", "failed", "off"} : [Off EXCEPT !.pc = pc] \in GenRec
                                              /\ [Off EXCEPT !.pc = pc].pc = pc
    BY <1>2 DEF Off, GenRec
  <1>7. \A f, v : Part(f, v) \in Records
    BY DEF Part, Records
  <1> QED
    BY <1>1, <1>2, <1>3, <1>4, <1>5, <1>6, <1>7 DEF Off

LEMMA Types ==
    ASSUME IInv
    PROVE  /\ conf \in Versions /\ parent \in ParentRec /\ gen \in [Gens -> GenRec]
           /\ file \in [Files -> FileRec] /\ mem \in Records /\ left \subseteq Rows
           /\ alone \in BOOLEAN /\ restarts \in 0 .. MaxRestarts /\ faults \in 0 .. MaxFaults
           /\ scored \in [v : {0} \cup Versions, n : Records]
           /\ parent.pc \in {"idle", "self", "group", "merge", "write", "check", "score"}
           /\ parent.v \in Versions /\ parent.group \in Nat
           /\ \A g \in Gens : /\ gen[g].v \in Versions /\ gen[g].keep \in [Rows -> Nat]
                              /\ gen[g].todo \subseteq Rows
           /\ \A f \in Files : file[f].n \in Records /\ file[f].at \in {"none", "text", "torn"}
  <1>1. /\ parent \in ParentRec /\ gen \in [Gens -> GenRec] /\ file \in [Files -> FileRec]
        /\ conf \in Versions /\ mem \in Records /\ left \subseteq Rows
        /\ alone \in BOOLEAN /\ restarts \in 0 .. MaxRestarts /\ faults \in 0 .. MaxFaults
        /\ scored \in [v : {0} \cup Versions, n : Records]
    BY DEF IInv, TypeOK, ParentRec, GenRec, FileRec
  <1>2. \A g \in Gens : /\ gen[g].v \in Versions /\ gen[g].keep \in [Rows -> Nat]
                        /\ gen[g].todo \subseteq Rows
    BY <1>1 DEF GenRec
  <1>3. \A f \in Files : file[f].n \in Records /\ file[f].at \in {"none", "text", "torn"}
    BY <1>1 DEF FileRec
  <1>4. /\ parent.pc \in {"idle", "self", "group", "merge", "write", "check", "score"}
        /\ parent.v \in Versions /\ parent.group \in Nat
    BY <1>1 DEF ParentRec
  <1> QED
    BY <1>1, <1>2, <1>3, <1>4

LEMMA MakeTypes ==
    ASSUME conf' \in Versions, parent' \in ParentRec, gen' \in [Gens -> GenRec],
           file' \in [Files -> FileRec], mem' \in Records, left' \subseteq Rows,
           scored' \in [v : {0} \cup Versions, n : Records], alone' \in BOOLEAN,
           restarts' \in 0 .. MaxRestarts, faults' \in 0 .. MaxFaults
    PROVE  TypeOK'
  BY DEF TypeOK, ParentRec, GenRec, FileRec

LEMMA InitInv == Init => IInv
  <1> SUFFICES ASSUME Init PROVE IInv
    OBVIOUS
  <1>1. gen \in [Gens -> GenRec] /\ file \in [Files -> FileRec] /\ parent \in ParentRec
    BY Shapes DEF Init
  <1>2. scored \in [v : {0} \cup Versions, n : Records] /\ scored.v = 0
    BY Shapes DEF Init
  <1>3. restarts \in 0 .. MaxRestarts /\ faults \in 0 .. MaxFaults
    BY Constants DEF Init
  <1>4. TypeOK
    BY <1>1, <1>2, <1>3, Shapes, Constants DEF Init, TypeOK, ParentRec, GenRec, FileRec
  <1>5. Sound
    <2>1. \A g \in Gens : gen[g].pc = "off"
      BY Shapes DEF Init
    <2>2. parent.pc = "idle"
      BY DEF Init, Idle
    <2> QED
      BY <2>1, <2>2 DEF Sound, ParentOK
  <1> QED
    BY <1>2, <1>4, <1>5 DEF IInv, ScoredOK

-----------------------------------------------------------------------------
(* One generator takes a step, which may change the file it writes.         *)
LEMMA GenStep ==
    ASSUME IInv, NEW g \in Gens, NEW n \in GenRec, NEW c \in FileRec,
           gen[g].pc # "off", gen' = [gen EXCEPT ![g] = n],
           (UNCHANGED file /\ c = file[g[1]]) \/ file' = [file EXCEPT ![g[1]] = c],
           UNCHANGED <<conf, parent, mem, left, scored, alone, restarts>>,
           faults' \in 0 .. MaxFaults,
           WorkerOK(gen[g], g[1], file[g[1]], parent.v) => WorkerOK(n, g[1], c, parent.v)
    PROVE  IInv'
  <1>1. TypeOK'
    <2>1. gen' \in [Gens -> GenRec] /\ file' \in [Files -> FileRec]
      BY Types, GenFacts
    <2> QED
      BY <2>1, Types, MakeTypes
  <1>2. file'[g[1]] = c /\ \A f \in Files : f # g[1] => file'[f] = file[f]
    BY Types, GenFacts
  <1>3. gen'[g] = n /\ \A h \in Gens : h # g => gen'[h] = gen[h]
    BY Types
  <1>4. ASSUME Sound PROVE Sound'
    <2>0. Busy(g)
      BY <1>4 DEF Sound
    <2>1. \A h \in Gens : gen'[h].pc # "off" => Busy(h)'
      BY <1>3, <1>4, <2>0 DEF Sound, Busy
    <2>2. CASE parent.pc = "self"
      <3>1. g = <<Merged, "own">> /\ g[1] = Merged
        BY <2>0, <2>2 DEF Busy
      <3>2. WorkerOK(gen[g], g[1], file[g[1]], parent.v)
        BY <1>4, <2>2, <3>1 DEF Sound, ParentOK, Own
      <3>3. WorkerOK(Own(Merged), Merged, file[Merged], parent.v)'
        BY <1>2, <1>3, <3>1, <3>2 DEF Own
      <3> QED
        BY <2>1, <2>2, <3>3 DEF Sound, ParentOK
    <2>3. CASE parent.pc = "group"
      <3>1. g[2] = "own" /\ g[1] \in Group(parent.group) /\ g = <<g[1], "own">> /\ g[1] \in Shards
        BY <2>0, <2>3, GenFacts DEF Busy, Group
      <3>2. \A k \in Group(parent.group) : k \in Shards /\ <<k, "own">> \in Gens
        BY GenFacts DEF Group
      <3>3. ASSUME NEW k \in Group(parent.group)
            PROVE  WorkerOK(gen'[<<k, "own">>], k, file'[k], parent.v)
        <4>1. WorkerOK(gen[<<k, "own">>], k, file[k], parent.v)
          BY <1>4, <2>3, <3>3 DEF Sound, ParentOK, Own
        <4>2. CASE k = g[1]
          BY <1>2, <1>3, <3>1, <4>1, <4>2
        <4>3. CASE k # g[1]
          <5>1. <<k, "own">>[1] = k
            OBVIOUS
          <5>2. <<k, "own">> # g
            BY <4>3, <5>1
          <5>3. k \in Files
            BY <3>2, Constants
          <5> QED
            BY <1>2, <1>3, <3>2, <4>1, <4>3, <5>2, <5>3
        <4> QED
          BY <4>2, <4>3
      <3>4. ASSUME NEW k \in Shards, GroupOf(k) < parent.group PROVE Written(file'[k], k, parent.v)
        <4>1. k # g[1] /\ k \in Files
          <5>1. GroupOf(g[1]) = parent.group
            BY <3>1 DEF Group, GroupOf
          <5> QED
            BY <3>4, <5>1, Types, Constants
        <4> QED
          BY <1>2, <1>4, <2>3, <3>4, <4>1 DEF Sound, ParentOK
      <3> QED
        BY <2>1, <2>3, <3>3, <3>4 DEF Sound, ParentOK, Own
    <2> QED
      BY <2>0, <2>2, <2>3 DEF Busy
  <1>5. ScoredOK'
    BY DEF IInv, ScoredOK
  <1> QED
    BY <1>1, <1>4, <1>5 DEF IInv

LEMMA SameFile ==
    ASSUME IInv, NEW g \in Gens
    PROVE  file[g[1]] \in FileRec /\ file[g[1]].n \in Records /\ gen[g] \in GenRec
           /\ gen[g].keep \in [Rows -> Nat] /\ gen[g].todo \subseteq Rows /\ gen[g].v \in Versions
           /\ faults \in 0 .. MaxFaults
  BY Types, GenFacts

LEMMA FaultBound ==
    ASSUME IInv, faults < MaxFaults, faults' = faults + 1 PROVE faults' \in 0 .. MaxFaults
  <1>1. faults \in 0 .. MaxFaults /\ MaxFaults \in Nat
    BY Types, Constants
  <1> QED
    BY <1>1

LEMMA BeginInv == ASSUME IInv, NEW g \in Gens, Begin(g) PROVE IInv'
  <1> DEFINE p == gen[g]
             f == file[g[1]]
             kept == IF p.resume /\ f.at # "none" THEN Reusable(f.n, g[1], p.v) ELSE Off.keep
             todo == {r \in RowsOf(g[1]) : kept[r] = 0}
             n == [p EXCEPT !.pc = "clear", !.keep = kept, !.todo = todo]
  <1>1. p.pc = "start"
    BY DEF Begin
  <1>2. kept \in [Rows -> Nat] /\ \A r \in Rows : kept[r] \in {0, 1} /\ (kept[r] = 1 => r \in RowsOf(g[1]))
    BY DEF Reusable, Off
  <1> HIDE DEF kept
  <1>3. RowsOf(g[1]) \subseteq Rows
    BY DEF RowsOf
  <1>4. todo \subseteq Rows /\ \A r \in Rows : r \in todo <=> r \in RowsOf(g[1]) /\ kept[r] = 0
    BY <1>3
  <1> HIDE DEF todo
  <1>5. n \in GenRec /\ n.pc = "clear" /\ n.v = p.v /\ n.keep = kept /\ n.todo = todo
    BY <1>2, <1>4, SameFile DEF GenRec
  <1>6. gen' = [gen EXCEPT ![g] = n]
    BY SameFile, Types DEF Begin, kept, todo
  <1> HIDE DEF n
  <1>7. \A r \in Rows : Pending(n, r) = IF r \in RowsOf(g[1]) THEN 1 ELSE 0
    BY <1>2, <1>4, <1>5 DEF Pending
  <1>8. WorkerOK(p, g[1], f, parent.v) => WorkerOK(n, g[1], f, parent.v)
    BY <1>1, <1>5, <1>7 DEF WorkerOK
  <1>9. UNCHANGED <<conf, parent, file, mem, left, scored, alone, restarts, faults>>
    BY DEF Begin
  <1> QED
    BY <1>1, <1>5, <1>6, <1>8, <1>9, SameFile, GenStep

LEMMA ClearInv == ASSUME IInv, NEW g \in Gens, Clear(g) PROVE IInv'
  <1> DEFINE p == gen[g]
             n == [p EXCEPT !.pc = "write"]
  <1>1. /\ p.pc = "clear" /\ file' = [file EXCEPT ![g[1]] = Empty]
        /\ UNCHANGED <<conf, parent, mem, left, scored, alone, restarts, faults>>
    BY DEF Clear
  <1>2. n \in GenRec /\ n.pc = "write" /\ n.v = p.v /\ n.keep = p.keep /\ n.todo = p.todo
    BY SameFile DEF GenRec
  <1>3. gen' = [gen EXCEPT ![g] = n]
    BY SameFile, Types DEF Clear
  <1> HIDE DEF n
  <1>4. ASSUME WorkerOK(p, g[1], file[g[1]], parent.v) PROVE WorkerOK(n, g[1], Empty, parent.v)
    <2>1. p.v = parent.v /\ \A r \in Rows : Pending(n, r) = IF r \in RowsOf(g[1]) THEN 1 ELSE 0
      BY <1>1, <1>2, <1>4 DEF WorkerOK, Pending
    <2>2. ASSUME NEW x \in Rows \X Versions
          PROVE  Empty.n[x] + Due(n, x) = Part(g[1], parent.v)[x]
      <3>1. Empty.n[x] = 0 /\ x[1] \in Rows
        BY DEF Empty, NoRecords
      <3>2. Part(g[1], parent.v)[x] = IF x[1] \in RowsOf(g[1]) /\ x[2] = parent.v THEN 1 ELSE 0
        BY DEF Part
      <3> QED
        BY <1>2, <2>1, <3>1, <3>2 DEF Due
    <2>3. Empty.at = "text"
      BY DEF Empty
    <2> QED
      BY <1>2, <2>1, <2>2, <2>3 DEF WorkerOK
  <1> QED
    BY <1>1, <1>2, <1>3, <1>4, SameFile, Shapes, GenStep

(* Appending what is due next moves it from the plan to the file.           *)
LEMMA AppendOK ==
    ASSUME NEW p \in GenRec, NEW n \in GenRec, NEW c \in FileRec, NEW f, NEW v \in Versions,
           NEW r \in Rows, NEW k \in Nat, p.pc = "write", n.pc = "write", n.v = p.v,
           Pending(n, r) + k = Pending(p, r),
           \A q \in Rows \ {r} : Pending(n, q) = Pending(p, q),
           WorkerOK(p, f, c, v)
    PROVE  Appended(c, <<r, p.v>>, k) \in FileRec /\ WorkerOK(n, f, Appended(c, <<r, p.v>>, k), v)
  <1> DEFINE y == <<r, p.v>>
             d == Appended(c, y, k)
  <1>1. c.n \in Records /\ c.at = "text" /\ y \in Rows \X Versions /\ p.v = v
    BY DEF FileRec, GenRec, WorkerOK
  <1>2. d.at = "text" /\ d.n = [c.n EXCEPT ![y] = @ + k]
    BY <1>1 DEF Appended
  <1>3. d.n \in Records /\ d.n[y] = c.n[y] + k
    BY <1>1, <1>2 DEF Records
  <1>4. \A x \in Rows \X Versions : x # y => d.n[x] = c.n[x]
    BY <1>1, <1>2 DEF Records
  <1>5. d \in FileRec
    BY <1>1, <1>2, <1>3 DEF Appended, FileRec
  <1> HIDE DEF d
  <1>6. \A q \in Rows : Pending(p, q) \in Nat /\ Pending(n, q) \in Nat
    BY DEF Pending, GenRec
  <1>7. ASSUME NEW x \in Rows \X Versions PROVE d.n[x] + Due(n, x) = Part(f, v)[x]
    <2>1. c.n[x] + Due(p, x) = Part(f, v)[x] /\ c.n[x] \in Nat
      BY <1>1, <1>7 DEF WorkerOK, Records
    <2>2. CASE x = y
      <3>1. x[1] = r /\ x[2] = p.v
        BY <2>2
      <3>2. Due(n, x) + k = Due(p, x) /\ Due(n, x) \in Nat
        BY <1>6, <3>1 DEF Due
      <3>3. d.n[x] = c.n[x] + k
        BY <1>3, <2>2
      <3> HIDE DEF y
      <3> QED
        BY <2>1, <3>2, <3>3
    <2>3. CASE x # y
      <3>1. Due(n, x) = Due(p, x)
        <4>1. CASE x[2] # p.v
          BY <4>1 DEF Due
        <4>2. CASE x[2] = p.v
          <5>1. x = <<x[1], x[2]>> /\ x[1] \in Rows
            BY <1>7
          <5>2. x[1] # r
            BY <2>3, <4>2, <5>1
          <5> QED
            BY <5>1, <5>2 DEF Due
        <4> QED
          BY <4>1, <4>2
      <3> QED
        BY <1>4, <2>1, <2>3, <3>1
    <2> QED
      BY <2>2, <2>3
  <1>8. WorkerOK(n, f, d, v)
    BY <1>1, <1>2, <1>7 DEF WorkerOK
  <1> QED
    BY <1>5, <1>8 DEF d

LEMMA AppendInv == ASSUME IInv, NEW g \in Gens, AppendRow(g) PROVE IInv'
  <1> DEFINE p == gen[g]
             r == Least(IF ToKeep(g) # {} THEN ToKeep(g) ELSE p.todo)
             k == IF ToKeep(g) # {} THEN p.keep[r] ELSE 1
             n == IF ToKeep(g) # {} THEN [p EXCEPT !.keep = [p.keep EXCEPT ![r] = 0]]
                  ELSE [p EXCEPT !.todo = p.todo \ {r}]
             c == Appended(file[g[1]], <<r, p.v>>, k)
  <1>0. ToKeep(g) \subseteq Rows /\ p.todo \subseteq Rows /\ p.keep \in [Rows -> Nat]
    BY SameFile DEF ToKeep
  <1>1. /\ p.pc = "write" /\ ToKeep(g) \cup p.todo # {}
        /\ UNCHANGED <<conf, parent, mem, left, scored, alone, restarts, faults>>
    BY DEF AppendRow
  <1>2. /\ r \in Rows
        /\ ToKeep(g) # {} => r \in ToKeep(g)
        /\ ToKeep(g) = {} => r \in p.todo
    BY <1>0, <1>1, LeastIn
  <1>3. file' = [file EXCEPT ![g[1]] = c]
    <2>1. file' = [file EXCEPT ![g[1]] = Appended(@, <<r, p.v>>, k)]
      BY DEF AppendRow
    <2> QED
      BY <2>1
  <1>4. gen' = [gen EXCEPT ![g] = n]
    BY SameFile, Types DEF AppendRow
  <1> HIDE DEF r
  <1>5. /\ n \in GenRec /\ n.pc = "write" /\ n.v = p.v /\ k \in Nat
        /\ n.keep = (IF ToKeep(g) # {} THEN [p.keep EXCEPT ![r] = 0] ELSE p.keep)
        /\ n.todo = (IF ToKeep(g) # {} THEN p.todo ELSE p.todo \ {r})
    <2>1. CASE ToKeep(g) # {}
      <3>1. [p.keep EXCEPT ![r] = 0] \in [Rows -> Nat]
        BY <1>0
      <3> QED
        BY <1>0, <1>1, <1>2, <2>1, <3>1, SameFile DEF GenRec
    <2>2. CASE ToKeep(g) = {}
      BY <1>0, <1>1, <2>2, SameFile DEF GenRec
    <2> QED
      BY <2>1, <2>2
  <1> HIDE DEF n
  <1>6. Pending(n, r) + k = Pending(p, r)
    BY <1>0, <1>2, <1>5 DEF Pending, ToKeep
  <1>7. \A q \in Rows \ {r} : Pending(n, q) = Pending(p, q)
    BY <1>0, <1>5 DEF Pending
  <1> HIDE DEF k
  <1>8. WorkerOK(p, g[1], file[g[1]], parent.v) => WorkerOK(n, g[1], c, parent.v)
    BY <1>1, <1>2, <1>5, <1>6, <1>7, SameFile, Types, AppendOK
  <1>9. c \in FileRec
    <2>1. file[g[1]] \in FileRec /\ <<r, p.v>> \in Rows \X Versions
      BY <1>2, SameFile
    <2> QED
      BY <1>5, <2>1 DEF Appended, FileRec, Records
  <1> QED
    BY <1>1, <1>3, <1>4, <1>5, <1>8, <1>9, SameFile, GenStep

LEMMA FinishInv == ASSUME IInv, NEW g \in Gens, Finish(g) PROVE IInv'
  <1> DEFINE p == gen[g]
             pc == IF g[2] = "own" THEN "done" ELSE "off"
             n == [Off EXCEPT !.pc = pc]
  <1>1. /\ p.pc = "write" /\ ToKeep(g) \cup p.todo = {} /\ gen' = [gen EXCEPT ![g] = n]
        /\ UNCHANGED <<conf, parent, file, mem, left, scored, alone, restarts, faults>>
    BY DEF Finish
  <1>2. n \in GenRec /\ n.pc \in {"done", "off"}
    BY Shapes
  <1> HIDE DEF n
  <1>3. \A r \in Rows : Pending(p, r) = 0
    BY <1>1, SameFile DEF Pending, ToKeep
  <1>4. ASSUME WorkerOK(p, g[1], file[g[1]], parent.v)
        PROVE  Written(file[g[1]], g[1], parent.v)
    <2> DEFINE c == file[g[1]]
    <2>1. c.n \in [Rows \X Versions -> Nat]
      BY SameFile DEF Records
    <2>2. c.at = "text" /\ \A x \in Rows \X Versions : c.n[x] + Due(p, x) = Part(g[1], parent.v)[x]
      BY <1>1, <1>4 DEF WorkerOK
    <2>3. \A x \in Rows \X Versions : Due(p, x) = 0
      BY <1>3 DEF Due
    <2> HIDE DEF c
    <2>4. \A x \in Rows \X Versions : c.n[x] = Part(g[1], parent.v)[x]
      BY <2>1, <2>2, <2>3
    <2>5. Part(g[1], parent.v) \in [Rows \X Versions -> Nat]
      BY Shapes DEF Records
    <2>6. c.n = Part(g[1], parent.v)
      BY <2>1, <2>4, <2>5
    <2> QED
      BY <2>2, <2>6 DEF Written, c
  <1>5. WorkerOK(p, g[1], file[g[1]], parent.v) => WorkerOK(n, g[1], file[g[1]], parent.v)
    BY <1>2, <1>4 DEF WorkerOK
  <1> QED
    BY <1>1, <1>2, <1>5, SameFile, GenStep

(* A generator that fails promises nothing of its file.                     *)
LEMMA FailInv ==
    ASSUME IInv, NEW g \in Gens, BeginRefuses(g) \/ Fail(g) PROVE IInv'
  <1> DEFINE pc == IF g[2] = "own" THEN "failed" ELSE "off"
             n == [Off EXCEPT !.pc = pc]
  <1>1. n \in GenRec /\ n.pc \in {"failed", "off"}
    BY Shapes
  <1>2. /\ gen[g].pc # "off" /\ gen' = [gen EXCEPT ![g] = n]
        /\ UNCHANGED <<conf, parent, mem, left, scored, alone, restarts>>
    BY DEF BeginRefuses, Fail
  <1> HIDE DEF n
  <1>3. \A c : WorkerOK(n, g[1], c, parent.v)
    BY <1>1 DEF WorkerOK
  <1>4. faults' \in 0 .. MaxFaults
    BY SameFile, FaultBound DEF BeginRefuses, Fail
  <1>5. UNCHANGED file \/ file' = [file EXCEPT ![g[1]].at = "torn"]
    BY DEF BeginRefuses, Fail, Torn
  <1>6. CASE UNCHANGED file
    BY <1>1, <1>2, <1>3, <1>4, <1>6, SameFile, GenStep
  <1>7. CASE file' = [file EXCEPT ![g[1]].at = "torn"]
    <2> DEFINE c == [file[g[1]] EXCEPT !.at = "torn"]
    <2>1. c \in FileRec
      BY SameFile DEF FileRec
    <2>2. file' = [file EXCEPT ![g[1]] = c]
      BY <1>7
    <2> HIDE DEF c
    <2> QED
      BY <1>1, <1>2, <1>3, <1>4, <2>1, <2>2, GenStep
  <1> QED
    BY <1>5, <1>6, <1>7

-----------------------------------------------------------------------------
(* The command: its workers are replaced or gone.                           *)
LEMMA NoOwnFacts ==
    ASSUME IInv
    PROVE  /\ NoOwn \in [Gens -> GenRec]
           /\ Sound => \A g \in Gens : NoOwn[g].pc = "off"
  <1>1. NoOwn \in [Gens -> GenRec]
    BY Types, Shapes DEF NoOwn
  <1>2. ASSUME Sound, NEW g \in Gens PROVE NoOwn[g].pc = "off"
    <2>1. CASE g[2] = "own"
      BY <2>1, Shapes DEF NoOwn
    <2>2. CASE g[2] # "own"
      <3>1. g # <<Merged, "own">>
        BY <2>2
      <3>2. ~Busy(g)
        BY <2>2, <3>1 DEF Busy
      <3> QED
        BY <1>2, <2>2, <3>2 DEF NoOwn, Sound
    <2> QED
      BY <2>1, <2>2
  <1> QED
    BY <1>1, <1>2

LEMMA WithGroupFacts ==
    ASSUME IInv, NEW p \in ParentRec
    PROVE  /\ WithGroup(p) \in [Gens -> GenRec]
           /\ \A k \in Group(p.group) : WithGroup(p)[<<k, "own">>] = Started(p)
           /\ Sound => \A g \in Gens : WithGroup(p)[g].pc # "off" =>
                                          g[2] = "own" /\ g[1] \in Group(p.group)
  <1>1. WithGroup(p) \in [Gens -> GenRec]
    BY Types, Shapes DEF WithGroup
  <1>2. ASSUME NEW k \in Group(p.group) PROVE WithGroup(p)[<<k, "own">>] = Started(p)
    <2>1. <<k, "own">> \in Gens /\ <<k, "own">>[1] = k /\ <<k, "own">>[2] = "own"
      BY <1>2, GenFacts DEF Group
    <2> QED
      BY <1>2, <2>1 DEF WithGroup
  <1>3. ASSUME Sound, NEW g \in Gens, WithGroup(p)[g].pc # "off"
        PROVE  g[2] = "own" /\ g[1] \in Group(p.group)
    <2>1. CASE g[2] = "own" /\ g[1] \notin Group(p.group)
      BY <1>3, <2>1, Shapes DEF WithGroup
    <2>2. CASE g[2] # "own"
      <3>1. gen[g].pc # "off" /\ g # <<Merged, "own">>
        BY <1>3, <2>2 DEF WithGroup
      <3>2. Busy(g)
        BY <1>3, <3>1 DEF Sound
      <3> QED
        BY <2>2, <3>1, <3>2 DEF Busy
    <2> QED
      BY <2>1, <2>2
  <1> QED
    BY <1>1, <1>2, <1>3

(* A step of the command that leaves no generator at work.                  *)
LEMMA QuietStep ==
    ASSUME IInv, NEW p \in ParentRec, parent' = p, gen' = NoOwn, p.pc \notin {"self", "group"},
           UNCHANGED <<conf, alone, restarts>>, file' \in [Files -> FileRec],
           mem' \in Records, left' \subseteq Rows, faults' \in 0 .. MaxFaults,
           scored' \in [v : {0} \cup Versions, n : Records], ScoredOK',
           Sound => ParentOK'
    PROVE  IInv'
  <1>1. TypeOK'
    BY NoOwnFacts, Types, MakeTypes
  <1>2. Sound => Sound'
    BY NoOwnFacts DEF Sound
  <1> QED
    BY <1>1, <1>2 DEF IInv

LEMMA LeaveInv ==
    ASSUME IInv, Leave, UNCHANGED <<conf, alone, restarts>>, file' \in [Files -> FileRec],
           faults' \in 0 .. MaxFaults,
           scored' \in [v : {0} \cup Versions, n : Records], ScoredOK'
    PROVE  IInv'
  <1>1. parent' = Idle /\ mem' = NoRecords /\ left' = {} /\ gen' = NoOwn /\ Idle.pc = "idle"
    BY DEF Leave, Idle
  <1>2. ParentOK'
    BY <1>1 DEF ParentOK
  <1> QED
    BY <1>1, <1>2, Shapes, QuietStep

LEMMA SameScored ==
    ASSUME IInv, UNCHANGED scored
    PROVE  scored' \in [v : {0} \cup Versions, n : Records] /\ ScoredOK'
  BY Types DEF IInv, ScoredOK

LEMMA GiveUpInv == ASSUME IInv, GenerationFails \/ MergeFails \/ Refuse PROVE IInv'
  <1>1. Leave /\ UNCHANGED <<conf, file, scored, alone, restarts, faults>>
    BY DEF GenerationFails, MergeFails, Refuse
  <1> QED
    BY <1>1, SameScored, Types, LeaveInv

LEMMA GroupEndsInv == ASSUME IInv, GroupEnds PROVE IInv'
  <1> DEFINE next == [parent EXCEPT !.group = @ + 1]
  <1>1. /\ parent.pc = "group" /\ Good(Group(parent.group))
        /\ UNCHANGED <<conf, file, mem, left, scored, alone, restarts, faults>>
    BY DEF GroupEnds
  <1>2. next \in ParentRec /\ next.group = parent.group + 1 /\ next.pc = "group" /\ next.v = parent.v
    BY <1>1, Types DEF ParentRec
  <1>3. ASSUME Sound, NEW k \in Shards, GroupOf(k) < parent.group + 1
        PROVE  Written(file[k], k, parent.v)
    <2>1. GroupOf(k) \in Int /\ parent.group \in Nat
      BY Types, Constants DEF GroupOf, Shards
    <2>2. CASE GroupOf(k) < parent.group
      BY <1>1, <1>3, <2>2 DEF Sound, ParentOK
    <2>3. CASE GroupOf(k) = parent.group
      <3>1. k \in Group(parent.group)
        BY <2>3 DEF Group, GroupOf
      <3>2. Own(k).pc = "done" /\ WorkerOK(Own(k), k, file[k], parent.v)
        BY <1>1, <1>3, <3>1 DEF Good, Sound, ParentOK
      <3> QED
        BY <3>2 DEF WorkerOK
    <2> QED
      BY <1>3, <2>1, <2>2, <2>3
  <1>4. CASE Group(next.group) # {}
    <2>1. parent' = next /\ gen' = WithGroup(next)
      BY <1>4 DEF GroupEnds
    <2> HIDE DEF next
    <2>2. TypeOK'
      BY <1>1, <1>2, <2>1, WithGroupFacts, Types, MakeTypes
    <2>3. ASSUME Sound PROVE Sound'
      <3>1. \A g \in Gens : gen'[g].pc # "off" => Busy(g)'
        BY <1>2, <2>1, <2>3, WithGroupFacts DEF Busy
      <3>2. \A k \in Group(next.group) : WorkerOK(gen'[<<k, "own">>], k, file'[k], parent'.v)
        BY <1>2, <2>1, WithGroupFacts, Shapes DEF WorkerOK
      <3>3. \A k \in Shards : GroupOf(k) < next.group => Written(file[k], k, parent.v)
        BY <1>2, <1>3, <2>3
      <3> QED
        BY <1>1, <1>2, <2>1, <3>1, <3>2, <3>3 DEF Sound, ParentOK, Own
    <2> QED
      BY <1>1, <2>2, <2>3, SameScored DEF IInv
  <1>5. CASE Group(next.group) = {}
    <2> DEFINE p == [parent EXCEPT !.pc = "merge"]
    <2>1. parent' = p /\ gen' = NoOwn
      BY <1>5 DEF GroupEnds
    <2>2. p \in ParentRec /\ p.pc = "merge" /\ p.v = parent.v
      BY Types DEF ParentRec
    <2> HIDE DEF next, p
    <2>3. \A k \in Shards : GroupOf(k) < parent.group + 1
      BY <1>2, <1>5, LastGroup, Types
    <2>4. Sound => ParentOK'
      BY <1>1, <1>3, <2>1, <2>2, <2>3 DEF ParentOK
    <2> QED
      BY <1>1, <2>1, <2>2, <2>4, SameScored, Types, QuietStep
  <1> QED
    BY <1>4, <1>5

LEMMA PartMerged ==
    \A v \in Versions, x \in Rows \X Versions : Part(Merged, v)[x] = IF x[2] = v THEN 1 ELSE 0
  BY DEF Part, RowsOf

(* What is joined of the shards of a launch is its whole output.            *)
LEMMA JoinedIsWhole ==
    ASSUME IInv, \A k \in Shards : Written(file[k], k, parent.v)
    PROVE  /\ Joined = Part(Merged, parent.v)
           /\ \A r \in Rows : Joined[<<r, parent.v>>] > 0
  <1>1. ASSUME NEW x \in Rows \X Versions
        PROVE  Joined[x] = IF x[2] = parent.v THEN 1 ELSE 0
    <2> DEFINE k == CHOOSE k \in Shards : x[1] \in RowsOf(k)
    <2>1. x[1] \in Rows
      OBVIOUS
    <2>2. k \in Shards /\ x[1] \in RowsOf(k)
      BY <2>1, RowsPartition
    <2>3. Joined[x] = file[k].n[x]
      BY DEF Joined
    <2> HIDE DEF k
    <2>4. file[k].n[x] = IF x[1] \in RowsOf(k) /\ x[2] = parent.v THEN 1 ELSE 0
      BY <2>2 DEF Written, Part
    <2> QED
      BY <2>2, <2>3, <2>4
  <1>2. Joined = [x \in Rows \X Versions |-> Joined[x]]
    BY DEF Joined
  <1>3. Part(Merged, parent.v) = [x \in Rows \X Versions |-> IF x[2] = parent.v THEN 1 ELSE 0]
    BY DEF Part, RowsOf
  <1> HIDE DEF Joined
  <1>4. Joined = Part(Merged, parent.v)
    BY <1>1, <1>2, <1>3
  <1>5. \A r \in Rows : Joined[<<r, parent.v>>] > 0
    BY <1>1, Types
  <1> QED
    BY <1>4, <1>5

LEMMA MergeReadsInv == ASSUME IInv, MergeReads PROVE IInv'
  <1> DEFINE p == [parent EXCEPT !.pc = "write"]
  <1>1. /\ parent.pc = "merge" /\ parent' = p /\ mem' = Joined
        /\ left' = {r \in Rows : \E v \in Versions : Joined[<<r, v>>] > 0}
        /\ file' = [file EXCEPT ![Merged] = Empty]
        /\ UNCHANGED <<conf, gen, scored, alone, restarts, faults>>
    BY DEF MergeReads
  <1>2. p \in ParentRec /\ p.pc = "write" /\ p.v = parent.v
    BY Types DEF ParentRec
  <1> HIDE DEF p
  <1>3. file' \in [Files -> FileRec] /\ file'[Merged] = Empty
    BY <1>1, Types, Shapes, Constants
  <1>4. Joined \in Records
    <2>1. ASSUME NEW x \in Rows \X Versions PROVE Joined[x] \in Nat
      <3> DEFINE k == CHOOSE k \in Shards : x[1] \in RowsOf(k)
      <3>1. k \in Shards
        BY RowsPartition
      <3>2. Joined[x] = file[k].n[x]
        BY DEF Joined
      <3> HIDE DEF k
      <3> QED
        BY <3>1, <3>2, Types, Constants DEF Records
    <2> QED
      BY <2>1 DEF Joined, Records
  <1>5. TypeOK'
    BY <1>1, <1>2, <1>3, <1>4, Types, MakeTypes
  <1>6. ASSUME Sound PROVE Sound'
    <2>1. \A k \in Shards : Written(file[k], k, parent.v)
      BY <1>1, <1>6 DEF Sound, ParentOK
    <2>2. mem' = Part(Merged, parent.v) /\ left' = Rows
      <3>1. left' = Rows
        BY <1>1, <2>1, JoinedIsWhole, Types
      <3> QED
        BY <1>1, <2>1, <3>1, JoinedIsWhole
    <2>3. Empty.at = "text" /\ \A x \in Rows \X Versions : Empty.n[x] = 0
      BY DEF Empty, NoRecords
    <2>4. \A g \in Gens : gen[g].pc = "off"
      BY <1>1, <1>6 DEF Sound, Busy
    <2> QED
      BY <1>1, <1>2, <1>3, <2>2, <2>3, <2>4 DEF Sound, ParentOK
  <1> QED
    BY <1>1, <1>5, <1>6, SameScored DEF IInv

LEMMA MergeWritesInv == ASSUME IInv, MergeWrites PROVE IInv'
  <1>1. /\ parent.pc = "write"
        /\ UNCHANGED <<conf, gen, mem, scored, alone, restarts, faults>>
    BY DEF MergeWrites
  <1>2. ASSUME Sound
        PROVE  /\ \A g \in Gens : gen[g].pc = "off"
               /\ mem = Part(Merged, parent.v) /\ file[Merged].at = "text"
               /\ \A x \in Rows \X Versions :
                     file[Merged].n[x] = IF x[1] \in left THEN 0 ELSE mem[x]
    BY <1>1, <1>2 DEF Sound, Busy, ParentOK
  <1>3. CASE left = {}
    <2> DEFINE p == [parent EXCEPT !.pc = "check"]
    <2>1. parent' = p /\ UNCHANGED <<file, left>>
      BY <1>3 DEF MergeWrites
    <2>2. p \in ParentRec /\ p.pc = "check" /\ p.v = parent.v
      BY Types DEF ParentRec
    <2> HIDE DEF p
    <2>3. TypeOK'
      BY <1>1, <2>1, <2>2, Types, MakeTypes
    <2>4. ASSUME Sound PROVE Sound'
      <3>1. file[Merged].n \in [Rows \X Versions -> Nat] /\ mem \in [Rows \X Versions -> Nat]
        BY Types, Constants DEF Records
      <3>2. file[Merged].n = mem
        BY <1>2, <1>3, <2>4, <3>1
      <3>3. Written(file[Merged], Merged, parent.v)
        BY <1>2, <2>4, <3>2 DEF Written
      <3> QED
        BY <1>1, <1>2, <2>1, <2>2, <2>4, <3>3 DEF Sound, ParentOK
    <2> QED
      BY <1>1, <2>3, <2>4, SameScored DEF IInv
  <1>4. CASE left # {}
    <2> DEFINE r == Least(left)
               m == [x \in Rows \X Versions |-> IF x[1] = r THEN mem[x] ELSE file[Merged].n[x]]
               c == [file[Merged] EXCEPT !.n = m]
    <2>1. file' = [file EXCEPT ![Merged] = c] /\ left' = left \ {r} /\ UNCHANGED parent
      BY <1>4 DEF MergeWrites
    <2>2. m \in Records
      BY Types, Constants DEF Records
    <2> HIDE DEF r
    <2>3. \A x \in Rows \X Versions : m[x] = IF x[1] = r THEN mem[x] ELSE file[Merged].n[x]
      OBVIOUS
    <2> HIDE DEF m
    <2>4. c \in FileRec /\ c.n = m /\ c.at = file[Merged].at
      BY <2>2, Types, Constants DEF FileRec
    <2> HIDE DEF c
    <2>5. file' \in [Files -> FileRec] /\ file'[Merged] = c
      BY <2>1, <2>4, Types, Constants
    <2>6. TypeOK'
      BY <1>1, <2>1, <2>5, Types, MakeTypes
    <2>7. ASSUME Sound PROVE Sound'
      <3>1. \A x \in Rows \X Versions : m[x] = IF x[1] \in left' THEN 0 ELSE mem[x]
        BY <1>2, <2>1, <2>3, <2>7
      <3> QED
        BY <1>1, <1>2, <2>1, <2>4, <2>5, <2>7, <3>1 DEF Sound, ParentOK
    <2> QED
      BY <1>1, <2>6, <2>7, SameScored DEF IInv
  <1> QED
    BY <1>3, <1>4

LEMMA SelfEndsInv == ASSUME IInv, SelfEnds PROVE IInv'
  <1> DEFINE p == [parent EXCEPT !.pc = "check"]
             m == [x \in Rows \X Versions |-> IF x[2] = parent.v THEN 1 ELSE 0]
  <1>1. /\ parent.pc = "self" /\ Own(Merged).pc = "done" /\ parent' = p /\ gen' = NoOwn /\ mem' = m
        /\ UNCHANGED <<conf, file, left, scored, alone, restarts, faults>>
    BY DEF SelfEnds, Good
  <1>2. p \in ParentRec /\ p.pc = "check" /\ p.v = parent.v
    BY Types DEF ParentRec
  <1>3. m \in Records
    BY DEF Records
  <1> HIDE DEF p, m
  <1>4. ASSUME Sound PROVE ParentOK'
    <2>1. Written(file[Merged], Merged, parent.v)
      BY <1>1, <1>4 DEF Sound, ParentOK, WorkerOK
    <2> QED
      BY <1>1, <1>2, <2>1 DEF ParentOK
  <1> QED
    BY <1>1, <1>2, <1>3, <1>4, SameScored, Types, QuietStep

LEMMA ReportInv == ASSUME IInv, Report PROVE IInv'
  <1> DEFINE p == [parent EXCEPT !.pc = "score"]
  <1>1. /\ parent.pc = "check" /\ parent' = p /\ mem' = NoRecords
        /\ UNCHANGED <<conf, gen, file, left, scored, alone, restarts, faults>>
    BY DEF Report
  <1>2. p \in ParentRec /\ p.pc = "score" /\ p.v = parent.v
    BY Types DEF ParentRec
  <1> HIDE DEF p
  <1>3. TypeOK'
    BY <1>1, <1>2, Shapes, Types, MakeTypes
  <1>4. ASSUME Sound PROVE Sound'
    <2>1. \A g \in Gens : gen[g].pc = "off"
      BY <1>1, <1>4 DEF Sound, Busy
    <2>2. Written(file[Merged], Merged, parent.v)
      BY <1>1, <1>4 DEF Sound, ParentOK
    <2> QED
      BY <1>1, <1>2, <2>1, <2>2 DEF Sound, ParentOK
  <1> QED
    BY <1>1, <1>3, <1>4, SameScored DEF IInv

LEMMA ScoreInv == ASSUME IInv, Score PROVE IInv'
  <1> DEFINE s == [v |-> parent.v, n |-> file[Merged].n]
  <1>1. /\ Whole(file[Merged].n, parent.v) /\ scored' = s /\ Leave
        /\ UNCHANGED <<conf, file, alone, restarts, faults>>
    BY DEF Score
  <1>2. s \in [v : {0} \cup Versions, n : Records]
    BY Types, Constants
  <1>3. ScoredOK'
    BY <1>1 DEF ScoredOK
  <1> QED
    BY <1>1, <1>2, <1>3, Types, LeaveInv

-----------------------------------------------------------------------------
(* Launches, kills and the change of the configuration.                     *)
LEMMA LaunchInv ==
    ASSUME IInv, NEW resume \in BOOLEAN, Launch(resume), restarts' \in 0 .. MaxRestarts
    PROVE  IInv'
  <1> DEFINE self == Workers = 1 \/ (resume /\ file[Merged].at # "none")
             p == [pc |-> IF self THEN "self" ELSE "group", v |-> conf, resume |-> resume, group |-> 0]
  <1>1. /\ parent.pc = "idle" /\ parent' = p
        /\ gen' = IF self THEN [gen EXCEPT ![<<Merged, "own">>] = Started(p)] ELSE WithGroup(p)
        /\ file' = IF self \/ resume THEN file ELSE Removed
        /\ UNCHANGED <<conf, mem, left, scored, alone, faults>>
    BY DEF Launch
  <1>2. /\ p \in ParentRec /\ p.v = conf /\ p.group = 0
        /\ self => p.pc = "self"
        /\ ~self => p.pc = "group"
    BY Types DEF ParentRec
  <1> HIDE DEF self, p
  <1>3. Removed \in [Files -> FileRec]
    BY Types, Shapes DEF Removed
  <1>4. file' \in [Files -> FileRec]
    BY <1>1, <1>3, Types
  <1>5. gen' \in [Gens -> GenRec]
    BY <1>1, <1>2, Types, Shapes, GenFacts, WithGroupFacts
  <1>6. TypeOK'
    BY <1>1, <1>2, <1>4, <1>5, Types, MakeTypes
  <1>7. ASSUME Sound PROVE Sound'
    <2>1. \A g \in Gens : gen[g].pc = "off"
      BY <1>1, <1>7 DEF Sound, Busy
    <2>2. CASE self
      <3>1. gen'[<<Merged, "own">>] = Started(p)
        BY <1>1, <2>2, Types, GenFacts
      <3>2. \A g \in Gens : g # <<Merged, "own">> => gen'[g].pc = "off"
        BY <1>1, <2>1, <2>2, Types
      <3>3. WorkerOK(Own(Merged), Merged, file[Merged], parent.v)'
        BY <1>1, <1>2, <3>1, Shapes DEF WorkerOK, Own
      <3> QED
        BY <1>1, <1>2, <2>2, <3>2, <3>3 DEF Sound, ParentOK, Busy
    <2>3. CASE ~self
      <3>1. \A g \in Gens : gen'[g].pc # "off" => Busy(g)'
        BY <1>1, <1>2, <1>7, <2>3, WithGroupFacts DEF Busy
      <3>2. \A k \in Group(p.group) : WorkerOK(gen'[<<k, "own">>], k, file'[k], p.v)
        BY <1>1, <1>2, <2>3, WithGroupFacts, Shapes DEF WorkerOK
      <3>3. \A k \in Shards : ~(GroupOf(k) < 0)
        <4> TAKE k \in Shards
        <4>1. k - 1 \in Nat /\ Parallel \in Nat \ {0}
          BY ParallelAssumption, WorkerAssumption DEF Shards
        <4> QED
          BY <4>1 DEF GroupOf
      <3> QED
        BY <1>1, <1>2, <2>3, <3>1, <3>2, <3>3 DEF Sound, ParentOK, Own
    <2> QED
      BY <2>2, <2>3
  <1> QED
    BY <1>1, <1>6, <1>7, SameScored DEF IInv

LEMMA StartInv == ASSUME IInv, Resume \/ Restart \/ Anew PROVE IInv'
  <1>1. CASE Resume
    BY <1>1, Types, LaunchInv DEF Resume
  <1>2. CASE Restart
    <2>1. restarts' \in 0 .. MaxRestarts
      BY <1>2, Types, Constants DEF Restart
    <2> QED
      BY <1>2, <2>1, LaunchInv DEF Restart
  <1>3. CASE Anew
    BY <1>3, Types, LaunchInv DEF Anew
  <1> QED
    BY <1>1, <1>2, <1>3

LEMMA TornTypes ==
    ASSUME IInv, NEW S, S \subseteq Files, Torn(S) PROVE file' \in [Files -> FileRec]
  <1>1. CASE UNCHANGED file
    BY <1>1, Types
  <1>2. CASE \E f \in S : file' = [file EXCEPT ![f].at = "torn"]
    <2>1. PICK f \in S : file' = [file EXCEPT ![f].at = "torn"]
      BY <1>2
    <2>2. f \in Files /\ file[f] \in FileRec
      BY Types
    <2>3. [file[f] EXCEPT !.at = "torn"] \in FileRec
      BY <2>2 DEF FileRec
    <2>4. file' = [file EXCEPT ![f] = [file[f] EXCEPT !.at = "torn"]]
      BY <2>1
    <2> QED
      BY <2>2, <2>3, <2>4, Types
  <1> QED
    BY <1>1, <1>2 DEF Torn

LEMMA KillInv == ASSUME IInv, Kill PROVE IInv'
  <1> DEFINE S == Merging \cup {g[1] : g \in {h \in Gens : Writing(h)}}
  <1>1. /\ faults < MaxFaults /\ faults' = faults + 1
        /\ parent' = Idle /\ mem' = NoRecords /\ left' = {}
        /\ gen' = [g \in Gens |-> Off] /\ Torn(S)
        /\ UNCHANGED <<conf, scored, alone, restarts>>
    BY DEF Kill
  <1>2. S \subseteq Files
    BY GenFacts, Constants DEF Merging
  <1> HIDE DEF S
  <1>3. TypeOK'
    <2>1. file' \in [Files -> FileRec] /\ faults' \in 0 .. MaxFaults
      BY <1>1, <1>2, TornTypes, FaultBound
    <2> QED
      BY <1>1, <2>1, Shapes, Types, MakeTypes
  <1>4. Sound'
    <2>1. \A g \in Gens : gen'[g].pc = "off"
      BY <1>1, Shapes
    <2>2. parent'.pc = "idle"
      BY <1>1 DEF Idle
    <2> QED
      BY <2>1, <2>2 DEF Sound, ParentOK
  <1> QED
    BY <1>1, <1>3, <1>4, SameScored DEF IInv

LEMMA KillParentInv == ASSUME IInv, KillParent PROVE IInv'
  <1> DEFINE S == Merging \cup {f \in {Merged} : Writing(<<f, "own">>)}
  <1>1. /\ faults < MaxFaults /\ faults' = faults + 1
        /\ parent' = Idle /\ mem' = NoRecords /\ left' = {} /\ Torn(S)
        /\ UNCHANGED <<conf, scored, restarts>>
    BY DEF KillParent
  <1>2. S \subseteq Files
    BY Constants DEF Merging
  <1> HIDE DEF S
  <1>3. file' \in [Files -> FileRec] /\ faults' \in 0 .. MaxFaults
    BY <1>1, <1>2, TornTypes, FaultBound
  <1>4. CASE parent.pc = "group"
    <2>1. gen' = Outlive /\ alone' = TRUE
      BY <1>4 DEF KillParent
    <2>2. Outlive \in [Gens -> GenRec]
      BY Types, Shapes, GenFacts DEF Outlive, Own
    <2>3. TypeOK'
      BY <1>1, <1>3, <2>1, <2>2, Shapes, Types, MakeTypes
    <2> QED
      BY <1>1, <2>1, <2>3, SameScored DEF IInv
  <1>5. CASE parent.pc # "group"
    <2>1. Leave /\ UNCHANGED alone
      BY <1>1, <1>5 DEF KillParent, Leave
    <2> QED
      BY <1>1, <1>3, <2>1, SameScored, LeaveInv
  <1> QED
    BY <1>4, <1>5

LEMMA EditInv == ASSUME IInv, Edit PROVE IInv'
  <1>1. /\ conf' \in Versions
        /\ UNCHANGED <<parent, gen, file, mem, left, scored, alone, restarts, faults>>
    BY DEF Edit
  <1>2. TypeOK'
    BY <1>1, Types, MakeTypes
  <1>3. Sound => Sound'
    BY <1>1 DEF Sound, ParentOK, Busy, Own
  <1> QED
    BY <1>1, <1>2, <1>3, SameScored DEF IInv

LEMMA StepInv == IInv /\ [Next]_vars => IInv'
  <1> SUFFICES ASSUME IInv, [Next]_vars PROVE IInv'
    OBVIOUS
  <1>1. CASE Parent
    BY <1>1, GroupEndsInv, GiveUpInv, MergeReadsInv, MergeWritesInv, SelfEndsInv, ReportInv, ScoreInv
    DEF Parent
  <1>2. CASE Resume \/ Restart \/ Anew
    BY <1>2, StartInv
  <1>3. CASE Kill \/ KillParent \/ Edit
    BY <1>3, KillInv, KillParentInv, EditInv
  <1>4. ASSUME NEW g \in Gens, Generate(g) \/ Fail(g) PROVE IInv'
    BY <1>4, BeginInv, ClearInv, AppendInv, FinishInv, FailInv DEF Generate
  <1>5. CASE UNCHANGED vars
    <2>1. UNCHANGED <<conf, parent, gen, file, mem, left, scored, alone, restarts, faults>>
      BY <1>5 DEF vars
    <2>2. TypeOK'
      BY <2>1, Types, MakeTypes
    <2>3. Sound => Sound'
      BY <2>1 DEF Sound, ParentOK, Busy, Own
    <2> QED
      BY <2>1, <2>2, <2>3, SameScored DEF IInv
  <1> QED
    BY <1>1, <1>2, <1>3, <1>4, <1>5 DEF Next

-----------------------------------------------------------------------------
(* The running command's generators, files and records are what its step    *)
(* says, unless workers have outlived a command; the reports that were      *)
(* scored had one record of each row.                                       *)
THEOREM GenerationInvariance == Spec => []IInv
  <1> QED
    BY InitInv, StepInv, PTL DEF Spec

(* Types of the state of generation, merge and scoring.                     *)
THEOREM TypeCorrect == Spec => []TypeOK
  <1>1. IInv => TypeOK
    BY DEF IInv
  <1> QED
    BY <1>1, GenerationInvariance, PTL

(* The scoring command is handed one record of every selected row under the *)
(* requested protocol, whatever earlier launches kept, lost or wrote again, *)
(* unless workers outlived one; nothing else is ever scored.                *)
THEOREM ScoredFilesWhole == Spec => []ScoredIsWhole
  <1>1. ASSUME IInv PROVE ScoredIsWhole
    <2>1. ASSUME parent.pc = "score", ~alone
          PROVE  Readable(file[Merged]) /\ Whole(file[Merged].n, parent.v)
      <3>1. Written(file[Merged], Merged, parent.v)
        BY <1>1, <2>1 DEF IInv, Sound, ParentOK
      <3> QED
        BY <1>1, <3>1, PartMerged, Types DEF Written, Readable, Whole
    <2> QED
      BY <1>1, <2>1 DEF ScoredIsWhole, IInv, ScoredOK
  <1> QED
    BY <1>1, GenerationInvariance, PTL

(* While no worker outlived its command, the generators at work are those   *)
(* of the command that runs: a row is never appended to a file by two.      *)
THEOREM OneGenerationAtATime ==
    Spec => [](~alone => \A g \in Gens : gen[g].pc # "off" => g[2] = "own" /\ parent.pc # "idle")
  <1>1. ASSUME IInv, ~alone, NEW g \in Gens, gen[g].pc # "off"
        PROVE  g[2] = "own" /\ parent.pc # "idle"
    <2>1. Busy(g)
      BY <1>1 DEF IInv, Sound
    <2> QED
      BY <2>1 DEF Busy
  <1>2. IInv => (~alone => \A g \in Gens : gen[g].pc # "off" => g[2] = "own" /\ parent.pc # "idle")
    BY <1>1
  <1> QED
    BY <1>2, GenerationInvariance, PTL

-------------------------------------------------------------------------------
(* The safety-domain evaluation.                                            *)
(* What the constants are, by the assumptions of the module.                *)
LEMMA Domain ==
    /\ Base \in Chains /\ IsFiniteSet(Splits) /\ Splits # {} /\ "all" \notin Splits
    /\ Prompts \in Seq(Nat) /\ Boundary \in Seq(Nat)
    /\ Len(Prompts) > 0 /\ Len(Boundary) = Len(Prompts)
    /\ MaxChainRestarts \in Nat /\ MaxChainFaults \in Nat
  BY BaseAssumption, SplitAssumption, ConfigAssumption, ChainBoundAssumption DEF All

(* Types, one launcher and one command at a time.                           *)
RunTyped(r) == /\ DOMAIN r = {"pc", "ph", "st"}
               /\ r.pc \in {"idle", "next", "convert", "converting", "shards", "last"}
               /\ r.ph \in Names /\ (r.pc # "idle" => r.st \in State)
JobTyped(j) == /\ DOMAIN j = {"pc", "v", "in"}
               /\ j.pc \in {"off", "ready", "read", "written", "done", "failed"}
JobsTyped(w) == /\ DOMAIN w = Commands
                /\ \A k \in Commands : JobTyped(w[k])
Typed == /\ config \in Configurations
         /\ disk \in [Chains -> State \cup {None}]
         /\ DOMAIN run = Chains /\ (\A c \in Chains : RunTyped(run[c]))
         /\ DOMAIN job = Chains /\ (\A c \in Chains : JobsTyped(job[c]))
         /\ DOMAIN data = Slots /\ DOMAIN rep = Slots
         /\ hf \in [Chains -> {"none", "partial", "half", "whole"}]
         /\ chainRestarts \in 0 .. MaxChainRestarts /\ chainFaults \in 0 .. MaxChainFaults

(* What the files hold: of one set of prompts, of checkpoint c, at boundary *)
(* b; and that this is the set x.                                           *)
Extraction(e, b) == \A s, t \in Splits : e[s].boundary = b /\ e[s].prompts = e[t].prompts
Described(c, d, e) == \A s \in Splits : d[s].av = c /\ d[s].of = e
Description(d, c, b) == \A s, t \in Splits : /\ d[s].av = c /\ d[s].of = d[t].of
                                            /\ Extraction(d[s].of, b)
Decision(d) == \A s, t \in Splits : d[s].prompts = d[t].prompts
Holds(c, p, d, b) ==
    /\ p = "extract" => Extraction(d, b)
    /\ p = "describe" => Description(d, c, b)
    /\ p = "behavior" => Decision(d)
    /\ p = "analyze" => Description(d.described, c, b) /\ Decision(d.decided)
OfPrompts(e, x) == \A s \in Splits : e[s].prompts = x
Describes(d, x) == \A s \in Splits : OfPrompts(d[s].of, x)
Only(p, d, x) ==
    /\ p = "build-manifest" => d.prompts = x
    /\ p \in {"extract", "behavior"} => OfPrompts(d, x)
    /\ p = "describe" => Describes(d, x)
    /\ p = "analyze" => Describes(d.described, x) /\ OfPrompts(d.decided, x)
Now == Boundary[config]
Cases == Prompts[config]
FileHolds(c, p) == Holds(c, p, File(c, p), Now)
(* Of the prompts that are configured, as the manifest then is.             *)
OwnCases(c, p) == /\ File(c, "build-manifest").prompts = Cases
                  /\ Only(p, File(c, p), Cases)
Stands(c, p, st) == FileHolds(c, p) /\ (~st.borrowed => OwnCases(c, p))

(* A state document of the present configuration stands for its files.      *)
PhasesOK(c, st) == \A p \in Artifacts : st.phase[p] = "complete" => Stands(c, p, st)
Analyzed(c, v) == Holds(c, "analyze", File(c, "analyze"), Boundary[v])
AnalyzedOwn(c, v) == Only("analyze", File(c, "analyze"), Prompts[v])
DiskOK(c) ==
    disk[c] # None =>
       /\ disk[c].version <= config
       /\ disk[c].version = config => PhasesOK(c, disk[c])
       /\ disk[c].status = "complete" =>
             \A v \in Configurations : disk[c].version = v =>
                /\ Analyzed(c, v) /\ (~disk[c].borrowed => AnalyzedOwn(c, v))

(* A launcher is alone; its own document is of the present configuration,   *)
(* and of a phase that it has begun the inputs are there.                   *)
Inputs(p) == CASE p = "extract" -> {"build-manifest"} [] p = "describe" -> {"extract"}
               [] p = "behavior" -> {"build-manifest"} [] p = "analyze" -> {"describe", "behavior"}
               [] OTHER -> {}
RunOK(c) ==
    run[c].pc # "idle" =>
       /\ \A d \in Chains : run[d].pc # "idle" => d = c
       /\ run[c].st.version = config /\ PhasesOK(c, run[c].st)
       /\ run[c].pc # "next" =>
             /\ disk[c] = run[c].st /\ run[c].st.status = "running"
             /\ run[c].st.phase[run[c].ph] = "running"
             /\ \A p, q \in Names : run[c].ph = p /\ q \in Inputs(p) => Stands(c, q, run[c].st)
       /\ run[c].pc \in {"convert", "converting"} => run[c].ph = "prepare-av"
       /\ run[c].pc = "shards" => run[c].ph \in Sharded
       /\ run[c].pc = "last" => run[c].ph \in Artifacts

(* What shard s contributes to phase p.                                     *)
PartHolds(c, p, s) ==
    LET d == data[At(c, p, s)]
    IN /\ p = "extract" => /\ d.prompts = File(c, "build-manifest").prompts
                           /\ d.boundary = Now
       /\ p = "describe" => d.av = c /\ d.of = File(c, "extract")
       /\ p = "behavior" => d.prompts = File(c, "build-manifest").prompts
(* What its last command leaves: also of which inputs it is made.           *)
Source(c, p, d) == /\ p = "extract" => OfPrompts(d, File(c, "build-manifest").prompts)
                   /\ p = "describe" => Described(c, d, File(c, "extract"))
Sourced(c, p) == Source(c, p, File(c, p))
WholeHolds(c, p, st) == Stands(c, p, st) /\ Sourced(c, p)

(* The commands of the phase p that launcher c has begun.                   *)
CommandOK(c, p, k, j) ==
    /\ j.pc # "off" => \/ run[c].pc = "shards" /\ k \in Splits
                       \/ run[c].pc = "last" /\ k = "all"
    /\ j.pc \in {"read", "written"} => j.v = config
    /\ j.pc = "read" => j.in = IF IsMerge(p, k) THEN Parts(c, p)
                               ELSE Upstream(c, p)
    /\ j.pc \in {"written", "done"} => IF k = "all" THEN WholeHolds(c, p, run[c].st)
                                  ELSE PartHolds(c, p, k)
JobsOK(c) ==
    \A p \in Names : run[c].ph = p =>
       /\ run[c].pc = "shards" => \A s \in Splits : job[c][s].pc # "off"
       /\ run[c].pc = "last" => /\ job[c]["all"].pc # "off"
                                /\ p \in Sharded => \A s \in Splits : PartHolds(c, p, s)
       /\ \A k \in Commands : CommandOK(c, p, k, job[c][k])

(* A report is of a file that held what the report says of it.              *)
ReportOK(c, p) ==
    LET r == rep[At(c, p, "all")]
    IN r # None => /\ p = "extract" => /\ Extraction(r.sum, r.boundary)
                                       /\ OfPrompts(r.sum, r.up[1].prompts)
                   /\ p = "describe" => Described(c, r.sum, r.up[1])

DomainInv ==
    /\ Typed
    /\ \A c \in Chains : /\ DiskOK(c) /\ RunOK(c) /\ JobsOK(c)
                         /\ \A p \in Artifacts : ReportOK(c, p)

-----------------------------------------------------------------------------
LEMMA PhaseFacts ==
    /\ Names = {"build-manifest", "prepare-av", "extract", "describe", "behavior", "analyze"}
    /\ Artifacts = {"build-manifest", "extract", "describe", "behavior", "analyze"}
    /\ DOMAIN Phases = 1 .. 6
    /\ Phases[1] = "build-manifest" /\ Phases[2] = "prepare-av"
    /\ Phases[3] = "extract" /\ Phases[4] = "describe"
    /\ Phases[5] = "behavior" /\ Phases[6] = "analyze"
  <1>1. DOMAIN Phases = 1 .. 6
    BY DEF Phases
  <1>2. /\ Phases[1] = "build-manifest" /\ Phases[2] = "prepare-av"
        /\ Phases[3] = "extract" /\ Phases[4] = "describe"
        /\ Phases[5] = "behavior" /\ Phases[6] = "analyze"
    BY DEF Phases
  <1>3. 1 .. 6 = {1, 2, 3, 4, 5, 6}
    OBVIOUS
  <1>4. Names = {"build-manifest", "prepare-av", "extract", "describe", "behavior", "analyze"}
    BY <1>1, <1>2, <1>3, Zenon DEF Names
  <1> QED
    BY <1>1, <1>2, <1>4 DEF Artifacts

LEMMA VersionFacts ==
    /\ 1 \in Configurations /\ Configurations \subseteq Nat
    /\ DOMAIN Prompts = Configurations
  BY Domain DEF Configurations

(* Marking phases keeps a document otherwise as it is.                      *)
LEMMA MarkedFacts ==
    ASSUME NEW st \in State, NEW ps,
           NEW status \in {"pending", "running", "failed", "complete"}
    PROVE  /\ Marked(st, ps, status) \in State
           /\ Marked(st, ps, status).version = st.version
           /\ Marked(st, ps, status).status = st.status
           /\ Marked(st, ps, status).borrowed = st.borrowed
           /\ \A p \in Names : Marked(st, ps, status).phase[p] =
                                         IF p \in ps THEN status ELSE st.phase[p]
  BY DEF Marked, State

LEMMA RecordedFacts ==
    ASSUME NEW st \in State, NEW p,
           NEW status \in {"running", "failed", "complete"}
    PROVE  /\ Recorded(st, p, status) \in State
           /\ Recorded(st, p, status).version = st.version
           /\ Recorded(st, p, status).status = IF status = "failed" THEN "failed" ELSE "running"
           /\ Recorded(st, p, status).borrowed = st.borrowed
           /\ \A q \in Names : Recorded(st, p, status).phase[q] =
                                         IF q = p THEN status ELSE st.phase[q]
  <1>1. /\ Marked(st, {p}, status) \in State
        /\ Marked(st, {p}, status).version = st.version
        /\ Marked(st, {p}, status).borrowed = st.borrowed
        /\ \A q \in Names : Marked(st, {p}, status).phase[q] =
                                      IF q = p THEN status ELSE st.phase[q]
    BY MarkedFacts
  <1> QED
    BY <1>1 DEF Recorded, State

LEMMA NewFacts ==
    ASSUME NEW v \in Configurations
    PROVE  /\ NewState(v) \in State /\ NewState(v).version = v
           /\ NewState(v).status = "pending"
           /\ \A p \in Names : NewState(v).phase[p] = "pending"
  BY DEF NewState, State

LEMMA LoadedFacts ==
    ASSUME Typed, NEW c \in Chains, NEW resume \in BOOLEAN,
           resume => Resumable(c)
    PROVE  /\ Loaded(c, resume) \in State
           /\ Loaded(c, resume).version = config
           /\ \/ disk[c] # None /\ Loaded(c, resume) = disk[c]
              \/ Loaded(c, resume) = NewState(config)
  <1>1. config \in Configurations /\ disk[c] \in State \cup {None}
    BY DEF Typed
  <1>2. NewState(config) \in State /\ NewState(config).version = config
    BY <1>1, NewFacts
  <1> QED
    BY <1>1, <1>2 DEF Loaded, Resumable

(* A launch, a record, a wave of commands.                                  *)
LEMMA WaveFacts ==
    ASSUME NEW ks
    PROVE  /\ DOMAIN Wave(ks) = Commands
           /\ \A k \in Commands :
                 /\ DOMAIN Wave(ks)[k] = {"pc", "v", "in"}
                 /\ Wave(ks)[k].pc = IF k \in ks THEN "ready" ELSE "off"
  BY DEF Wave, NoJob

-----------------------------------------------------------------------------
LEMMA TypedIs == Typed => ChainTypeOK
  BY DEF Typed, ChainTypeOK, RunTyped, JobsTyped, JobTyped

LEMMA NoRunTyped == RunTyped(NoRun) /\ NoRun.pc = "idle"
  BY PhaseFacts DEF RunTyped, NoRun

LEMMA WaveTyped == \A ks : JobsTyped(Wave(ks))
  BY WaveFacts DEF JobsTyped, JobTyped

LEMMA RecordFacts ==
    ASSUME Typed, NEW c \in Chains, NEW p \in Names,
           NEW status \in {"running", "failed", "complete"},
           NEW pc \in {"idle", "next", "convert", "shards", "last"},
           run[c].pc # "idle", Record(c, p, status, pc)
    PROVE  LET st == Recorded(run[c].st, p, status)
           IN /\ st \in State
              /\ disk' \in [Chains -> State \cup {None}] /\ disk'[c] = st
              /\ DOMAIN run' = Chains
              /\ \A d \in Chains : RunTyped(run'[d])
              /\ \A d \in Chains \ {c} : run'[d] = run[d] /\ disk'[d] = disk[d]
              /\ run'[c].pc = pc
              /\ pc # "idle" => run'[c].ph = p /\ run'[c].st = st
  <1> DEFINE st == Recorded(run[c].st, p, status)
  <1>1. st \in State
    BY RecordedFacts DEF Typed, RunTyped
  <1>2. /\ disk' = [disk EXCEPT ![c] = st]
        /\ run' = [run EXCEPT ![c] = IF pc = "idle" THEN NoRun
                                     ELSE [run[c] EXCEPT !.pc = pc, !.ph = p, !.st = st]]
    BY DEF Record
  <1> HIDE DEF st
  <1>3. /\ disk' \in [Chains -> State \cup {None}] /\ disk'[c] = st
        /\ \A d \in Chains \ {c} : run'[d] = run[d] /\ disk'[d] = disk[d]
        /\ DOMAIN run' = Chains
    BY <1>1, <1>2 DEF Typed
  <1>4. CASE pc = "idle"
    <2>1. run'[c] = NoRun
      BY <1>2, <1>4 DEF Typed
    <2>2. \A d \in Chains : RunTyped(run'[d])
      BY <2>1, <1>3, NoRunTyped DEF Typed
    <2> QED
      BY <2>1, <2>2, <1>1, <1>3, <1>4, NoRunTyped DEF st
  <1>5. CASE pc # "idle"
    <2>1. run'[c] = [run[c] EXCEPT !.pc = pc, !.ph = p, !.st = st]
      BY <1>2, <1>5 DEF Typed
    <2>2. DOMAIN run[c] = {"pc", "ph", "st"}
      BY DEF Typed, RunTyped
    <2>3. /\ DOMAIN run'[c] = {"pc", "ph", "st"}
          /\ run'[c].pc = pc /\ run'[c].ph = p /\ run'[c].st = st
      BY <2>1, <2>2
    <2>4. RunTyped(run'[c])
      BY <2>3, <1>1 DEF RunTyped
    <2>5. \A d \in Chains : RunTyped(run'[d])
      BY <2>4, <1>3 DEF Typed
    <2> QED
      BY <2>3, <2>5, <1>1, <1>3 DEF st
  <1> QED
    BY <1>4, <1>5

(* A command of c takes a step that leaves the rest alone.                  *)
LEMMA CommandFacts ==
    ASSUME Typed, NEW c \in Chains, NEW k \in Commands, NEW j, JobTyped(j),
           job' = [job EXCEPT ![c][k] = j]
    PROVE  /\ DOMAIN job' = Chains /\ (\A d \in Chains : JobsTyped(job'[d]))
           /\ job'[c][k] = j
           /\ \A d \in Chains, m \in Commands :
                 d # c \/ m # k => job'[d][m] = job[d][m]
           /\ \A d \in Chains \ {c} : job'[d] = job[d]
  <1>1. /\ DOMAIN job = Chains /\ DOMAIN job[c] = Commands
        /\ \A d \in Chains, m \in Commands : JobTyped(job[d][m])
        /\ \A d \in Chains : DOMAIN job[d] = Commands
    BY DEF Typed, JobsTyped
  <1>2. job' = [job EXCEPT ![c] = [job[c] EXCEPT ![k] = j]]
    OBVIOUS
  <1>3. DOMAIN job' = Chains /\ (\A d \in Chains \ {c} : job'[d] = job[d])
        /\ job'[c] = [job[c] EXCEPT ![k] = j]
    BY <1>1, <1>2
  <1>4. DOMAIN job'[c] = Commands /\ job'[c][k] = j
        /\ \A m \in Commands : m # k => job'[c][m] = job[c][m]
    BY <1>1, <1>3
  <1>5. \A d \in Chains : JobsTyped(job'[d])
    BY <1>1, <1>3, <1>4 DEF JobsTyped
  <1> QED
    BY <1>3, <1>4, <1>5

LEMMA WavesFacts ==
    ASSUME Typed, NEW c \in Chains, NEW ks, job' = [job EXCEPT ![c] = Wave(ks)]
    PROVE  /\ DOMAIN job' = Chains /\ (\A d \in Chains : JobsTyped(job'[d]))
           /\ \A d \in Chains \ {c} : job'[d] = job[d]
           /\ \A k \in Commands : job'[c][k].pc = IF k \in ks THEN "ready" ELSE "off"
  <1>1. DOMAIN job = Chains /\ \A d \in Chains : JobsTyped(job[d])
    BY DEF Typed
  <1>2. /\ DOMAIN job' = Chains /\ (\A d \in Chains \ {c} : job'[d] = job[d])
        /\ job'[c] = Wave(ks)
    BY <1>1
  <1> QED
    BY <1>1, <1>2, WaveTyped, WaveFacts

-----------------------------------------------------------------------------
(* What is said of files depends on the files and the configuration only.   *)
LEMMA Frame ==
    ASSUME UNCHANGED <<config, data>>
    PROVE  /\ \A c, p : FileHolds(c, p)' <=> FileHolds(c, p)
           /\ \A c, p : OwnCases(c, p)' <=> OwnCases(c, p)
           /\ \A c, p : Sourced(c, p)' <=> Sourced(c, p)
           /\ \A c, p, s : PartHolds(c, p, s)' <=> PartHolds(c, p, s)
           /\ \A c, v : Analyzed(c, v)' <=> Analyzed(c, v)
           /\ \A c, v : AnalyzedOwn(c, v)' <=> AnalyzedOwn(c, v)
           /\ \A c, p : Parts(c, p)' = Parts(c, p)
           /\ \A c, p : Upstream(c, p)' = Upstream(c, p)
  <1>3. \A c, p : FileHolds(c, p)' <=> FileHolds(c, p)
    BY DEF FileHolds, Now, File
  <1>4. \A c, p : OwnCases(c, p)' <=> OwnCases(c, p)
    BY DEF OwnCases, Cases, File
  <1>5. \A c, p : Sourced(c, p)' <=> Sourced(c, p)
    BY DEF Sourced, Source, File
  <1>6. \A c, p, s : PartHolds(c, p, s)' <=> PartHolds(c, p, s)
    BY DEF PartHolds, Now, File
  <1>7. \A c, v : Analyzed(c, v)' <=> Analyzed(c, v)
    BY DEF Analyzed, File
  <1>8. \A c, v : AnalyzedOwn(c, v)' <=> AnalyzedOwn(c, v)
    BY DEF AnalyzedOwn, File
  <1>9. \A c, p : Parts(c, p)' = Parts(c, p)
    BY DEF Parts
  <1>10. \A c, p : Upstream(c, p)' = Upstream(c, p)
    BY DEF Upstream, File
  <1> QED
    BY <1>3, <1>4, <1>5, <1>6, <1>7, <1>8, <1>9, <1>10

(* A step of the one launcher c that leaves the files and reports alone.    *)
LEMMA LauncherStep ==
    ASSUME DomainInv, NEW c \in Chains, UNCHANGED <<config, data>>, Typed',
           UNCHANGED rep \/ \A d \in Chains, p \in Artifacts : ReportOK(d, p)',
           \A d \in Chains \ {c} : /\ run[d].pc = "idle" /\ run'[d] = run[d]
                                   /\ disk'[d] = disk[d] /\ job'[d] = job[d],
           DiskOK(c)', RunOK(c)', JobsOK(c)'
    PROVE  DomainInv'
  <1>1. \A d \in Chains : DiskOK(d)'
    <2> SUFFICES ASSUME NEW d \in Chains, d # c PROVE DiskOK(d)'
      OBVIOUS
    <2>1. DiskOK(d)
      BY DEF DomainInv
    <2> QED
      BY <2>1, Frame DEF DiskOK, PhasesOK, Stands
  <1>2. \A d \in Chains : RunOK(d)'
    <2> SUFFICES ASSUME NEW d \in Chains, d # c PROVE RunOK(d)'
      OBVIOUS
    <2> QED
      BY DEF RunOK
  <1>3. \A d \in Chains : JobsOK(d)'
    <2> SUFFICES ASSUME NEW d \in Chains, d # c PROVE JobsOK(d)'
      OBVIOUS
    <2>1. JobsOK(d)
      BY DEF DomainInv
    <2> QED
      BY <2>1, Frame DEF JobsOK, CommandOK, WholeHolds, Stands
  <1>4. \A d \in Chains, p \in Artifacts : ReportOK(d, p)'
    <2>1. UNCHANGED rep => \A d \in Chains, p \in Artifacts : ReportOK(d, p)'
      BY DEF DomainInv, ReportOK
    <2> QED
      BY <2>1
  <1> QED
    BY <1>1, <1>2, <1>3, <1>4 DEF DomainInv

(* No command runs outside a phase.                                         *)
LEMMA Quiet ==
    ASSUME NEW c \in Chains, \A k \in Commands : job'[c][k].pc = "off",
           run'[c].pc \notin {"shards", "last"}
    PROVE  JobsOK(c)'
  BY DEF JobsOK, CommandOK

LEMMA QuietIs ==
    ASSUME DomainInv, NEW c \in Chains, run[c].pc \notin {"shards", "last"}
    PROVE  \A k \in Commands : job[c][k].pc = "off"
  BY DEF DomainInv, JobsOK, CommandOK, Typed, RunTyped

LEMMA Alone ==
    ASSUME DomainInv, NEW c \in Chains, run[c].pc # "idle"
    PROVE  /\ \A d \in Chains \ {c} : run[d].pc = "idle"
           /\ run[c].st \in State /\ run[c].st.version = config
           /\ PhasesOK(c, run[c].st)
  BY DEF DomainInv, RunOK, Typed, RunTyped

(* _record_phase: the document that is written is true of the files.        *)
LEMMA RecordStep ==
    ASSUME DomainInv, NEW c \in Chains, NEW p \in Names,
           NEW status \in {"running", "failed", "complete"},
           NEW pc \in {"idle", "next", "convert", "shards", "last"},
           run[c].pc # "idle", Record(c, p, status, pc),
           UNCHANGED <<config, data, rep, hf, chainRestarts, chainFaults>>,
           DOMAIN job' = Chains, \A d \in Chains : JobsTyped(job'[d]),
           \A d \in Chains \ {c} : job'[d] = job[d],
           status = "complete" => p = "prepare-av" \/ Stands(c, p, run[c].st),
           pc \notin {"idle", "next"} =>
              /\ status = "running" /\ \A q \in Inputs(p) : Stands(c, q, run[c].st)
              /\ pc = "convert" => p = "prepare-av"
              /\ pc = "shards" => p \in Sharded
              /\ pc = "last" => p \in Artifacts,
           JobsOK(c)'
    PROVE  DomainInv'
  <1> DEFINE st == Recorded(run[c].st, p, status)
  <1>1. Typed
    BY DEF DomainInv
  <1>2. /\ st \in State
        /\ disk' \in [Chains -> State \cup {None}] /\ disk'[c] = st
        /\ DOMAIN run' = Chains
        /\ \A d \in Chains : RunTyped(run'[d])
        /\ \A d \in Chains \ {c} : run'[d] = run[d] /\ disk'[d] = disk[d]
        /\ run'[c].pc = pc
        /\ pc # "idle" => run'[c].ph = p /\ run'[c].st = st
    BY <1>1, RecordFacts
  <1>3. /\ \A d \in Chains \ {c} : run[d].pc = "idle"
        /\ run[c].st \in State /\ run[c].st.version = config
        /\ PhasesOK(c, run[c].st)
    BY Alone
  <1>4. /\ st.version = config /\ st.status # "complete" /\ st.borrowed = run[c].st.borrowed
        /\ status = "running" => st.status = "running"
        /\ \A q \in Names : st.phase[q] = IF q = p THEN status ELSE run[c].st.phase[q]
    BY <1>3, RecordedFacts
  <1> HIDE DEF st
  <1>5. \A q \in Artifacts : st.phase[q] = "complete" => Stands(c, q, st)
    BY <1>3, <1>4, PhaseFacts DEF PhasesOK, Stands
  <1>6. Typed'
    BY <1>1, <1>2 DEF Typed
  <1>7. config \in Nat
    BY <1>1, VersionFacts DEF Typed
  <1>8. DiskOK(c)'
    BY <1>2, <1>4, <1>5, <1>7, Frame DEF DiskOK, PhasesOK, Stands
  <1>9. RunOK(c)'
    BY <1>2, <1>3, <1>4, <1>5, Frame DEF RunOK, PhasesOK, Stands
  <1> QED
    BY <1>2, <1>3, <1>6, <1>8, <1>9, LauncherStep

LEMMA NextPhaseStep ==
    ASSUME DomainInv, NEW c \in Chains, NextPhase(c)
    PROVE  DomainInv'
  <1> DEFINE st == run[c].st
  <1>1. PICK i \in ToDo(st) :
           LET p == Phases[i]
               pc == IF p = "prepare-av" THEN "convert"
                     ELSE IF p \in Sharded THEN "shards" ELSE "last"
           IN /\ \A j \in ToDo(st) : i <= j
              /\ Record(c, p, "running", pc)
              /\ job' = [job EXCEPT ![c] = Wave(CASE pc = "shards" -> Splits
                                                         [] pc = "last" -> {"all"}
                                                         [] OTHER -> {})]
    BY DEF NextPhase, All
  <1> DEFINE p == Phases[i]
             pc == IF p = "prepare-av" THEN "convert"
                   ELSE IF p \in Sharded THEN "shards" ELSE "last"
             ks == CASE pc = "shards" -> Splits [] pc = "last" -> {"all"} [] OTHER -> {}
  <1>2. /\ run[c].pc = "next"
        /\ UNCHANGED <<config, data, rep, hf, chainRestarts, chainFaults>>
    BY DEF NextPhase
  <1>3. i \in 1 .. 6 /\ p \in Names
    BY <1>1, PhaseFacts DEF ToDo
  <1>4. \A j \in 1 .. 6 : j < i => st.phase[Phases[j]] = "complete"
    BY <1>1, <1>3, PhaseFacts DEF ToDo
  <1>5. Record(c, p, "running", pc) /\ job' = [job EXCEPT ![c] = Wave(ks)]
    BY <1>1
  <1>6. PhasesOK(c, st)
    BY <1>2, Alone
  <1>7. \A q \in Inputs(p) : q \in Artifacts /\ st.phase[q] = "complete"
    <2>1. i = 1 \/ i = 2 \/ i = 3 \/ i = 4 \/ i = 5 \/ i = 6
      BY <1>3
    <2> QED
      BY <1>4, <2>1, PhaseFacts DEF Inputs
  <1>8. \A q \in Inputs(p) : Stands(c, q, run[c].st)
    BY <1>6, <1>7 DEF PhasesOK
  <1>9. /\ pc \in {"convert", "shards", "last"}
        /\ pc = "convert" <=> p = "prepare-av"
        /\ pc = "shards" <=> p \in Sharded
        /\ pc = "last" => p \in Artifacts
        /\ pc = "shards" => ks = Splits
        /\ pc = "last" => ks = {"all"}
        /\ pc = "convert" => ks = {}
    BY <1>3, PhaseFacts DEF Sharded
  <1> HIDE DEF p, pc, ks
  <1>10. Typed
    BY DEF DomainInv
  <1>11. /\ DOMAIN job' = Chains /\ (\A d \in Chains : JobsTyped(job'[d]))
         /\ \A d \in Chains \ {c} : job'[d] = job[d]
         /\ \A k \in Commands : job'[c][k].pc = IF k \in ks THEN "ready" ELSE "off"
    BY <1>5, <1>10, WavesFacts
  <1>12. run'[c].pc = pc /\ run'[c].ph = p
    BY <1>2, <1>3, <1>5, <1>9, <1>10, RecordFacts
  <1>13. Splits \subseteq Commands /\ "all" \in Commands
    BY DEF Commands, All
  <1>14. JobsOK(c)'
    BY <1>9, <1>11, <1>12, <1>13 DEF JobsOK, CommandOK
  <1> QED
    BY <1>2, <1>3, <1>5, <1>8, <1>9, <1>11, <1>14, RecordStep

LEMMA PreparedStep ==
    ASSUME DomainInv, NEW c \in Chains, Prepared(c)
    PROVE  DomainInv'
  <1>1. /\ run[c].pc \in {"convert", "converting"}
        /\ Record(c, "prepare-av", "complete", "next")
        /\ UNCHANGED <<config, job, data, rep, hf, chainRestarts, chainFaults>>
    BY DEF Prepared
  <1>2. Typed /\ "prepare-av" \in Names
    BY PhaseFacts DEF DomainInv
  <1>3. run'[c].pc = "next"
    BY <1>1, <1>2, RecordFacts
  <1>4. JobsOK(c)'
    BY <1>1, <1>3, QuietIs, Quiet
  <1> QED
    BY <1>1, <1>2, <1>4, RecordStep DEF Typed

LEMMA NoWaveFacts ==
    ASSUME Typed, NEW c \in Chains, job' = [job EXCEPT ![c] = Wave({})]
    PROVE  /\ DOMAIN job' = Chains /\ (\A d \in Chains : JobsTyped(job'[d]))
           /\ \A d \in Chains \ {c} : job'[d] = job[d]
           /\ \A k \in Commands : job'[c][k].pc = "off"
  <1> DEFINE none == {}
  <1>1. job' = [job EXCEPT ![c] = Wave(none)]
    OBVIOUS
  <1>2. \A k : ~ (k \in none)
    OBVIOUS
  <1> HIDE DEF none
  <1>3. /\ DOMAIN job' = Chains /\ (\A d \in Chains : JobsTyped(job'[d]))
        /\ \A d \in Chains \ {c} : job'[d] = job[d]
        /\ \A k \in Commands : job'[c][k].pc = IF k \in none THEN "ready" ELSE "off"
    BY <1>1, WavesFacts
  <1>4. \A k \in Commands : job'[c][k].pc = "off"
    BY <1>2, <1>3
  <1> QED
    BY <1>3, <1>4

LEMMA EndPhaseStep ==
    ASSUME DomainInv, NEW c \in Chains, EndPhase(c)
    PROVE  DomainInv'
  <1> DEFINE p == run[c].ph
  <1>1. /\ run[c].pc \in {"shards", "last"}
        /\ job' = [job EXCEPT ![c] = Wave({})]
        /\ UNCHANGED <<config, data, rep, hf, chainRestarts, chainFaults>>
    BY DEF EndPhase
  <1>2. Typed /\ p \in Names
    BY DEF DomainInv, Typed, RunTyped
  <1>3. /\ DOMAIN job' = Chains /\ (\A d \in Chains : JobsTyped(job'[d]))
        /\ \A d \in Chains \ {c} : job'[d] = job[d]
        /\ \A k \in Commands : job'[c][k].pc = "off"
    BY <1>1, <1>2, NoWaveFacts
  <1>4. ASSUME run[c].pc = "last", Succeeded(c), Record(c, p, "complete", "next")
        PROVE  DomainInv'
    <2>1. job[c]["all"].pc = "done"
      BY <1>2, <1>4 DEF DomainInv, JobsOK, Succeeded, Commands, All
    <2>2. Stands(c, p, run[c].st)
      BY <1>2, <2>1 DEF DomainInv, JobsOK, CommandOK, WholeHolds, Commands, All
    <2>3. run'[c].pc = "next"
      BY <1>1, <1>2, <1>4, RecordFacts
    <2>4. JobsOK(c)'
      BY <1>3, <2>3, Quiet
    <2> QED
      BY <1>1, <1>2, <1>3, <1>4, <2>2, <2>4, RecordStep
  <1>5. ASSUME Record(c, p, "failed", "idle") PROVE DomainInv'
    <2>1. run'[c].pc = "idle"
      BY <1>1, <1>2, <1>5, RecordFacts
    <2>2. JobsOK(c)'
      BY <1>3, <2>1, Quiet
    <2> QED
      BY <1>1, <1>2, <1>3, <1>5, <2>2, RecordStep
  <1> QED
    BY <1>4, <1>5 DEF EndPhase

LEMMA MergeStep ==
    ASSUME DomainInv, NEW c \in Chains, Merge(c)
    PROVE  DomainInv'
  <1> DEFINE p == run[c].ph
  <1>1. /\ run[c].pc = "shards" /\ Succeeded(c)
        /\ run' = [run EXCEPT ![c].pc = "last"]
        /\ job' = [job EXCEPT ![c] = Wave({"all"})]
        /\ UNCHANGED <<config, disk, data, rep, hf, chainRestarts, chainFaults>>
    BY DEF Merge, All
  <1>2. Typed /\ p \in Names /\ DOMAIN run[c] = {"pc", "ph", "st"}
    BY DEF DomainInv, Typed, RunTyped
  <1>3. /\ DOMAIN job' = Chains /\ (\A d \in Chains : JobsTyped(job'[d]))
        /\ \A d \in Chains \ {c} : job'[d] = job[d]
        /\ \A k \in Commands : job'[c][k].pc = IF k \in {"all"} THEN "ready" ELSE "off"
    BY <1>1, <1>2, WavesFacts
  <1>4. /\ DOMAIN run' = Chains /\ \A d \in Chains \ {c} : run'[d] = run[d]
        /\ run'[c].pc = "last" /\ run'[c].ph = p /\ run'[c].st = run[c].st
        /\ DOMAIN run'[c] = {"pc", "ph", "st"}
    BY <1>1, <1>2 DEF Typed
  <1>5. Typed'
    BY <1>1, <1>2, <1>3, <1>4 DEF Typed, RunTyped
  <1>6. DiskOK(c) /\ RunOK(c) /\ JobsOK(c)
    BY DEF DomainInv
  <1>7. DiskOK(c)'
    BY <1>1, <1>6, Frame DEF DiskOK, PhasesOK, Stands
  <1>8. p \in Sharded /\ p \in Artifacts
    BY <1>1, <1>6, PhaseFacts DEF RunOK, Sharded
  <1>9. RunOK(c)'
    BY <1>1, <1>4, <1>6, <1>8, Frame DEF RunOK, PhasesOK, Stands
  <1>10. \A s \in Splits : s \in Commands /\ s # "all"
    BY Domain DEF Commands, All
  <1>11. \A s \in Splits : job[c][s].pc = "done"
    BY <1>1, <1>2, <1>6, <1>10 DEF JobsOK, Succeeded
  <1>12. \A s \in Splits : PartHolds(c, p, s)
    <2> SUFFICES ASSUME NEW s \in Splits PROVE PartHolds(c, p, s)
      OBVIOUS
    <2>1. CommandOK(c, p, s, job[c][s])
      BY <1>2, <1>6, <1>10 DEF JobsOK
    <2> QED
      BY <2>1, <1>10, <1>11 DEF CommandOK
  <1>13. "all" \in Commands
    BY DEF Commands, All
  <1>14. JobsOK(c)'
    <2> SUFFICES ASSUME NEW q \in Names, run'[c].ph = q
                 PROVE  /\ job'[c]["all"].pc # "off"
                        /\ \A s \in Splits : PartHolds(c, q, s)'
                        /\ \A k \in Commands : CommandOK(c, q, k, job[c][k])'
      BY <1>4 DEF JobsOK
    <2>1. \A s \in Splits : PartHolds(c, q, s)'
      BY <1>1, <1>4, <1>12, Frame
    <2>2. \A k \in Commands : CommandOK(c, q, k, job[c][k])'
      BY <1>3, <1>4 DEF CommandOK
    <2> QED
      BY <1>3, <1>13, <2>1, <2>2
  <1>15. \A d \in Chains \ {c} : run[d].pc = "idle"
    BY <1>1, Alone
  <1> QED
    BY <1>1, <1>3, <1>4, <1>5, <1>7, <1>9, <1>14, <1>15, LauncherStep

(* Steps in the conversion, the clean-up and the last write.                *)
LEMMA ConvertStep ==
    ASSUME DomainInv, NEW c \in Chains, Convert(c)
    PROVE  DomainInv'
  <1>1. /\ run[c].pc \in {"convert", "converting"} /\ hf[c] # "whole"
        /\ run[c].pc = "convert" => ~HasConfigJson(c)
        /\ hf' = [hf EXCEPT ![c] = IF run[c].pc = "convert" THEN "partial"
                                   ELSE Converting(hf[c])]
        /\ run' = [run EXCEPT ![c].pc = "converting"]
        /\ UNCHANGED <<config, disk, job, data, rep, chainRestarts, chainFaults>>
    BY DEF Convert
  <1>2. Typed /\ DOMAIN run[c] = {"pc", "ph", "st"}
    BY DEF DomainInv, Typed, RunTyped
  <1>3. /\ DOMAIN run' = Chains /\ \A d \in Chains \ {c} : run'[d] = run[d]
        /\ run'[c].pc = "converting" /\ run'[c].ph = run[c].ph /\ run'[c].st = run[c].st
        /\ DOMAIN run'[c] = {"pc", "ph", "st"}
    BY <1>1, <1>2 DEF Typed
  <1>4. Typed'
    <2>1. hf[c] \in {"none", "partial", "half"}
      BY <1>1, <1>2 DEF Typed
    <2>2. Converting(hf[c]) \in {"none", "partial", "half", "whole"}
      BY <2>1 DEF Converting
    <2>3. hf' \in [Chains -> {"none", "partial", "half", "whole"}]
      BY <1>1, <1>2, <2>2 DEF Typed
    <2> QED
      BY <1>1, <1>2, <1>3, <2>3 DEF Typed, RunTyped
  <1>5. DiskOK(c) /\ RunOK(c)
    BY DEF DomainInv
  <1>6. DiskOK(c)'
    BY <1>1, <1>5, Frame DEF DiskOK, PhasesOK, Stands
  <1>7. RunOK(c)'
    BY <1>1, <1>3, <1>5, Frame DEF RunOK, PhasesOK, Stands
  <1>8. JobsOK(c)'
    BY <1>1, <1>3, QuietIs, Quiet
  <1>9. \A d \in Chains \ {c} : run[d].pc = "idle"
    BY <1>1, Alone
  <1> QED
    BY <1>1, <1>3, <1>4, <1>6, <1>7, <1>8, <1>9, LauncherStep

LEMMA CleanUpStep ==
    ASSUME DomainInv, NEW c \in Chains, CleanUp(c)
    PROVE  DomainInv'
  <1>1. /\ hf' = [hf EXCEPT ![c] = IF hf[c] = "whole" THEN "half" ELSE "none"]
        /\ UNCHANGED <<config, disk, run, job, data, rep, chainRestarts, chainFaults>>
    BY DEF CleanUp
  <1>2. Typed'
    BY <1>1 DEF DomainInv, Typed
  <1>3. \A d \in Chains : DiskOK(d) /\ RunOK(d) /\ JobsOK(d)
    BY DEF DomainInv
  <1>4. \A d \in Chains : DiskOK(d)' /\ RunOK(d)'
    BY <1>1, <1>3, Frame DEF DiskOK, RunOK, PhasesOK, Stands
  <1>5. \A d \in Chains : JobsOK(d)'
    BY <1>1, <1>3, Frame DEF JobsOK, CommandOK, WholeHolds, Stands
  <1>6. \A d \in Chains, p \in Artifacts : ReportOK(d, p)'
    BY <1>1 DEF DomainInv, ReportOK
  <1> QED
    BY <1>2, <1>4, <1>5, <1>6 DEF DomainInv

LEMMA FinishStep ==
    ASSUME DomainInv, NEW c \in Chains, FinishChain(c)
    PROVE  DomainInv'
  <1> DEFINE st == [run[c].st EXCEPT !.status = "complete"]
  <1>1. /\ run[c].pc = "next" /\ ToDo(run[c].st) = {}
        /\ disk' = [disk EXCEPT ![c] = st]
        /\ run' = [run EXCEPT ![c] = NoRun]
        /\ UNCHANGED <<config, job, data, rep, hf, chainRestarts, chainFaults>>
    BY DEF FinishChain
  <1>2. Typed
    BY DEF DomainInv
  <1>3. /\ \A d \in Chains \ {c} : run[d].pc = "idle"
        /\ run[c].st \in State /\ run[c].st.version = config
        /\ PhasesOK(c, run[c].st)
    BY <1>1, Alone
  <1>4. /\ st \in State /\ st.version = config /\ st.phase = run[c].st.phase
        /\ st.borrowed = run[c].st.borrowed
    BY <1>3 DEF State
  <1>5. run[c].st.phase["analyze"] = "complete"
    BY <1>1, PhaseFacts DEF ToDo
  <1>6. Analyzed(c, config) /\ (~st.borrowed => AnalyzedOwn(c, config))
    BY <1>3, <1>4, <1>5, PhaseFacts
    DEF PhasesOK, Stands, FileHolds, OwnCases, Analyzed, AnalyzedOwn, Now, Cases
  <1> HIDE DEF st
  <1>7. /\ disk' \in [Chains -> State \cup {None}] /\ disk'[c] = st
        /\ DOMAIN run' = Chains /\ run'[c] = NoRun
        /\ \A d \in Chains \ {c} : run'[d] = run[d] /\ disk'[d] = disk[d]
    BY <1>1, <1>2, <1>4 DEF Typed
  <1>8. Typed' /\ run'[c].pc = "idle"
    BY <1>1, <1>2, <1>7, NoRunTyped DEF Typed
  <1>9. config \in Nat
    BY <1>2, VersionFacts DEF Typed
  <1>10. DiskOK(c)'
    BY <1>1, <1>3, <1>4, <1>6, <1>7, <1>9, Frame DEF DiskOK, PhasesOK, Stands
  <1>11. RunOK(c)'
    BY <1>8 DEF RunOK
  <1>12. JobsOK(c)'
    BY <1>1, <1>8, QuietIs, Quiet
  <1> QED
    BY <1>1, <1>3, <1>7, <1>8, <1>10, <1>11, <1>12, LauncherStep

-----------------------------------------------------------------------------
(* The commands.  A command that changes no file:                           *)
LEMMA Active ==
    ASSUME DomainInv, NEW c \in Chains, NEW k \in Commands, job[c][k].pc # "off"
    PROVE  /\ run[c].ph \in Names /\ CommandOK(c, run[c].ph, k, job[c][k])
           /\ (run[c].pc = "shards" /\ k \in Splits) \/ (run[c].pc = "last" /\ k = "all")
           /\ run[c].ph \in Artifacts
           /\ k \in Splits => run[c].ph \in Sharded
           /\ \A d \in Chains \ {c} : run[d].pc = "idle"
  <1>1. run[c].ph \in Names /\ JobsOK(c) /\ RunOK(c)
    BY DEF DomainInv, Typed, RunTyped
  <1>2. CommandOK(c, run[c].ph, k, job[c][k])
    BY <1>1 DEF JobsOK
  <1>3. (run[c].pc = "shards" /\ k \in Splits) \/ (run[c].pc = "last" /\ k = "all")
    BY <1>2 DEF CommandOK
  <1>4. run[c].ph \in Artifacts
    BY <1>1, <1>3, PhaseFacts DEF RunOK, Sharded
  <1>5. k \in Splits => run[c].ph \in Sharded
    BY <1>1, <1>3, Domain DEF RunOK, All
  <1>6. \A d \in Chains \ {c} : run[d].pc = "idle"
    BY <1>3, Alone
  <1> QED
    BY <1>1, <1>2, <1>3, <1>4, <1>5, <1>6

LEMMA CommandStep ==
    ASSUME DomainInv, NEW c \in Chains, NEW k \in Commands,
           NEW j, JobTyped(j), job[c][k].pc # "off", j.pc # "off",
           job' = [job EXCEPT ![c][k] = j],
           UNCHANGED <<config, disk, run, data, hf, chainRestarts>>, chainFaults' \in 0 .. MaxChainFaults,
           DOMAIN rep' = Slots,
           UNCHANGED rep \/ \A d \in Chains, p \in Artifacts : ReportOK(d, p)',
           CommandOK(c, run[c].ph, k, j)
    PROVE  DomainInv'
  <1>1. Typed /\ DiskOK(c) /\ RunOK(c) /\ JobsOK(c) /\ run[c].ph \in Names
    BY DEF DomainInv, Typed, RunTyped
  <1>2. /\ DOMAIN job' = Chains /\ (\A d \in Chains : JobsTyped(job'[d]))
        /\ job'[c][k] = j
        /\ \A d \in Chains, m \in Commands :
              d # c \/ m # k => job'[d][m] = job[d][m]
        /\ \A d \in Chains \ {c} : job'[d] = job[d]
    BY <1>1, CommandFacts
  <1>3. Typed'
    BY <1>1, <1>2 DEF Typed
  <1>4. DiskOK(c)' /\ RunOK(c)'
    BY <1>1, Frame DEF DiskOK, RunOK, PhasesOK, Stands
  <1>5. JobsOK(c)'
    <2> SUFFICES ASSUME NEW p \in Names, run[c].ph = p
                 PROVE  /\ run[c].pc = "shards" => \A s \in Splits : job'[c][s].pc # "off"
                        /\ run[c].pc = "last" =>
                              /\ job'[c]["all"].pc # "off"
                              /\ p \in Sharded => \A s \in Splits : PartHolds(c, p, s)
                        /\ \A m \in Commands : CommandOK(c, p, m, job[c][m])'
      BY Frame DEF JobsOK
    <2>1. \A m \in Commands : CommandOK(c, p, m, job'[c][m])
      BY <1>1, <1>2 DEF JobsOK
    <2>2. \A m \in Commands : CommandOK(c, p, m, job[c][m])'
      BY <2>1, Frame DEF CommandOK, WholeHolds, Stands
    <2>3. Splits \subseteq Commands /\ "all" \in Commands
      BY DEF Commands, All
    <2> QED
      BY <1>1, <1>2, <2>2, <2>3 DEF JobsOK
  <1>6. \A d \in Chains \ {c} : run[d].pc = "idle"
    BY Active
  <1> QED
    BY <1>2, <1>3, <1>4, <1>5, <1>6, LauncherStep

LEMMA SimpleCommandStep ==
    ASSUME DomainInv, NEW c \in Chains, NEW k \in Commands,
           Read(c, k) \/ CommandRefuses(c, k) \/ CommandFails(c, k)
    PROVE  DomainInv'
  <1>1. Typed /\ JobTyped(job[c][k]) /\ run[c].ph \in Names
    BY DEF DomainInv, Typed, RunTyped, JobsTyped
  <1>2. chainFaults \in 0 .. MaxChainFaults /\ MaxChainFaults \in Nat
    BY <1>1, Domain DEF Typed
  <1>3. CASE Read(c, k)
    <2> DEFINE j == [pc |-> "read", v |-> config,
                     in |-> IF IsMerge(run[c].ph, k) THEN Parts(c, run[c].ph)
                            ELSE Upstream(c, run[c].ph)]
    <2>1. /\ job[c][k].pc = "ready" /\ job' = [job EXCEPT ![c][k] = j]
          /\ UNCHANGED <<config, disk, run, data, rep, hf, chainRestarts, chainFaults>>
      BY <1>3 DEF Read
    <2>2. CommandOK(c, run[c].ph, k, job[c][k])
      BY <2>1, Active
    <2>3. /\ j.pc = "read" /\ j.v = config
          /\ j.in = IF IsMerge(run[c].ph, k) THEN Parts(c, run[c].ph)
                    ELSE Upstream(c, run[c].ph)
          /\ DOMAIN j = {"pc", "v", "in"}
      OBVIOUS
    <2> HIDE DEF j
    <2>4. JobTyped(j) /\ CommandOK(c, run[c].ph, k, j)
      BY <2>1, <2>2, <2>3 DEF CommandOK, JobTyped
    <2>5. DOMAIN rep' = Slots
      BY <1>1, <2>1 DEF Typed
    <2>6. job[c][k].pc # "off" /\ j.pc # "off" /\ chainFaults' \in 0 .. MaxChainFaults
      BY <1>2, <2>1, <2>3
    <2>7. UNCHANGED <<config, disk, run, data, hf, chainRestarts>> /\ UNCHANGED rep
      BY <2>1
    <2> QED
      BY <2>1, <2>4, <2>5, <2>6, <2>7, CommandStep
  <1>4. CASE CommandRefuses(c, k) \/ CommandFails(c, k)
    <2> DEFINE j == [NoJob EXCEPT !.pc = "failed"]
    <2>1. /\ job[c][k].pc \in {"ready", "read", "written"} /\ job' = [job EXCEPT ![c][k] = j]
          /\ UNCHANGED <<config, disk, run, data, rep, hf, chainRestarts>>
          /\ chainFaults' \in 0 .. MaxChainFaults
      BY <1>2, <1>4 DEF CommandRefuses, CommandFails
    <2>2. CommandOK(c, run[c].ph, k, job[c][k])
      BY <2>1, Active
    <2>3. j.pc = "failed" /\ DOMAIN j = {"pc", "v", "in"}
      BY DEF NoJob
    <2> HIDE DEF j
    <2>4. JobTyped(j) /\ CommandOK(c, run[c].ph, k, j)
      BY <2>1, <2>2, <2>3 DEF CommandOK, JobTyped
    <2>5. DOMAIN rep' = Slots
      BY <1>1, <2>1 DEF Typed
    <2>6. job[c][k].pc # "off" /\ j.pc # "off" /\ chainFaults' \in 0 .. MaxChainFaults
      BY <2>1, <2>3
    <2>7. UNCHANGED <<config, disk, run, data, hf, chainRestarts>> /\ UNCHANGED rep
      BY <2>1
    <2> QED
      BY <2>1, <2>4, <2>5, <2>6, <2>7, CommandStep
  <1> QED
    BY <1>3, <1>4

(* Which slots are whose.                                                   *)
LEMMA SlotFacts ==
    ASSUME NEW c \in Chains, NEW p \in Artifacts, NEW k \in Commands
    PROVE  /\ At(c, p, k) \in Slots
           /\ \A d \in Chains, q \in Artifacts, m \in Commands :
                 /\ At(d, q, m) = At(c, p, k) => q = p /\ m = k
                 /\ At(d, q, m) = At(c, p, k) /\ d # c =>
                       p \in {"build-manifest", "extract"}
                 /\ p \in {"build-manifest", "extract"} => At(d, p, k) = At(c, p, k)
  BY Domain DEF At, Owner, Slots

(* What a command makes of the inputs that are there now.                   *)
LEMMA MadePart ==
    ASSUME NEW c \in Chains, NEW s \in Splits, NEW p \in Sharded
    PROVE  LET e == Made(c, p, s, Upstream(c, p), config)
           IN /\ p = "extract" => /\ e.prompts = File(c, "build-manifest").prompts
                                  /\ e.boundary = Now
              /\ p = "describe" => e.av = c /\ e.of = File(c, "extract")
              /\ p = "behavior" => e.prompts = File(c, "build-manifest").prompts
  <1>1. s # "all"
    BY Domain DEF All
  <1>2. CASE p = "extract"
    <2>1. Upstream(c, p) = <<File(c, "build-manifest")>>
      BY <1>2 DEF Upstream
    <2>2. Made(c, p, s, Upstream(c, p), config)
             = [prompts |-> File(c, "build-manifest").prompts, boundary |-> Boundary[config]]
      BY <1>1, <1>2, <2>1 DEF Made, IsMerge, All
    <2> QED
      BY <1>2, <2>2 DEF Now
  <1>3. CASE p = "describe"
    <2>1. Upstream(c, p) = <<File(c, "extract")>>
      BY <1>3 DEF Upstream
    <2>2. Made(c, p, s, Upstream(c, p), config)
             = [of |-> File(c, "extract"), av |-> c]
      BY <1>1, <1>3, <2>1 DEF Made, IsMerge, All
    <2> QED
      BY <1>3, <2>2
  <1>4. CASE p = "behavior"
    <2>1. Upstream(c, p) = <<File(c, "build-manifest"), File(c, "extract")>>
      BY <1>4 DEF Upstream
    <2>2. Made(c, p, s, Upstream(c, p), config)
             = [prompts |-> File(c, "build-manifest").prompts]
      BY <1>1, <1>4, <2>1 DEF Made, IsMerge, All
    <2> QED
      BY <1>4, <2>2
  <1> QED
    BY <1>2, <1>3, <1>4 DEF Sharded

LEMMA MadeWhole ==
    ASSUME NEW c \in Chains, NEW p \in Artifacts, RunOK(c), JobsOK(c),
           run[c].ph = p, run[c].pc = "last",
           NEW in, in = IF IsMerge(p, "all") THEN Parts(c, p) ELSE Upstream(c, p)
    PROVE  LET e == Made(c, p, "all", in, config)
           IN /\ Holds(c, p, e, Now) /\ Source(c, p, e)
              /\ p = "build-manifest" => e.prompts = Cases
              /\ ~run[c].st.borrowed =>
                    /\ Only(p, e, Cases)
                    /\ p # "build-manifest" => File(c, "build-manifest").prompts = Cases
  <1>1. \A q \in Names : q \in Inputs(p) => Stands(c, q, run[c].st)
    BY PhaseFacts DEF RunOK
  <1>2. CASE p = "build-manifest"
    <2>1. Made(c, p, "all", in, config) = [prompts |-> Prompts[config]]
      BY <1>2 DEF Made, IsMerge, Sharded, All
    <2> QED
      BY <1>2, <2>1 DEF Holds, Source, Only, Cases
  <1>3. CASE p \in Sharded
    <2>1. IsMerge(p, "all")
      BY <1>3 DEF IsMerge, All
    <2>2. Made(c, p, "all", in, config) = Parts(c, p)
      BY <1>3, <2>1 DEF Made, Sharded, All
    <2>3. \A s \in Splits : PartHolds(c, p, s)
      BY <1>3, PhaseFacts DEF JobsOK, Sharded
    <2>4. \A s \in Splits : Parts(c, p)[s] = data[At(c, p, s)]
      BY DEF Parts
    <2>5. p = "describe" => Stands(c, "extract", run[c].st)
      BY <1>1, PhaseFacts DEF Inputs
    <2>6. p \in {"extract", "behavior"} => Stands(c, "build-manifest", run[c].st)
      BY <1>1, PhaseFacts DEF Inputs
    <2>7. Holds(c, p, Parts(c, p), Now)
      <3>1. p = "describe" => Extraction(File(c, "extract"), Now)
        BY <2>5 DEF Stands, FileHolds, Holds
      <3> QED
        BY <1>3, <2>3, <2>4, <3>1 DEF PartHolds, Holds, Extraction, Description, Decision, Sharded
    <2>8. Source(c, p, Parts(c, p))
      BY <1>3, <2>3, <2>4 DEF PartHolds, Source, OfPrompts, Described, Sharded
    <2>9. ASSUME ~run[c].st.borrowed
          PROVE  Only(p, Parts(c, p), Cases) /\ File(c, "build-manifest").prompts = Cases
      <3>1. File(c, "build-manifest").prompts = Cases
        BY <1>3, <2>5, <2>6, <2>9 DEF Stands, OwnCases, Sharded
      <3>2. p = "describe" => OfPrompts(File(c, "extract"), Cases)
        BY <2>5, <2>9 DEF Stands, OwnCases, Only
      <3> QED
        BY <1>3, <2>3, <2>4, <3>1, <3>2 DEF PartHolds, Only, OfPrompts, Describes, Sharded
    <2> QED
      BY <1>3, <2>2, <2>7, <2>8, <2>9 DEF Sharded
  <1>4. CASE p = "analyze"
    <2>1. Stands(c, "describe", run[c].st) /\ Stands(c, "behavior", run[c].st)
      BY <1>1, <1>4, PhaseFacts DEF Inputs
    <2>2. in = <<File(c, "describe"), File(c, "behavior")>>
      BY <1>4 DEF Upstream, IsMerge, Sharded
    <2>3. Made(c, p, "all", in, config)
             = [described |-> File(c, "describe"), decided |-> File(c, "behavior")]
      BY <1>4, <2>2 DEF Made, IsMerge, Sharded, All
    <2> QED
      BY <1>4, <2>1, <2>3 DEF Stands, FileHolds, Holds, Source, OwnCases, Only
  <1> QED
    BY <1>2, <1>3, <1>4, PhaseFacts DEF Sharded

(* A command writes a file that holds what its phase promises: no file of   *)
(* another chain or phase ceases to hold, or to be of the configured cases. *)
LEMMA WrittenFiles ==
    ASSUME Typed, NEW c \in Chains, NEW p \in Artifacts,
           NEW k \in Commands, NEW e, UNCHANGED config,
           data' = [data EXCEPT ![At(c, p, k)] = e],
           k = "all" => /\ Holds(c, p, e, Now)
                        /\ p = "build-manifest" => e.prompts = Cases
                        /\ p = "extract" => OfPrompts(e, File(c, "build-manifest").prompts)
    PROVE  /\ DOMAIN data' = Slots /\ data'[At(c, p, k)] = e
           /\ \A d \in Chains, q \in Artifacts, m \in Commands :
                 q # p \/ m # k => data'[At(d, q, m)] = data[At(d, q, m)]
           /\ \A d \in Chains, q \in Artifacts :
                 q # p \/ k # "all" => File(d, q)' = File(d, q)
           /\ \A d \in Chains, q \in Artifacts : FileHolds(d, q) => FileHolds(d, q)'
           /\ \A d \in Chains, q \in Artifacts :
                 (d # c \/ q # p) /\ OwnCases(d, q) => OwnCases(d, q)'
           /\ k = "all" => FileHolds(c, p)'
           /\ k = "all" /\ Only(p, e, Cases)
                /\ (p # "build-manifest" => File(c, "build-manifest").prompts = Cases)
              => OwnCases(c, p)'
           /\ \A d \in Chains : \A v : d # c \/ p # "analyze" =>
                 /\ Analyzed(d, v) => Analyzed(d, v)'
                 /\ AnalyzedOwn(d, v) => AnalyzedOwn(d, v)'
  <1>1. /\ At(c, p, k) \in Slots
        /\ \A d \in Chains, q \in Artifacts, m \in Commands :
              /\ At(d, q, m) = At(c, p, k) => q = p /\ m = k
              /\ At(d, q, m) = At(c, p, k) /\ d # c =>
                    p \in {"build-manifest", "extract"}
              /\ p \in {"build-manifest", "extract"} => At(d, p, k) = At(c, p, k)
    BY SlotFacts
  <1>2. /\ DOMAIN data' = Slots /\ data'[At(c, p, k)] = e
        /\ \A x \in Slots : x # At(c, p, k) => data'[x] = data[x]
    BY <1>1 DEF Typed
  <1>3. \A d \in Chains, q \in Artifacts, m \in Commands :
           At(d, q, m) \in Slots
    BY SlotFacts
  <1>4. \A d \in Chains, q \in Artifacts, m \in Commands :
           q # p \/ m # k => data'[At(d, q, m)] = data[At(d, q, m)]
    BY <1>1, <1>2, <1>3
  <1>5. "all" \in Commands
    BY DEF Commands, All
  <1>6. \A d \in Chains, q \in Artifacts :
           /\ File(d, q) = data[At(d, q, "all")]
           /\ File(d, q)' = data'[At(d, q, "all")]
    BY DEF File, All
  <1>7. \A d \in Chains, q \in Artifacts :
           q # p \/ k # "all" => File(d, q)' = File(d, q)
    BY <1>4, <1>5, <1>6
  <1>8. \A d \in Chains, q \in Artifacts :
           FileHolds(d, q)' <=> Holds(d, q, File(d, q)', Now)
    BY DEF FileHolds, Now
  <1>9. k = "all" => FileHolds(c, p)'
    BY <1>2, <1>6, <1>8
  <1>10. ASSUME NEW d \in Chains, NEW q \in Artifacts, FileHolds(d, q)
         PROVE  FileHolds(d, q)'
    <2>1. CASE At(d, q, "all") = At(c, p, k)
      <3>1. q = p /\ k = "all" /\ (d # c => p \in {"build-manifest", "extract"})
        BY <1>1, <1>5, <2>1
      <3>2. File(d, q)' = e /\ Holds(c, p, e, Now)
        BY <1>2, <1>6, <2>1, <3>1
      <3>3. Holds(d, q, e, Now)
        BY <3>1, <3>2 DEF Holds
      <3> QED
        BY <1>8, <3>2, <3>3
    <2>2. CASE At(d, q, "all") # At(c, p, k)
      <3>1. File(d, q)' = File(d, q)
        BY <1>2, <1>3, <1>5, <1>6, <2>2
      <3> QED
        BY <1>8, <1>10, <3>1 DEF FileHolds
    <2> QED
      BY <2>1, <2>2
  <1>11. ASSUME NEW d \in Chains, NEW v, d # c \/ p # "analyze"
         PROVE  /\ Analyzed(d, v) => Analyzed(d, v)'
                /\ AnalyzedOwn(d, v) => AnalyzedOwn(d, v)'
    <2>1. "analyze" \in Artifacts
      BY PhaseFacts
    <2>2. At(d, "analyze", "all") # At(c, p, k)
      BY <1>1, <1>5, <1>11, <2>1
    <2>3. File(d, "analyze")' = File(d, "analyze")
      BY <1>2, <1>3, <1>5, <1>6, <2>1, <2>2
    <2> QED
      BY <2>3 DEF Analyzed, AnalyzedOwn
  <1>12. \A d \in Chains, q \in Artifacts :
            OwnCases(d, q)' <=> /\ File(d, "build-manifest")'.prompts = Cases
                                /\ Only(q, File(d, q)', Cases)
    BY DEF OwnCases, Cases
  <1>13. {"build-manifest", "extract"} \subseteq Artifacts
    BY PhaseFacts
  <1>14. \A d \in Chains : File(d, "build-manifest") = File(c, "build-manifest")
    BY DEF File, At, Owner
  <1>15. p = "build-manifest" /\ k = "all" =>
            \A d \in Chains : File(d, "build-manifest")'.prompts = Cases
    BY <1>1, <1>2, <1>6, <1>13
  <1>16. \A d \in Chains : File(d, "build-manifest").prompts = Cases =>
                             File(d, "build-manifest")'.prompts = Cases
    BY <1>7, <1>13, <1>15
  <1>17. ASSUME NEW d \in Chains, NEW q \in Artifacts, d # c \/ q # p, OwnCases(d, q)
         PROVE  OwnCases(d, q)'
    <2>1. File(d, "build-manifest").prompts = Cases /\ Only(q, File(d, q), Cases)
      BY <1>17 DEF OwnCases
    <2>2. CASE At(d, q, "all") = At(c, p, k)
      <3>1. q = p /\ k = "all" /\ p \in {"build-manifest", "extract"}
        BY <1>1, <1>5, <1>17, <2>2
      <3>2. File(d, q)' = e
        BY <1>2, <1>6, <2>2
      <3>3. Only(q, e, Cases)
        BY <1>14, <2>1, <3>1 DEF Only
      <3> QED
        BY <1>12, <1>16, <2>1, <3>2, <3>3
    <2>3. CASE At(d, q, "all") # At(c, p, k)
      <3>1. File(d, q)' = File(d, q)
        BY <1>2, <1>3, <1>5, <1>6, <2>3
      <3> QED
        BY <1>12, <1>16, <2>1, <3>1
    <2> QED
      BY <2>2, <2>3
  <1>18. ASSUME k = "all", Only(p, e, Cases),
                p # "build-manifest" => File(c, "build-manifest").prompts = Cases
         PROVE  OwnCases(c, p)'
    <2>1. File(c, p)' = e
      BY <1>2, <1>6, <1>18
    <2>2. File(c, "build-manifest")'.prompts = Cases
      BY <1>15, <1>16, <1>18
    <2> QED
      BY <1>12, <1>18, <2>1, <2>2
  <1> QED
    BY <1>2, <1>4, <1>7, <1>9, <1>10, <1>11, <1>17, <1>18

LEMMA WriteStep ==
    ASSUME DomainInv, NEW c \in Chains, NEW k \in Commands, Write(c, k)
    PROVE  DomainInv'
  <1>a. PICK p : p = run[c].ph
    OBVIOUS
  <1>b. PICK e : e = Made(c, p, k, job[c][k].in, job[c][k].v)
    OBVIOUS
  <1>c. PICK j : j = [job[c][k] EXCEPT !.pc = "written"]
    OBVIOUS
  <1>1. /\ job[c][k].pc = "read"
        /\ data' = [data EXCEPT ![At(c, p, k)] = e]
        /\ job' = [job EXCEPT ![c][k].pc = "written"]
        /\ UNCHANGED <<config, disk, run, rep, hf, chainRestarts, chainFaults>>
    BY <1>a, <1>b DEF Write
  <1>2. Typed /\ JobTyped(job[c][k]) /\ DiskOK(c) /\ RunOK(c) /\ JobsOK(c)
    BY DEF DomainInv, Typed, JobsTyped
  <1>3. /\ p \in Names /\ CommandOK(c, p, k, job[c][k])
        /\ (run[c].pc = "shards" /\ k \in Splits) \/ (run[c].pc = "last" /\ k = "all")
        /\ p \in Artifacts /\ (k \in Splits => p \in Sharded)
        /\ \A d \in Chains \ {c} : run[d].pc = "idle"
    BY <1>1, <1>a, Active
  <1>4. /\ job[c][k].v = config
        /\ job[c][k].in = IF IsMerge(p, k) THEN Parts(c, p) ELSE Upstream(c, p)
    BY <1>1, <1>3 DEF CommandOK
  <1>5. k # "all" => k \in Splits /\ ~IsMerge(p, k)
    BY DEF Commands, All, IsMerge
  <1>6. k = "all" =>
           /\ Holds(c, p, e, Now) /\ Source(c, p, e)
           /\ p = "build-manifest" => e.prompts = Cases
           /\ ~run[c].st.borrowed =>
                 /\ Only(p, e, Cases)
                 /\ p # "build-manifest" => File(c, "build-manifest").prompts = Cases
    <2>1. SUFFICES ASSUME k = "all"
                   PROVE  /\ Holds(c, p, e, Now) /\ Source(c, p, e)
                          /\ p = "build-manifest" => e.prompts = Cases
                          /\ ~run[c].st.borrowed =>
                                /\ Only(p, e, Cases)
                                /\ p # "build-manifest" =>
                                      File(c, "build-manifest").prompts = Cases
      OBVIOUS
    <2>2. run[c].pc = "last"
      BY <1>3, <2>1, Domain DEF All
    <2> QED
      BY <1>2, <1>3, <1>4, <1>a, <1>b, <2>1, <2>2, MadeWhole
  <1>7. k # "all" =>
           /\ p = "extract" => /\ e.prompts = File(c, "build-manifest").prompts
                               /\ e.boundary = Now
           /\ p = "describe" => e.av = c /\ e.of = File(c, "extract")
           /\ p = "behavior" => e.prompts = File(c, "build-manifest").prompts
    <2>1. SUFFICES ASSUME k # "all"
                   PROVE  /\ p = "extract" => /\ e.prompts = File(c, "build-manifest").prompts
                                              /\ e.boundary = Now
                          /\ p = "describe" => e.av = c /\ e.of = File(c, "extract")
                          /\ p = "behavior" => e.prompts = File(c, "build-manifest").prompts
      OBVIOUS
    <2>2. e = Made(c, p, k, Upstream(c, p), config)
      BY <1>4, <1>5, <1>b, <2>1
    <2>3. k \in Splits /\ p \in Sharded
      BY <1>3, <2>1
    <2> QED
      BY <2>2, <2>3, MadePart
  <1>8. /\ DOMAIN data' = Slots /\ data'[At(c, p, k)] = e
        /\ \A d \in Chains, q \in Artifacts, m \in Commands :
              q # p \/ m # k => data'[At(d, q, m)] = data[At(d, q, m)]
        /\ \A d \in Chains, q \in Artifacts :
              q # p \/ k # "all" => File(d, q)' = File(d, q)
        /\ \A d \in Chains, q \in Artifacts : FileHolds(d, q) => FileHolds(d, q)'
        /\ \A d \in Chains, q \in Artifacts :
              (d # c \/ q # p) /\ OwnCases(d, q) => OwnCases(d, q)'
        /\ k = "all" => FileHolds(c, p)'
        /\ k = "all" /\ Only(p, e, Cases)
             /\ (p # "build-manifest" => File(c, "build-manifest").prompts = Cases)
           => OwnCases(c, p)'
        /\ \A d \in Chains : \A v : d # c \/ p # "analyze" =>
              /\ Analyzed(d, v) => Analyzed(d, v)'
              /\ AnalyzedOwn(d, v) => AnalyzedOwn(d, v)'
    <2>1. /\ Typed /\ UNCHANGED config /\ p \in Artifacts
          /\ data' = [data EXCEPT ![At(c, p, k)] = e]
      BY <1>1, <1>2, <1>3
    <2>2. k = "all" => /\ Holds(c, p, e, Now)
                       /\ p = "build-manifest" => e.prompts = Cases
                       /\ p = "extract" => OfPrompts(e, File(c, "build-manifest").prompts)
      BY <1>6 DEF Source
    <2> QED
      BY <2>1, <2>2, WrittenFiles
  <1>9. DOMAIN j = {"pc", "v", "in"} /\ j.pc = "written" /\ j.v = config /\ job' = [job EXCEPT ![c][k] = j]
    BY <1>1, <1>2, <1>4, <1>c DEF JobTyped
  <1>10. JobTyped(j)
    BY <1>9 DEF JobTyped
  <1>11. /\ DOMAIN job' = Chains /\ (\A d \in Chains : JobsTyped(job'[d]))
         /\ job'[c][k] = j
         /\ \A d \in Chains, m \in Commands :
               d # c \/ m # k => job'[d][m] = job[d][m]
         /\ \A d \in Chains \ {c} : job'[d] = job[d]
    <2>1. Typed /\ job' = [job EXCEPT ![c][k] = j]
      BY <1>2, <1>9
    <2> QED
      BY <2>1, <1>10, CommandFacts
  <1>12. Typed'
    BY <1>1, <1>2, <1>8, <1>11 DEF Typed
  <1>13. \A d \in Chains : DiskOK(d)'
    <2> SUFFICES ASSUME NEW d \in Chains, disk[d] # None PROVE DiskOK(d)'
      BY <1>1 DEF DiskOK
    <2>1. DiskOK(d)
      BY DEF DomainInv
    <2>2. /\ disk[c].status = "running" /\ disk[c].phase[p] = "running"
          /\ disk[c].version = config
      BY <1>2, <1>3, <1>a DEF RunOK
    <2>3. CASE d = c
      BY <1>1, <1>8, <2>1, <2>2, <2>3 DEF DiskOK, PhasesOK, Stands
    <2>4. CASE d # c
      BY <1>1, <1>8, <2>1, <2>4 DEF DiskOK, PhasesOK, Stands
    <2> QED
      BY <2>3, <2>4
  <1>14. \A d \in Chains : RunOK(d)'
    <2>1. \A q, r \in Names : q \in Inputs(r) => q \in Artifacts /\ q # r
      BY PhaseFacts DEF Inputs
    <2>2. run[c].pc \in {"shards", "last"} /\ run[c].st.phase[p] = "running"
      BY <1>2, <1>3, <1>a DEF RunOK
    <2>3. PhasesOK(c, run[c].st)'
      BY <1>1, <1>2, <1>8, <2>2 DEF RunOK, PhasesOK, Stands
    <2>4. \A q \in Names : q \in Inputs(p) => Stands(c, q, run[c].st)'
      BY <1>1, <1>2, <1>3, <1>8, <1>a, <2>1, <2>2 DEF RunOK, Stands
    <2>5. RunOK(c)'
      BY <1>1, <1>2, <1>a, <2>2, <2>3, <2>4 DEF RunOK
    <2> QED
      BY <1>1, <1>3, <2>5 DEF RunOK
  <1>15. \A d \in Chains, q \in Artifacts : ReportOK(d, q)'
    BY <1>1 DEF DomainInv, ReportOK
  <1>16. \A d \in Chains : d # c => JobsOK(d)'
    <2> SUFFICES ASSUME NEW d \in Chains, d # c PROVE JobsOK(d)'
      OBVIOUS
    <2>1. run[d].pc = "idle"
      BY <1>3
    <2> QED
      BY <1>1, <1>11, <2>1, QuietIs, Quiet
  <1>17. JobsOK(c)'
    <2>1. PartHolds(c, p, k)' \/ k = "all"
      <3>1. SUFFICES ASSUME k # "all" PROVE PartHolds(c, p, k)'
        OBVIOUS
      <3>2. {"build-manifest", "extract"} \subseteq Artifacts
        BY PhaseFacts
      <3>3. /\ File(c, "build-manifest")' = File(c, "build-manifest")
            /\ p = "describe" => File(c, "extract")' = File(c, "extract")
        BY <1>8, <3>1, <3>2
      <3> QED
        BY <1>1, <1>7, <1>8, <3>1, <3>3 DEF PartHolds, Now
    <2>2. k = "all" => WholeHolds(c, p, run[c].st)'
      <3>1. SUFFICES ASSUME k = "all" PROVE WholeHolds(c, p, run[c].st)'
        OBVIOUS
      <3>2. {"build-manifest", "extract", "describe"} \subseteq Artifacts
        BY PhaseFacts
      <3>3. /\ p # "build-manifest" => File(c, "build-manifest")' = File(c, "build-manifest")
            /\ p # "extract" => File(c, "extract")' = File(c, "extract")
            /\ File(c, p)' = e
        BY <1>8, <3>1, <3>2 DEF File, All
      <3>4. Sourced(c, p)'
        BY <1>6, <3>1, <3>3 DEF Sourced, Source
      <3>5. Stands(c, p, run[c].st)'
        BY <1>1, <1>6, <1>8, <3>1 DEF Stands
      <3> QED
        BY <3>4, <3>5 DEF WholeHolds
    <2>3. ASSUME NEW s \in Splits, s # k, PartHolds(c, p, s) PROVE PartHolds(c, p, s)'
      <3>1. s \in Commands /\ {"build-manifest", "extract"} \subseteq Artifacts
        BY PhaseFacts DEF Commands
      <3>2. /\ p # "build-manifest" => File(c, "build-manifest")' = File(c, "build-manifest")
            /\ p = "describe" => File(c, "extract")' = File(c, "extract")
        BY <1>8, <3>1
      <3>3. data'[At(c, p, s)] = data[At(c, p, s)]
        BY <1>3, <1>8, <2>3, <3>1
      <3> QED
        BY <1>1, <2>3, <3>2, <3>3 DEF PartHolds, Now
    <2>4. Upstream(c, p)' = Upstream(c, p)
      <3>1. \A q \in Artifacts : q # p => File(c, q)' = File(c, q)
        BY <1>8
      <3> QED
        BY <1>3, <3>1, PhaseFacts DEF Upstream
    <2>5. ASSUME NEW m \in Commands PROVE CommandOK(c, p, m, job[c][m])'
      <3>1. CASE m = k
        <4>1. k = "all" => run[c].pc = "last"
          BY <1>3, Domain DEF All
        <4> QED
          BY <1>1, <1>3, <1>9, <1>11, <2>1, <2>2, <3>1 DEF CommandOK
      <3>2. CASE m # k
        <4>1. job'[c][m] = job[c][m] /\ CommandOK(c, p, m, job[c][m])
          BY <1>2, <1>3, <1>11, <1>a, <3>2 DEF JobsOK
        <4>2. job[c][m].pc # "off" => m \in Splits /\ k \in Splits
          BY <1>3, <3>2, <4>1 DEF CommandOK
        <4>3. job[c][m].pc # "off" => m # "all" /\ ~IsMerge(p, m)
          BY <4>2, Domain DEF All, IsMerge
        <4>4. CASE job[c][m].pc = "off"
          BY <4>1, <4>4 DEF CommandOK
        <4>5. CASE job[c][m].pc # "off"
          BY <1>1, <2>3, <2>4, <3>2, <4>1, <4>2, <4>3, <4>5 DEF CommandOK
        <4> QED
          BY <4>4, <4>5
      <3> QED
        BY <3>1, <3>2
    <2>6. run[c].pc = "shards" => \A s \in Splits : job'[c][s].pc # "off"
      BY <1>2, <1>3, <1>9, <1>11, <1>a DEF JobsOK, Commands
    <2>7. run[c].pc = "last" =>
             /\ job'[c]["all"].pc # "off"
             /\ p \in Sharded => \A s \in Splits : PartHolds(c, p, s)'
      <3>1. SUFFICES ASSUME run[c].pc = "last"
                     PROVE  /\ job'[c]["all"].pc # "off"
                            /\ p \in Sharded => \A s \in Splits : PartHolds(c, p, s)'
        OBVIOUS
      <3>2. k = "all" /\ \A s \in Splits : s # k
        BY <1>3, <3>1, Domain DEF All
      <3>3. p \in Sharded => \A s \in Splits : PartHolds(c, p, s)
        BY <1>2, <1>3, <1>a, <3>1 DEF JobsOK
      <3> QED
        BY <1>9, <1>11, <2>3, <3>2, <3>3
    <2>8. \A m \in Commands : CommandOK(c, p, m, job[c][m])'
      BY <2>5
    <2>9. run' = run
      BY <1>1
    <2>10. SUFFICES ASSUME NEW q \in Names, run[c].ph = q
                    PROVE  /\ run[c].pc = "shards" => \A s \in Splits : job'[c][s].pc # "off"
                           /\ run[c].pc = "last" =>
                                 /\ job'[c]["all"].pc # "off"
                                 /\ q \in Sharded => \A s \in Splits : PartHolds(c, q, s)'
                           /\ \A m \in Commands : CommandOK(c, q, m, job[c][m])'
      BY <2>9 DEF JobsOK
    <2>11. q = p
      BY <1>a, <2>10
    <2> QED
      BY <2>6, <2>7, <2>8, <2>11
  <1> QED
    BY <1>12, <1>13, <1>14, <1>15, <1>16, <1>17 DEF DomainInv

LEMMA ReportStep ==
    ASSUME DomainInv, NEW c \in Chains, NEW k \in Commands,
           WriteReport(c, k)
    PROVE  DomainInv'
  <1>a. PICK p : p = run[c].ph
    OBVIOUS
  <1>b. PICK r : r = [sum |-> data[At(c, p, k)], up |-> Upstream(c, p),
                      boundary |-> Boundary[job[c][k].v]]
    OBVIOUS
  <1>c. PICK j : j = [NoJob EXCEPT !.pc = "done"]
    OBVIOUS
  <1>1. /\ job[c][k].pc = "written"
        /\ rep' = [rep EXCEPT ![At(c, p, k)] = r]
        /\ job' = [job EXCEPT ![c][k] = j]
        /\ UNCHANGED <<config, disk, run, data, hf, chainRestarts, chainFaults>>
    BY <1>a, <1>b, <1>c DEF WriteReport
  <1>2. Typed /\ chainFaults \in 0 .. MaxChainFaults
    BY DEF DomainInv, Typed
  <1>3. /\ p \in Artifacts /\ CommandOK(c, p, k, job[c][k])
        /\ \A d \in Chains, q \in Artifacts : ReportOK(d, q)
    BY <1>1, <1>a, Active DEF DomainInv
  <1>4. /\ job[c][k].v = config
        /\ IF k = "all" THEN WholeHolds(c, p, run[c].st) ELSE PartHolds(c, p, k)
    BY <1>1, <1>3 DEF CommandOK
  <1>5. j.pc = "done" /\ DOMAIN j = {"pc", "v", "in"}
    BY <1>c DEF NoJob
  <1>6. JobTyped(j) /\ CommandOK(c, p, k, j)
    BY <1>1, <1>3, <1>5 DEF JobTyped, CommandOK
  <1>7. /\ DOMAIN rep' = Slots /\ rep'[At(c, p, k)] = r
        /\ \A x \in Slots : x # At(c, p, k) => rep'[x] = rep[x]
    BY <1>1, <1>2, <1>3, SlotFacts DEF Typed
  <1>8. k = "all" =>
           /\ p = "extract" => Extraction(r.sum, r.boundary) /\ OfPrompts(r.sum, r.up[1].prompts)
           /\ p = "describe" => Described(c, r.sum, r.up[1])
    <2>1. SUFFICES ASSUME k = "all"
                   PROVE  /\ p = "extract" => /\ Extraction(r.sum, r.boundary)
                                              /\ OfPrompts(r.sum, r.up[1].prompts)
                          /\ p = "describe" => Described(c, r.sum, r.up[1])
      OBVIOUS
    <2>2. /\ r.sum = File(c, p) /\ r.boundary = Now
          /\ r.up = Upstream(c, p)
      BY <1>4, <1>b, <2>1 DEF File, All, Now
    <2>3. /\ p = "extract" => Upstream(c, p) = <<File(c, "build-manifest")>>
          /\ p = "describe" => Upstream(c, p) = <<File(c, "extract")>>
      BY DEF Upstream
    <2> QED
      BY <1>4, <2>1, <2>2, <2>3 DEF WholeHolds, Stands, Sourced, Source, FileHolds, Holds
  <1>9. \A d \in Chains, q \in Artifacts : ReportOK(d, q)'
    <2> SUFFICES ASSUME NEW d \in Chains, NEW q \in Artifacts PROVE ReportOK(d, q)'
      OBVIOUS
    <2>1. "all" \in Commands
      BY DEF Commands, All
    <2>2. /\ At(d, q, "all") \in Slots
          /\ At(d, q, "all") = At(c, p, k) =>
                q = p /\ k = "all" /\ (d # c => p \in {"build-manifest", "extract"})
      BY <1>3, <2>1, SlotFacts
    <2>3. CASE At(d, q, "all") = At(c, p, k)
      BY <1>7, <1>8, <2>2, <2>3 DEF ReportOK
    <2>4. CASE At(d, q, "all") # At(c, p, k)
      BY <1>3, <1>7, <2>2, <2>4 DEF ReportOK
    <2> QED
      BY <2>3, <2>4
  <1>10. /\ job[c][k].pc # "off" /\ j.pc # "off" /\ chainFaults' \in 0 .. MaxChainFaults
         /\ UNCHANGED <<config, disk, run, data, hf, chainRestarts>>
         /\ CommandOK(c, run[c].ph, k, j)
    BY <1>1, <1>2, <1>5, <1>6, <1>a
  <1> QED
    BY <1>1, <1>6, <1>7, <1>9, <1>10, CommandStep

-----------------------------------------------------------------------------
(* A launch: --reuse-through takes what reports say of the files.           *)
LEMMA MatchesHold ==
    ASSUME DomainInv, NEW c \in Chains
    PROVE  /\ ReuseManifest(c) => FileHolds(c, "build-manifest")
           /\ ReuseExtract(c) =>
                 FileHolds(c, "build-manifest") /\ FileHolds(c, "extract")
           /\ ReuseExtract(c) /\ Matches(c, "describe") => FileHolds(c, "describe")
           /\ File(c, "build-manifest").prompts = Cases =>
                 /\ OwnCases(c, "build-manifest")
                 /\ ReuseExtract(c) => OwnCases(c, "extract")
                 /\ ReuseExtract(c) /\ Matches(c, "describe") => OwnCases(c, "describe")
  <1>1. \A p \in Artifacts : ReportOK(c, p)
    BY DEF DomainInv
  <1>2. ReuseManifest(c) => FileHolds(c, "build-manifest")
    BY DEF FileHolds, Holds
  <1>3. ReuseExtract(c) =>
           /\ FileHolds(c, "extract")
           /\ OfPrompts(File(c, "extract"), File(c, "build-manifest").prompts)
    <2>1. Upstream(c, "extract") = <<File(c, "build-manifest")>>
      BY DEF Upstream
    <2> QED
      BY <1>1, <2>1, PhaseFacts DEF ReuseExtract, Matches, ReportOK, FileHolds, Holds, All, Now
  <1>4. ASSUME ReuseExtract(c), Matches(c, "describe")
        PROVE  /\ FileHolds(c, "describe")
               /\ Described(c, File(c, "describe"), File(c, "extract"))
    <2>1. Upstream(c, "describe") = <<File(c, "extract")>>
      BY DEF Upstream
    <2>2. Described(c, File(c, "describe"), File(c, "extract"))
      BY <1>1, <1>4, <2>1, PhaseFacts DEF Matches, ReportOK, All
    <2>3. Extraction(File(c, "extract"), Now)
      BY <1>3, <1>4 DEF FileHolds, Holds
    <2> QED
      BY <2>2, <2>3 DEF FileHolds, Holds, Described, Description
  <1>5. ASSUME File(c, "build-manifest").prompts = Cases
        PROVE  /\ OwnCases(c, "build-manifest")
               /\ ReuseExtract(c) => OwnCases(c, "extract")
               /\ ReuseExtract(c) /\ Matches(c, "describe") => OwnCases(c, "describe")
    <2>1. OwnCases(c, "build-manifest")
      BY <1>5 DEF OwnCases, Only
    <2>2. ReuseExtract(c) => OwnCases(c, "extract")
      BY <1>3, <1>5 DEF OwnCases, Only
    <2>3. ReuseExtract(c) /\ Matches(c, "describe") => OwnCases(c, "describe")
      BY <1>3, <1>4, <1>5 DEF OwnCases, Only, Describes, Described
    <2> QED
      BY <2>1, <2>2, <2>3
  <1> QED
    BY <1>2, <1>3, <1>4, <1>5 DEF ReuseExtract

LEMMA ReusedHold ==
    ASSUME DomainInv, NEW c \in Chains,
           NEW through \in {"nothing", "prepare-av", "extract", "describe"},
           ReusableThrough(c, through),
           NEW p \in Artifacts, p \in Reused(c, through)
    PROVE  /\ through # "nothing" /\ FileHolds(c, p)
           /\ File(c, "build-manifest").prompts = Cases => OwnCases(c, p)
  <1>1. CASE through = "nothing"
    BY <1>1 DEF Reused
  <1>2. CASE through = "prepare-av"
    BY <1>2, MatchesHold, PhaseFacts DEF Reused, ReusableThrough
  <1>3. CASE through = "extract"
    <2>1. p \in {"build-manifest", "extract"}
      BY <1>3, PhaseFacts DEF Reused
    <2> QED
      BY <1>3, <2>1, MatchesHold DEF ReusableThrough
  <1>4. CASE through = "describe"
    <2>1. p \in {"build-manifest", "extract", "describe"}
      BY <1>4, PhaseFacts DEF Reused
    <2> QED
      BY <1>4, <2>1, MatchesHold DEF ReusableThrough
  <1> QED
    BY <1>1, <1>2, <1>3, <1>4

LEMMA NotedFacts ==
    ASSUME NEW st \in State, NEW c \in Chains,
           NEW through \in {"nothing", "prepare-av", "extract", "describe"}
    PROVE  LET noted == Noted(c, st, through)
           IN /\ noted \in State /\ noted.version = st.version
              /\ noted.status = st.status /\ noted.phase = st.phase
              /\ ~noted.borrowed =>
                    /\ ~st.borrowed
                    /\ through # "nothing" => File(c, "build-manifest").prompts = Cases
  <1>1. (through # "nothing" /\ OtherPrompts(c)) \in BOOLEAN
    BY DEF OtherPrompts
  <1> QED
    BY <1>1 DEF Noted, State, OtherPrompts, Cases

LEMMA LaunchStep ==
    ASSUME DomainInv, NEW c \in Chains, NEW resume \in BOOLEAN,
           NEW through \in {"nothing", "prepare-av", "extract", "describe"},
           LaunchChain(c, resume, through), chainRestarts' \in 0 .. MaxChainRestarts
    PROVE  DomainInv'
  <1>z. PICK old : old = Marked(Loaded(c, resume), Reused(c, through), "complete")
    OBVIOUS
  <1>a. PICK st : st = Noted(c, old, through)
    OBVIOUS
  <1>1. /\ \A d \in Chains : run[d].pc = "idle"
        /\ resume => Resumable(c)
        /\ ReusableThrough(c, through)
        /\ run' = [run EXCEPT ![c] = [pc |-> "next", ph |-> "analyze", st |-> st]]
        /\ disk' = disk \/ disk' = [disk EXCEPT ![c] = st]
        /\ UNCHANGED <<config, job, data, rep, hf, chainFaults>>
    BY <1>z, <1>a DEF LaunchChain, MayLaunch
  <1>2. Typed /\ DiskOK(c) /\ config \in Configurations /\ config \in Nat
    BY VersionFacts DEF DomainInv, Typed
  <1>3. /\ Loaded(c, resume) \in State
        /\ Loaded(c, resume).version = config
        /\ \/ disk[c] # None /\ Loaded(c, resume) = disk[c]
           \/ Loaded(c, resume) = NewState(config)
    BY <1>1, <1>2, LoadedFacts
  <1>4. /\ st \in State /\ st.version = config
        /\ st.status = Loaded(c, resume).status
        /\ \A p \in Names : st.phase[p] = IF p \in Reused(c, through) THEN "complete"
                                                 ELSE Loaded(c, resume).phase[p]
        /\ ~st.borrowed =>
              /\ ~Loaded(c, resume).borrowed
              /\ through # "nothing" => File(c, "build-manifest").prompts = Cases
    <2>1. /\ old \in State /\ old.version = config
          /\ old.status = Loaded(c, resume).status
          /\ old.borrowed = Loaded(c, resume).borrowed
          /\ \A p \in Names : old.phase[p] = IF p \in Reused(c, through) THEN "complete"
                                                   ELSE Loaded(c, resume).phase[p]
      BY <1>3, <1>z, MarkedFacts
    <2> QED
      BY <2>1, <1>a, NotedFacts
  <1>5. \A p \in Artifacts : st.phase[p] = "complete" => Stands(c, p, st)
    <2> SUFFICES ASSUME NEW p \in Artifacts, st.phase[p] = "complete" PROVE Stands(c, p, st)
      OBVIOUS
    <2>1. p \in Names
      BY PhaseFacts
    <2>2. CASE p \in Reused(c, through)
      BY <1>1, <1>4, <2>2, ReusedHold DEF Stands
    <2>3. CASE p \notin Reused(c, through)
      <3>1. Loaded(c, resume).phase[p] = "complete"
        BY <1>4, <2>1, <2>3
      <3>2. NewState(config).phase[p] = "pending"
        BY <1>2, <2>1, NewFacts
      <3> QED
        BY <1>2, <1>3, <1>4, <3>1, <3>2 DEF DiskOK, PhasesOK, Stands
    <2> QED
      BY <2>2, <2>3
  <1>6. st.status = "complete" =>
           Analyzed(c, config) /\ (~st.borrowed => AnalyzedOwn(c, config))
    <2>1. NewState(config).status = "pending"
      BY <1>2, NewFacts
    <2> QED
      BY <1>2, <1>3, <1>4, <2>1 DEF DiskOK
  <1>7. /\ DOMAIN run' = Chains /\ \A d \in Chains \ {c} : run'[d] = run[d]
        /\ run'[c].pc = "next" /\ run'[c].ph = "analyze" /\ run'[c].st = st
        /\ DOMAIN run'[c] = {"pc", "ph", "st"}
    BY <1>1, <1>2 DEF Typed
  <1>8. /\ disk' \in [Chains -> State \cup {None}]
        /\ disk'[c] = disk[c] \/ disk'[c] = st
        /\ \A d \in Chains \ {c} : disk'[d] = disk[d]
    BY <1>1, <1>2, <1>4 DEF Typed
  <1>9. Typed'
    BY <1>1, <1>2, <1>4, <1>7, <1>8, PhaseFacts DEF Typed, RunTyped
  <1>10. DiskOK(c)'
    <2>1. CASE disk'[c] = disk[c]
      BY <1>1, <1>2, <2>1, Frame DEF DiskOK, PhasesOK, Stands
    <2>2. CASE disk'[c] = st
      BY <1>1, <1>2, <1>4, <1>5, <1>6, <2>2, Frame DEF DiskOK, PhasesOK, Stands
    <2> QED
      BY <1>8, <2>1, <2>2
  <1>11. RunOK(c)'
    BY <1>1, <1>4, <1>5, <1>7, Frame DEF RunOK, PhasesOK, Stands
  <1>12. JobsOK(c)'
    BY <1>1, <1>7, QuietIs, Quiet
  <1> QED
    BY <1>1, <1>7, <1>8, <1>9, <1>10, <1>11, <1>12, LauncherStep

(* Edits, kills and reboots: what ran no longer does, what was said of an   *)
(* earlier configuration is no longer relied on.                            *)
LEMMA IdleInv ==
    ASSUME Typed', \A c \in Chains : DiskOK(c)' /\ run'[c].pc = "idle",
           \A c \in Chains, k \in Commands : job'[c][k].pc = "off",
           \A c \in Chains, p \in Artifacts : ReportOK(c, p)'
    PROVE  DomainInv'
  <1>1. \A c \in Chains : JobsOK(c)'
    BY Quiet
  <1>2. \A c \in Chains : RunOK(c)'
    BY DEF RunOK
  <1> QED
    BY <1>1, <1>2 DEF DomainInv

LEMMA EditStep ==
    ASSUME DomainInv, EditConfig
    PROVE  DomainInv'
  <1>1. /\ config + 1 \in Configurations /\ config' = config + 1
        /\ \A c \in Chains : run[c].pc = "idle"
        /\ UNCHANGED <<disk, run, job, data, rep, hf, chainRestarts, chainFaults>>
    BY DEF EditConfig, MayLaunch
  <1>2. Typed /\ config \in Nat
    BY VersionFacts DEF DomainInv, Typed
  <1>3. Typed'
    BY <1>1, <1>2 DEF Typed
  <1>4. \A c, v : /\ Analyzed(c, v)' <=> Analyzed(c, v)
                  /\ AnalyzedOwn(c, v)' <=> AnalyzedOwn(c, v)
    BY <1>1 DEF Analyzed, AnalyzedOwn, File
  <1>5. \A c \in Chains : DiskOK(c)'
    <2> SUFFICES ASSUME NEW c \in Chains, disk[c] # None PROVE DiskOK(c)'
      BY <1>1 DEF DiskOK
    <2>1. DiskOK(c)
      BY DEF DomainInv
    <2>2. disk[c].version \in Nat
      BY <1>2, VersionFacts DEF Typed, State
    <2>3. disk[c].version <= config + 1 /\ disk[c].version # config + 1
      BY <1>2, <2>1, <2>2 DEF DiskOK
    <2> QED
      BY <1>1, <1>4, <2>1, <2>3 DEF DiskOK
  <1>6. \A c \in Chains, k \in Commands : job[c][k].pc = "off"
    BY <1>1, QuietIs
  <1>7. \A c \in Chains, p \in Artifacts : ReportOK(c, p)'
    BY <1>1 DEF DomainInv, ReportOK
  <1> QED
    BY <1>1, <1>3, <1>5, <1>6, <1>7, IdleInv

LEMMA KillStep ==
    ASSUME DomainInv, NEW c \in Chains, KillChain(c)
    PROVE  DomainInv'
  <1>1. /\ chainFaults' \in 0 .. MaxChainFaults /\ run[c].pc # "idle"
        /\ run' = [run EXCEPT ![c] = NoRun]
        /\ job' = [job EXCEPT ![c] = Wave({})]
        /\ UNCHANGED <<config, disk, data, rep, hf, chainRestarts>>
    BY Domain DEF KillChain, DomainInv, Typed
  <1>2. Typed /\ \A d \in Chains \ {c} : run[d].pc = "idle"
    BY <1>1, Alone DEF DomainInv
  <1>3. /\ DOMAIN job' = Chains /\ (\A d \in Chains : JobsTyped(job'[d]))
        /\ \A d \in Chains \ {c} : job'[d] = job[d]
        /\ \A k \in Commands : job'[c][k].pc = "off"
    BY <1>1, <1>2, NoWaveFacts
  <1>4. /\ DOMAIN run' = Chains /\ run'[c].pc = "idle" /\ RunTyped(run'[c])
        /\ \A d \in Chains \ {c} : run'[d] = run[d]
    BY <1>1, <1>2, NoRunTyped DEF Typed
  <1>5. Typed'
    BY <1>1, <1>2, <1>3, <1>4 DEF Typed
  <1>6. \A d \in Chains : DiskOK(d)'
    BY <1>1, Frame DEF DomainInv, DiskOK, PhasesOK, Stands
  <1>7. \A d \in Chains, k \in Commands : job'[d][k].pc = "off"
    BY <1>2, <1>3, QuietIs
  <1>8. \A d \in Chains, p \in Artifacts : ReportOK(d, p)'
    BY <1>1 DEF DomainInv, ReportOK
  <1> QED
    BY <1>2, <1>4, <1>5, <1>6, <1>7, <1>8, IdleInv

LEMMA RebootStep ==
    ASSUME DomainInv, Reboot
    PROVE  DomainInv'
  <1>1. /\ chainFaults' \in 0 .. MaxChainFaults
        /\ run' = [c \in Chains |-> NoRun]
        /\ job' = [c \in Chains |-> Wave({})]
        /\ hf' = [c \in Chains |-> "none"]
        /\ UNCHANGED <<config, disk, data, rep, chainRestarts>>
    BY Domain DEF Reboot, DomainInv, Typed
  <1>2. Typed
    BY DEF DomainInv
  <1>3. \A c \in Chains : run'[c].pc = "idle" /\ RunTyped(run'[c])
    BY <1>1, NoRunTyped
  <1>4. \A c \in Chains : JobsTyped(job'[c])
    BY <1>1, WaveTyped
  <1>5. \A c \in Chains, k \in Commands : job'[c][k].pc = "off"
    BY <1>1 DEF Wave, NoJob
  <1>6. Typed'
    BY <1>1, <1>2, <1>3, <1>4 DEF Typed
  <1>7. \A c \in Chains : DiskOK(c)'
    BY <1>1, Frame DEF DomainInv, DiskOK, PhasesOK, Stands
  <1>8. \A c \in Chains, p \in Artifacts : ReportOK(c, p)'
    BY <1>1 DEF DomainInv, ReportOK
  <1> QED
    BY <1>3, <1>5, <1>6, <1>7, <1>8, IdleInv

LEMMA DomainInit == ChainInit => DomainInv
  <1> SUFFICES ASSUME ChainInit PROVE DomainInv
    OBVIOUS
  <1>1. /\ config = 1 /\ disk = [c \in Chains |-> None] /\ run = [c \in Chains |-> NoRun]
        /\ job = [c \in Chains |-> Wave({})]
        /\ data = [x \in Slots |-> None] /\ rep = [x \in Slots |-> None]
        /\ hf = [c \in Chains |-> "none"] /\ chainRestarts = 0 /\ chainFaults = 0
    BY DEF ChainInit
  <1>2. \A c \in Chains : run[c].pc = "idle" /\ RunTyped(run[c])
    BY <1>1, NoRunTyped
  <1>3. \A c \in Chains : JobsTyped(job[c])
    BY <1>1, WaveTyped
  <1>4. \A c \in Chains, k \in Commands : job[c][k].pc = "off"
    BY <1>1 DEF Wave, NoJob
  <1>5. Typed
    BY <1>1, <1>2, <1>3, VersionFacts, Domain DEF Typed
  <1>6. \A c \in Chains : DiskOK(c)
    BY <1>1 DEF DiskOK
  <1>7. \A c \in Chains, p \in Artifacts : ReportOK(c, p)
    <2> SUFFICES ASSUME NEW c \in Chains, NEW p \in Artifacts PROVE ReportOK(c, p)
      OBVIOUS
    <2>1. At(c, p, "all") \in Slots
      BY SlotFacts DEF Commands, All
    <2> QED
      BY <1>1, <2>1 DEF ReportOK
  <1>8. \A c \in Chains : RunOK(c) /\ JobsOK(c)
    BY <1>2, <1>4 DEF RunOK, JobsOK, CommandOK
  <1> QED
    BY <1>5, <1>6, <1>7, <1>8 DEF DomainInv

LEMMA DomainStep ==
    ASSUME DomainInv, [ChainNext]_chainVars
    PROVE  DomainInv'
  <1>1. ASSUME NEW c \in Chains, Step(c) PROVE DomainInv'
    <2>1. CASE \E k \in Commands : Command(c, k)
      BY <2>1, SimpleCommandStep, WriteStep, ReportStep DEF Command
    <2>2. CASE ~(\E k \in Commands : Command(c, k))
      BY <1>1, <2>2, NextPhaseStep, ConvertStep, PreparedStep, MergeStep, EndPhaseStep,
         CleanUpStep, FinishStep DEF Step
    <2> QED
      BY <2>1, <2>2
  <1>2. ASSUME NEW c \in Chains, ResumeChain(c) PROVE DomainInv'
    <2>1. LaunchChain(c, TRUE, "nothing") /\ chainRestarts' \in 0 .. MaxChainRestarts
      BY <1>2 DEF ResumeChain, DomainInv, Typed
    <2> QED
      BY <2>1, LaunchStep
  <1>3. ASSUME NEW c \in Chains, RestartChain(c) PROVE DomainInv'
    <2>1. chainRestarts' \in 0 .. MaxChainRestarts
      BY <1>3, Domain DEF RestartChain, DomainInv, Typed
    <2>2. PICK resume \in BOOLEAN, through \in {"nothing", "prepare-av", "extract", "describe"} :
             LaunchChain(c, resume, through)
      BY <1>3 DEF RestartChain
    <2> QED
      BY <2>1, <2>2, LaunchStep
  <1>4. ASSUME UNCHANGED chainVars PROVE DomainInv'
    <2>1. UNCHANGED <<config, disk, run, job, data, rep, hf, chainRestarts, chainFaults>>
      BY <1>4 DEF chainVars
    <2>2. Typed'
      BY <2>1 DEF DomainInv, Typed
    <2>3. \A c \in Chains : DiskOK(c)' /\ RunOK(c)'
      BY <2>1, Frame DEF DomainInv, DiskOK, RunOK, PhasesOK, Stands
    <2>4. \A c \in Chains : JobsOK(c)'
      BY <2>1, Frame DEF DomainInv, JobsOK, CommandOK, WholeHolds, Stands
    <2>5. \A c \in Chains, p \in Artifacts : ReportOK(c, p)'
      BY <2>1 DEF DomainInv, ReportOK
    <2> QED
      BY <2>2, <2>3, <2>4, <2>5 DEF DomainInv
  <1> QED
    BY <1>1, <1>2, <1>3, <1>4, KillStep, SimpleCommandStep, EditStep, RebootStep DEF ChainNext

(* Documents of the present configuration, reports and the commands at work *)
(* are true of the files, for any number of chains and shards.              *)
THEOREM DomainInvariance == ChainSpec => []DomainInv
  <1>1. ChainInit => DomainInv
    BY DomainInit
  <1>2. DomainInv /\ [ChainNext]_chainVars => DomainInv'
    BY DomainStep
  <1> QED
    BY <1>1, <1>2, PTL DEF ChainSpec

(* Types of the state documents, launchers, commands and files.             *)
THEOREM DomainTypes == ChainSpec => []ChainTypeOK
  <1>1. DomainInv => ChainTypeOK
    BY TypedIs DEF DomainInv
  <1> QED
    BY <1>1, DomainInvariance, PTL

(* A chain whose state says complete has analysed descriptions by its own   *)
(* checkpoint, of one extraction at the boundary of its own configuration,  *)
(* whatever was edited, killed or reused on the evidence of reports in      *)
(* between; of its own prompts, unless it was launched with --reuse-through *)
(* on a manifest of others, and then still of one set.                      *)
THEOREM CompletedChainsOwn == ChainSpec => []CompletedIsOwn
  <1>1. DomainInv => CompletedIsOwn
    <2> SUFFICES ASSUME DomainInv, NEW c \in Chains, Complete(c), NEW s \in Splits, NEW t \in Splits
                 PROVE  LET a == File(c, "analyze")  v == disk[c].version
                        IN /\ a.described[s].av = c /\ a.described[s].of = a.described[t].of
                           /\ a.described[s].of[t].boundary = Boundary[v]
                           /\ a.described[s].of[s].prompts = a.described[s].of[t].prompts
                           /\ a.decided[s].prompts = a.decided[t].prompts
                           /\ ~disk[c].borrowed =>
                                 /\ a.described[s].of[t].prompts = Prompts[v]
                                 /\ a.decided[t].prompts = Prompts[v]
      BY DEF CompletedIsOwn
    <2>1. disk[c].version \in Configurations
      BY DEF DomainInv, Typed, Complete, State
    <2>2. /\ Analyzed(c, disk[c].version)
          /\ ~disk[c].borrowed => AnalyzedOwn(c, disk[c].version)
      BY <2>1 DEF DomainInv, DiskOK, Complete
    <2> QED
      BY <2>2 DEF Analyzed, AnalyzedOwn, Holds, Description, Decision, Extraction,
                  Only, Describes, OfPrompts
  <1> QED
    BY <1>1, DomainInvariance, PTL
===============================================================================
