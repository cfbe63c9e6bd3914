----------------------- MODULE RewardAccumulatorProofs -----------------------
(***************************************************************************)
(* Proofs about RewardAccumulator: with any number of requests, samples and *)
(* ranks and any batch size, no sample is left without a timer, none is     *)
(* lost or resolved twice, and each gets the score of its own explanation.  *)
(***************************************************************************)
EXTENDS RewardAccumulator, FiniteSetTheorems, TLAPS

(* A request has started nothing before its first sample is appended. *)
TaskInv == \A g \in Requests : task[g] # "none" => future[<<g, 1>>] # "none"

(* Calls queued at a rank belong to different drains that wait for them, and *)
(* carry their prompts.                                                      *)
CallInv ==
    \A r \in Ranks :
        /\ \A i \in DOMAIN inbox[r] :
              /\ task[inbox[r][i].drain] = "critic"
              /\ inbox[r][i].prompts
                    = Prompts(batch[inbox[r][i].drain], orig[inbox[r][i].drain])
        /\ \A i, j \in DOMAIN inbox[r] : inbox[r][i].drain = inbox[r][j].drain => i = j

(* A detached batch has its orig_idx, and what comes back its prompts' rows. *)
RowInv ==
    \A g \in Requests :
        /\ task[g] \in {"critic", "back"} => orig[g] \in OrigIdx(batch[g])
        /\ task[g] = "back" /\ answer[g].ok => answer[g].rows = Prompts(batch[g], orig[g])

IInv ==
    /\ TypeOK /\ PendingIsGuarded /\ TimerIsCurrent /\ WaiterIsHeld
    /\ TaskInv /\ CallInv /\ RowInv /\ OwnReward

TaskStates == {"none", "asleep", "due", "critic", "back", "over"}
FutureStates == {"none", "waiting", "set", "error"}

-----------------------------------------------------------------------------
(* Samples and sequences of them *)

LEMMA SampleFacts ==
    ASSUME NEW g \in Requests
    PROVE  /\ SamplesOf(g) \subseteq Samples
           /\ <<g, 1>> \in SamplesOf(g)
           /\ <<g, 1>> \in Samples
<1>1. SamplesOf(g) \subseteq Samples
  BY DEF Samples
<1>2. 1 \in 1..Size[g]
  BY RequestAssumption
<1>3. <<g, 1>> \in SamplesOf(g)
  BY <1>2 DEF SamplesOf
<1> QED BY <1>1, <1>3

LEMMA OneOwner ==
    ASSUME NEW g \in Requests, NEW h \in Requests, <<h, 1>> \in SamplesOf(g)
    PROVE  h = g
BY DEF SamplesOf

LEMMA EntriesFacts ==
    ASSUME NEW g \in Requests
    PROVE  /\ Entries(g) \in Seq(Samples)
           /\ Len(Entries(g)) = Size[g]
           /\ Entries(g) # << >>
           /\ Range(Entries(g)) = SamplesOf(g)
           /\ IsInjective(Entries(g))
<1>1. Size[g] \in Nat /\ Size[g] > 0
  BY RequestAssumption
<1>2. \A k \in 1..Size[g] : <<g, k>> \in Samples
  BY DEF Samples, SamplesOf
<1>3. Entries(g) \in Seq(Samples) /\ Len(Entries(g)) = Size[g]
  BY <1>1, <1>2 DEF Entries
<1>4. Entries(g) # << >>
  BY <1>1, <1>3
<1>5. Range(Entries(g)) = SamplesOf(g)
  BY <1>1 DEF Range, Entries, SamplesOf
<1>6. IsInjective(Entries(g))
  BY <1>1 DEF IsInjective, Entries
<1> QED BY <1>3, <1>4, <1>5, <1>6

(* The range of a concatenation, and when it repeats nothing. *)
LEMMA ConcatFacts ==
    ASSUME NEW S, NEW p \in Seq(S), NEW q \in Seq(S)
    PROVE  /\ Range(p \o q) = Range(p) \cup Range(q)
           /\ IsInjective(p) /\ IsInjective(q) /\ Range(p) \cap Range(q) = {}
                => IsInjective(p \o q)
<1>1. /\ Len(p) \in Nat /\ Len(q) \in Nat
      /\ DOMAIN p = 1..Len(p) /\ DOMAIN q = 1..Len(q)
      /\ DOMAIN (p \o q) = 1..(Len(p) + Len(q))
  OBVIOUS
<1>2. ASSUME NEW i \in DOMAIN (p \o q)
      PROVE  \/ i \in DOMAIN p /\ (p \o q)[i] = p[i]
             \/ i > Len(p) /\ (i - Len(p)) \in DOMAIN q /\ (p \o q)[i] = q[i - Len(p)]
  BY <1>1
<1>3. ASSUME NEW i \in DOMAIN p PROVE i \in DOMAIN (p \o q) /\ (p \o q)[i] = p[i]
  BY <1>1
<1>4. ASSUME NEW i \in DOMAIN q
      PROVE  (i + Len(p)) \in DOMAIN (p \o q) /\ (p \o q)[i + Len(p)] = q[i]
  BY <1>1
<1>5. Range(p \o q) = Range(p) \cup Range(q)
  <2>1. Range(p \o q) \subseteq Range(p) \cup Range(q)
    BY <1>2 DEF Range
  <2>2. Range(p) \subseteq Range(p \o q)
    BY <1>3 DEF Range
  <2>3. Range(q) \subseteq Range(p \o q)
    <3> SUFFICES ASSUME NEW i \in DOMAIN q PROVE q[i] \in Range(p \o q)
      BY DEF Range
    <3> DEFINE j == i + Len(p)
    <3>1. j \in DOMAIN (p \o q) /\ (p \o q)[j] = q[i]
      BY <1>4
    <3> HIDE DEF j
    <3> QED BY <3>1 DEF Range
  <2> QED BY <2>1, <2>2, <2>3
<1>6. ASSUME IsInjective(p), IsInjective(q), Range(p) \cap Range(q) = {}
      PROVE  IsInjective(p \o q)
  <2> SUFFICES ASSUME NEW i \in DOMAIN (p \o q), NEW j \in DOMAIN (p \o q),
                      (p \o q)[i] = (p \o q)[j]
               PROVE  i = j
    BY DEF IsInjective
  <2>1. \A a \in DOMAIN p, b \in DOMAIN q : p[a] # q[b]
    BY <1>6 DEF Range
  <2>2. \A a, b \in DOMAIN p : p[a] = p[b] => a = b
    BY <1>6 DEF IsInjective
  <2>3. \A a, b \in DOMAIN q : q[a] = q[b] => a = b
    BY <1>6 DEF IsInjective
  <2>4. i \in Nat /\ j \in Nat
    BY <1>1
  <2> QED BY <1>1, <1>2, <2>1, <2>2, <2>3, <2>4
<1> QED BY <1>5, <1>6

-----------------------------------------------------------------------------
(* orig_idx and the scores *)

LEMMA OrigFacts ==
    ASSUME NEW p \in Seq(Samples), NEW idx \in OrigIdx(p)
    PROVE  /\ idx \in Seq(Nat)
           /\ Prompts(p, idx) \in Seq(Samples)
           /\ DOMAIN Prompts(p, idx) = DOMAIN idx
           /\ Range(idx) = Scorable(p)
<1>1. DOMAIN p = 1..Len(p) /\ Len(p) \in Nat
  OBVIOUS
<1>2. IsFiniteSet(1..Len(p))
  BY <1>1, FS_Interval
<1>3. Scorable(p) \subseteq 1..Len(p)
  BY <1>1 DEF Scorable
<1>4. Cardinality(Scorable(p)) \in Nat
  BY <1>2, <1>3, FS_Subset, FS_CardinalityType
<1>5. idx \in [1..Cardinality(Scorable(p)) -> Scorable(p)] /\ Range(idx) = Scorable(p)
  BY DEF OrigIdx
<1>6. \A k \in DOMAIN idx : idx[k] \in Nat /\ idx[k] \in DOMAIN p
  BY <1>1, <1>3, <1>5
<1>7. idx \in Seq(Nat)
  <2> DEFINE n == Cardinality(Scorable(p))
  <2>1. n \in Nat /\ idx \in [1..n -> Nat]
    BY <1>4, <1>5, <1>6
  <2> HIDE DEF n
  <2> QED BY <2>1
<1>8. Prompts(p, idx) \in Seq(Samples)
  <2> DEFINE n == Cardinality(Scorable(p))
  <2>1. n \in Nat /\ DOMAIN idx = 1..n
    BY <1>4, <1>5
  <2>2. \A k \in 1..n : p[idx[k]] \in Samples
    BY <1>1, <1>6, <2>1
  <2> HIDE DEF n
  <2>3. Prompts(p, idx) \in [1..n -> Samples]
    BY <2>1, <2>2 DEF Prompts
  <2> QED BY <2>1, <2>3
<1> QED BY <1>5, <1>7, <1>8 DEF Prompts

(* Rows that match the prompts give every sample of the batch the score of   *)
(* its own explanation, and nothing to those without one.                    *)
LEMMA OwnRows ==
    ASSUME NEW p \in Seq(Samples), IsInjective(p), NEW idx \in OrigIdx(p),
           score \in [Samples -> SUBSET Samples], NEW s \in Range(p)
    PROVE  Scored(p, idx, Prompts(p, idx))[s] = {s} \cap valid
<1>1. PICK i \in DOMAIN p : p[i] = s
  BY DEF Range
<1>2. s \in Samples
  BY <1>1
<1>3. {j \in DOMAIN p : p[j] = s} = {i}
  BY <1>1 DEF IsInjective
<1>4. Scored(p, idx, Prompts(p, idx))[s] = RowsFor(idx, Prompts(p, idx), i)
  BY <1>2, <1>3 DEF Scored
<1>5. DOMAIN Prompts(p, idx) = DOMAIN idx
  BY OrigFacts
<1>6. RowsFor(idx, Prompts(p, idx), i) = {p[idx[k]] : k \in {j \in DOMAIN idx : idx[j] = i}}
  BY <1>5 DEF RowsFor, Prompts
<1>7. Range(idx) = Scorable(p)
  BY OrigFacts
<1>8. CASE s \in valid
  <2>1. i \in Scorable(p)
    BY <1>1, <1>8 DEF Scorable
  <2>2. PICK k \in DOMAIN idx : idx[k] = i
    BY <1>7, <2>1 DEF Range
  <2> QED BY <1>1, <1>4, <1>6, <1>8, <2>2
<1>9. CASE s \notin valid
  <2>1. \A k \in DOMAIN idx : idx[k] # i
    BY <1>1, <1>7, <1>9 DEF Scorable, Range
  <2> QED BY <1>4, <1>6, <1>9, <2>1
<1> QED BY <1>8, <1>9

(* A batch without explanations: everybody gets the penalty. *)
LEMMA NoRows ==
    ASSUME NEW p \in Seq(Samples), NEW s \in Range(p)
    PROVE  Scored(p, << >>, << >>)[s] = {}
<1>1. s \in Samples
  BY DEF Range
<1>2. \A i \in DOMAIN p : RowsFor(<< >>, << >>, i) = {}
  BY DEF RowsFor
<1> QED BY <1>1, <1>2 DEF Scored

LEMMA ScoredType ==
    ASSUME NEW p \in Seq(Samples), NEW idx, NEW rows \in Seq(Samples),
           score \in [Samples -> SUBSET Samples]
    PROVE  Scored(p, idx, rows) \in [Samples -> SUBSET Samples]
<1>1. \A i : RowsFor(idx, rows, i) \subseteq Samples
  BY DEF RowsFor
<1> QED BY <1>1 DEF Scored

LEMMA FutureTypes ==
    ASSUME NEW F \in [Samples -> FutureStates], NEW p
    PROVE  /\ Resolved(F, p) \in [Samples -> FutureStates]
           /\ Failed(F, p) \in [Samples -> FutureStates]
BY DEF Resolved, Failed, FutureStates

(* The calls queued at a rank. *)
LEMMA CallFacts ==
    ASSUME TypeOK, NEW r \in Ranks
    PROVE  /\ inbox[r] \in Seq(Call)
           /\ \A i \in DOMAIN inbox[r] :
                 /\ inbox[r][i].drain \in Requests
                 /\ inbox[r][i].prompts \in Seq(Samples)
<1>1. inbox[r] \in Seq(Call)
  BY DEF TypeOK
<1>2. \A i \in DOMAIN inbox[r] : inbox[r][i] \in Call
  BY <1>1
<1> QED BY <1>1, <1>2 DEF Call

-----------------------------------------------------------------------------
(* Draining: what a drain may assume of the samples p, the futures F and the *)
(* tasks T it is given, and what it leaves behind.                           *)

DrainReady(g, p, F, T) ==
    /\ p \in Seq(Samples) /\ IsInjective(p)
    /\ F \in [Samples -> FutureStates] /\ T \in [Requests -> TaskStates]
    /\ T[g] \notin {"critic", "back"}
    /\ \A h \in Requests \ {g} : T[h] \notin {"asleep", "due"}
    /\ \A h \in Requests :
          T[h] \in {"critic", "back"} \/ task[h] \in {"critic", "back"} => T[h] = task[h]
    /\ \A h \in Requests : T[h] # "none" \/ h = g => F[<<h, 1>>] # "none"
    /\ \A s \in Samples :
          /\ F[s] = "waiting" <=> s \in Range(p) \/ Held(s) # {}
          /\ s \in Range(p) => Held(s) = {}
          /\ F[s] = "set" => future[s] = "set"

(* A step that touches no detached batch keeps what is known about them. *)
LEMMA CallFrame ==
    ASSUME TypeOK, CallInv, RowInv, UNCHANGED <<batch, orig, inbox, answer, valid>>,
           \A h \in Requests :
              task'[h] \in {"critic", "back"} \/ task[h] \in {"critic", "back"}
                => task'[h] = task[h]
    PROVE  CallInv' /\ RowInv' /\ \A s \in Samples : Held(s)' = Held(s)
<1>1. \A s \in Samples : Held(s)' = Held(s)
  BY DEF Held
<1>2. CallInv'
  <2>1. \A r \in Ranks : \A i \in DOMAIN inbox[r] : inbox[r][i].drain \in Requests
    BY CallFacts
  <2>2. \A r \in Ranks : \A i \in DOMAIN inbox[r] : task'[inbox[r][i].drain] = "critic"
    BY <2>1 DEF CallInv
  <2>3. inbox' = inbox /\ batch' = batch /\ orig' = orig
    OBVIOUS
  <2> QED BY <2>1, <2>2, <2>3 DEF CallInv, Prompts
<1>3. RowInv'
  <2>1. \A h \in Requests : OrigIdx(batch[h])' = OrigIdx(batch[h])
    BY DEF OrigIdx, Scorable
  <2>2. \A h \in Requests : Prompts(batch[h], orig[h])' = Prompts(batch[h], orig[h])
    BY DEF Prompts
  <2> QED BY <2>1, <2>2 DEF RowInv
<1> QED BY <1>1, <1>2, <1>3

(* The batch does not reach the critic: all its futures are done. *)
LEMMA DrainOver ==
    ASSUME IInv, NEW g \in Requests, NEW p, NEW F, NEW T, DrainReady(g, p, F, T),
           timer' = NoTimer, pending' = << >>,
           task' = [T EXCEPT ![g] = "over"],
           UNCHANGED <<batch, orig, inbox, answer, valid>>,
           \/ future' = Failed(F, p) /\ score' = score
           \/ /\ Range(p) \cap valid = {}
              /\ future' = Resolved(F, p) /\ score' = Scored(p, << >>, << >>)
    PROVE  IInv'
<1> USE DEF IInv, DrainReady
<1>1. /\ p \in Seq(Samples) /\ F \in [Samples -> FutureStates]
      /\ T \in [Requests -> TaskStates]
      /\ score \in [Samples -> SUBSET Samples]
  BY DEF TypeOK
<1>2. TypeOK'
  <2>1. future' \in [Samples -> FutureStates]
    BY <1>1, FutureTypes
  <2>2. score' \in [Samples -> SUBSET Samples]
    <3>1. << >> \in Seq(Samples)
      OBVIOUS
    <3>2. Scored(p, << >>, << >>) \in [Samples -> SUBSET Samples]
      BY <1>1, <3>1, ScoredType
    <3> QED BY <1>1, <3>2
  <2>3. task' \in [Requests -> TaskStates]
    BY <1>1 DEF TaskStates
  <2>4. pending' \in Seq(Samples) /\ timer' \in Requests \cup {NoTimer}
    OBVIOUS
  <2>5. /\ batch' \in [Requests -> Seq(Samples)] /\ orig' \in [Requests -> Seq(Nat)]
        /\ inbox' \in [Ranks -> Seq(Call)] /\ answer' \in [Requests -> Answer]
        /\ valid' \subseteq Samples
    BY DEF TypeOK
  <2> QED BY <2>1, <2>2, <2>3, <2>4, <2>5 DEF TypeOK, TaskStates, FutureStates
<1>3. /\ CallInv' /\ RowInv'
      /\ \A s \in Samples : Held(s)' = Held(s)
  <2>1. \A h \in Requests :
          task'[h] \in {"critic", "back"} \/ task[h] \in {"critic", "back"}
            => task'[h] = task[h]
    BY <1>1 DEF TypeOK
  <2> QED BY <2>1, CallFrame
<1>6. \A s \in Samples : s \notin Range(p) => future'[s] = F[s]
  BY <1>1 DEF Failed, Resolved
<1>7. \A s \in Samples : s \in Range(p) => future'[s] \in {"set", "error"}
  BY <1>1 DEF Failed, Resolved
<1>8. PendingIsGuarded'
  BY BatchAssumption DEF PendingIsGuarded
<1>9. TimerIsCurrent'
  <2>1. \A h \in Requests : task'[h] \notin {"asleep", "due"}
    BY <1>1
  <2>2. \A h \in Requests : h # NoTimer
    BY RequestAssumption
  <2> QED BY <2>1, <2>2 DEF TimerIsCurrent
<1>10. WaiterIsHeld'
  <2>1. Range(pending') = {}
    BY DEF Range
  <2>2. ASSUME NEW s \in Samples
        PROVE  future'[s] = "waiting" <=> Held(s)' # {}
    <3>1. CASE s \in Range(p)
      BY <1>3, <1>7, <3>1
    <3>2. CASE s \notin Range(p)
      BY <1>3, <1>6, <3>2
    <3> QED BY <3>1, <3>2
  <2>3. \A s \in Samples : \A h, k \in Held(s)' : h = k
    BY <1>3 DEF WaiterIsHeld
  <2>4. IsInjective(pending') /\ \A h \in Requests : IsInjective(batch'[h])
    BY DEF WaiterIsHeld, IsInjective
  <2> QED BY <2>1, <2>2, <2>3, <2>4 DEF WaiterIsHeld
<1>11. TaskInv'
  <2> SUFFICES ASSUME NEW h \in Requests, task'[h] # "none"
               PROVE  future'[<<h, 1>>] # "none"
    BY DEF TaskInv
  <2>1. <<h, 1>> \in Samples
    BY SampleFacts
  <2>2. F[<<h, 1>>] # "none"
    BY <1>1
  <2> QED BY <1>6, <1>7, <2>1, <2>2
<1>12. OwnReward'
  <2> SUFFICES ASSUME NEW s \in Samples, future'[s] = "set"
               PROVE  score'[s] = {s} \cap valid
    BY DEF OwnReward
  <2>1. CASE s \notin Range(p)
    <3>1. score'[s] = score[s]
      BY <1>1, <2>1 DEF Scored
    <3> QED BY <1>6, <2>1, <3>1 DEF OwnReward
  <2>2. CASE s \in Range(p)
    <3>1. F[s] = "waiting"
      BY <2>2
    <3>2. score' = Scored(p, << >>, << >>) /\ Range(p) \cap valid = {}
      BY <1>1, <2>2, <3>1 DEF Failed
    <3>3. score'[s] = {}
      BY <1>1, <2>2, <3>2, NoRows
    <3> QED BY <2>2, <3>2, <3>3
  <2> QED BY <2>1, <2>2
<1> QED BY <1>2, <1>3, <1>8, <1>9, <1>10, <1>11, <1>12

(* The batch goes to the ranks of the critic. *)
LEMMA DrainSent ==
    ASSUME IInv, NEW g \in Requests, NEW p, NEW F, NEW T, DrainReady(g, p, F, T),
           NEW idx \in OrigIdx(p),
           timer' = NoTimer, pending' = << >>,
           task' = [T EXCEPT ![g] = "critic"],
           batch' = [batch EXCEPT ![g] = p],
           orig' = [orig EXCEPT ![g] = idx],
           inbox' = [r \in Ranks |->
               Append(inbox[r], [drain |-> g, prompts |-> Prompts(p, idx)])],
           future' = F,
           UNCHANGED <<answer, score, valid>>
    PROVE  IInv'
<1> USE DEF IInv, DrainReady
<1>1. /\ p \in Seq(Samples) /\ F \in [Samples -> FutureStates]
      /\ T \in [Requests -> TaskStates] /\ task \in [Requests -> TaskStates]
      /\ batch \in [Requests -> Seq(Samples)] /\ orig \in [Requests -> Seq(Nat)]
  BY DEF TypeOK, TaskStates
<1>2. /\ idx \in Seq(Nat) /\ Prompts(p, idx) \in Seq(Samples)
  BY <1>1, OrigFacts
<1>3. TypeOK'
  <2>1. [drain |-> g, prompts |-> Prompts(p, idx)] \in Call
    BY <1>2 DEF Call
  <2>2. \A r \in Ranks : inbox'[r] \in Seq(Call)
    BY <2>1, CallFacts
  <2>3. inbox' \in [Ranks -> Seq(Call)]
    BY <2>2
  <2>4. /\ task' \in [Requests -> TaskStates]
        /\ batch' \in [Requests -> Seq(Samples)] /\ orig' \in [Requests -> Seq(Nat)]
    BY <1>1, <1>2 DEF TaskStates
  <2>5. /\ pending' \in Seq(Samples) /\ timer' \in Requests \cup {NoTimer}
        /\ answer' \in [Requests -> Answer] /\ score' \in [Samples -> SUBSET Samples]
        /\ valid' \subseteq Samples /\ future' \in [Samples -> FutureStates]
    BY DEF TypeOK
  <2> QED BY <2>3, <2>4, <2>5 DEF TypeOK, TaskStates, FutureStates
<1>4. /\ task'[g] = "critic" /\ batch'[g] = p /\ orig'[g] = idx
      /\ task[g] \notin {"critic", "back"}
  BY <1>1
<1>5. ASSUME NEW h \in Requests, h # g
      PROVE  /\ task'[h] = T[h] /\ batch'[h] = batch[h] /\ orig'[h] = orig[h]
             /\ task'[h] \notin {"asleep", "due"}
             /\ task'[h] \in {"critic", "back"} \/ task[h] \in {"critic", "back"}
                   => task'[h] = task[h]
  BY <1>1, <1>5
<1>6. \A s \in Samples : Held(s)' = IF s \in Range(p) THEN Held(s) \cup {g} ELSE Held(s)
  BY <1>4, <1>5 DEF Held
<1>7. PendingIsGuarded'
  BY BatchAssumption DEF PendingIsGuarded
<1>8. TimerIsCurrent'
  <2>1. \A h \in Requests : task'[h] \notin {"asleep", "due"} /\ h # NoTimer
    BY <1>4, <1>5, RequestAssumption
  <2> QED BY <2>1 DEF TimerIsCurrent
<1>9. WaiterIsHeld'
  <2>1. Range(pending') = {}
    BY DEF Range
  <2>2. \A s \in Samples : future'[s] = "waiting" <=> Held(s)' # {}
    BY <1>6
  <2>3. ASSUME NEW s \in Samples PROVE \A h, k \in Held(s)' : h = k
    <3>1. CASE s \in Range(p)
      <4>1. Held(s)' = {g}
        BY <1>6, <3>1
      <4> QED BY <4>1
    <3>2. CASE s \notin Range(p)
      <4>1. Held(s)' = Held(s)
        BY <1>6, <3>2
      <4> QED BY <4>1 DEF WaiterIsHeld
    <3> QED BY <3>1, <3>2
  <2>4. IsInjective(pending') /\ \A h \in Requests : IsInjective(batch'[h])
    BY <1>4, <1>5 DEF WaiterIsHeld, IsInjective
  <2> QED BY <2>1, <2>2, <2>3, <2>4 DEF WaiterIsHeld
<1>10. TaskInv'
  BY <1>4, <1>5 DEF TaskInv
<1>11. CallInv'
  <2> SUFFICES ASSUME NEW r \in Ranks
               PROVE  /\ \A i \in DOMAIN inbox'[r] :
                           LET c == inbox'[r][i]
                           IN  /\ task'[c.drain] = "critic"
                               /\ c.prompts = Prompts(batch'[c.drain], orig'[c.drain])
                      /\ \A i, j \in DOMAIN inbox'[r] :
                           inbox'[r][i].drain = inbox'[r][j].drain => i = j
    BY DEF CallInv, Prompts
  <2>1. /\ inbox[r] \in Seq(Call) /\ Len(inbox[r]) \in Nat
        /\ \A i \in 1..Len(inbox[r]) : inbox[r][i].drain \in Requests
    BY CallFacts
  <2>2. \A i \in 1..Len(inbox[r]) :
          /\ task[inbox[r][i].drain] = "critic" /\ inbox[r][i].drain # g
          /\ inbox[r][i].prompts
                = Prompts(batch[inbox[r][i].drain], orig[inbox[r][i].drain])
    BY <1>4, <2>1 DEF CallInv
  <2>3. /\ inbox'[r] = Append(inbox[r], [drain |-> g, prompts |-> Prompts(p, idx)])
        /\ DOMAIN inbox'[r] = 1..(Len(inbox[r]) + 1)
        /\ \A i \in 1..Len(inbox[r]) : inbox'[r][i] = inbox[r][i]
        /\ inbox'[r][Len(inbox[r]) + 1] = [drain |-> g, prompts |-> Prompts(p, idx)]
    BY <2>1
  <2>4. \A i \in DOMAIN inbox'[r] : i \in 1..Len(inbox[r]) \/ i = Len(inbox[r]) + 1
    BY <2>1, <2>3
  <2>5. \A i \in DOMAIN inbox'[r] :
          /\ task'[inbox'[r][i].drain] = "critic"
          /\ inbox'[r][i].prompts
                = Prompts(batch'[inbox'[r][i].drain], orig'[inbox'[r][i].drain])
    BY <1>4, <1>5, <2>1, <2>2, <2>3, <2>4
  <2>6. \A i, j \in DOMAIN inbox'[r] : inbox'[r][i].drain = inbox'[r][j].drain => i = j
    <3>1. \A i, j \in 1..Len(inbox[r]) : inbox[r][i].drain = inbox[r][j].drain => i = j
      BY <2>1 DEF CallInv
    <3> QED BY <2>2, <2>3, <2>4, <3>1
  <2> QED BY <2>5, <2>6
<1>12. RowInv'
  <2> SUFFICES ASSUME NEW h \in Requests
               PROVE  /\ task'[h] \in {"critic", "back"} => orig'[h] \in OrigIdx(batch'[h])
                      /\ task'[h] = "back" /\ answer[h].ok
                           => answer[h].rows = Prompts(batch'[h], orig'[h])
    <3>1. valid' = valid /\ answer' = answer
      OBVIOUS
    <3>2. \A h \in Requests : OrigIdx(batch[h])' = OrigIdx(batch'[h])
      BY <3>1 DEF OrigIdx, Scorable
    <3>3. \A h \in Requests : Prompts(batch[h], orig[h])' = Prompts(batch'[h], orig'[h])
      BY DEF Prompts
    <3> QED BY <3>1, <3>2, <3>3 DEF RowInv
  <2>1. CASE h = g
    BY <1>4, <2>1
  <2>2. CASE h # g
    BY <1>5, <2>2 DEF RowInv
  <2> QED BY <2>1, <2>2
<1>13. OwnReward'
  BY DEF OwnReward
<1> QED BY <1>3, <1>7, <1>8, <1>9, <1>10, <1>11, <1>12, <1>13

LEMMA DrainStep ==
    ASSUME IInv, NEW g \in Requests, NEW p, NEW F, NEW T, DrainReady(g, p, F, T),
           Drain(g, p, F, T)
    PROVE  IInv'
<1>1. timer' = NoTimer /\ pending' = << >> /\ UNCHANGED <<answer, valid>>
  BY DEF Drain, TimerAfterDrain, Left
<1>2. CASE /\ task' = [T EXCEPT ![g] = "over"] /\ future' = Failed(F, p)
           /\ UNCHANGED <<batch, orig, inbox, score>>
  BY <1>1, <1>2, DrainOver
<1>3. CASE /\ Range(p) \cap valid = {} /\ task' = [T EXCEPT ![g] = "over"]
           /\ future' = Resolved(F, p) /\ score' = Scored(p, << >>, << >>)
           /\ UNCHANGED <<batch, orig, inbox>>
  BY <1>1, <1>3, DrainOver
<1>4. ASSUME NEW idx \in OrigIdx(p),
             task' = [T EXCEPT ![g] = "critic"], batch' = [batch EXCEPT ![g] = p],
             orig' = [orig EXCEPT ![g] = idx],
             inbox' = [r \in Ranks |->
                 Append(inbox[r], [drain |-> g, prompts |-> Prompts(p, idx)])],
             future' = F, score' = score
      PROVE  IInv'
  BY <1>1, <1>4, DrainSent
<1> QED BY <1>2, <1>3, <1>4 DEF Drain

-----------------------------------------------------------------------------
(* The steps *)

(* _pending and the futures once g has appended its samples. *)
Extended(g) == pending \o Entries(g)
Awaited(g) == [s \in Samples |-> IF s \in SamplesOf(g) THEN "waiting" ELSE future[s]]

LEMMA RequestReady ==
    ASSUME IInv, NEW g \in Requests, \A s \in SamplesOf(g) : future[s] = "none"
    PROVE  /\ Extended(g) \in Seq(Samples) /\ IsInjective(Extended(g))
           /\ Range(Extended(g)) = Range(pending) \cup SamplesOf(g)
           /\ Awaited(g) \in [Samples -> FutureStates]
           /\ task[g] = "none"
           /\ \A s \in SamplesOf(g) : Held(s) = {}
           /\ \A s \in Samples :
                 /\ Awaited(g)[s] = "waiting" <=> s \in Range(Extended(g)) \/ Held(s) # {}
                 /\ s \in Range(Extended(g)) => Held(s) = {}
                 /\ Awaited(g)[s] = "set" => future[s] = "set"
           /\ \A h \in Requests : task[h] # "none" \/ h = g => Awaited(g)[<<h, 1>>] # "none"
<1> USE DEF IInv
<1>1. /\ pending \in Seq(Samples) /\ future \in [Samples -> FutureStates]
  BY DEF TypeOK, FutureStates
<1>2. /\ Entries(g) \in Seq(Samples) /\ IsInjective(Entries(g))
      /\ Range(Entries(g)) = SamplesOf(g)
  BY EntriesFacts
<1>3. /\ SamplesOf(g) \subseteq Samples /\ <<g, 1>> \in SamplesOf(g)
  BY SampleFacts
<1>4. \A s \in SamplesOf(g) : s \notin Range(pending) /\ Held(s) = {}
  BY <1>3 DEF WaiterIsHeld
<1>5. Extended(g) \in Seq(Samples) /\ IsInjective(Extended(g)) /\ Range(Extended(g)) = Range(pending) \cup SamplesOf(g)
  <2>1. Range(pending) \cap Range(Entries(g)) = {} /\ IsInjective(pending)
    BY <1>2, <1>4 DEF WaiterIsHeld
  <2> QED BY <1>1, <1>2, <2>1, ConcatFacts DEF Extended
<1>6. Awaited(g) \in [Samples -> FutureStates]
  BY <1>1 DEF FutureStates, Awaited
<1>7. task[g] = "none"
  BY <1>3 DEF TaskInv
<1>8. ASSUME NEW s \in Samples
      PROVE  /\ Awaited(g)[s] = "waiting" <=> s \in Range(Extended(g)) \/ Held(s) # {}
             /\ s \in Range(Extended(g)) => Held(s) = {}
             /\ Awaited(g)[s] = "set" => future[s] = "set"
  BY <1>4, <1>5 DEF WaiterIsHeld, Awaited
<1>9. \A h \in Requests : task[h] # "none" \/ h = g => Awaited(g)[<<h, 1>>] # "none"
  BY <1>3, SampleFacts DEF TaskInv, Awaited
<1> QED BY <1>4, <1>5, <1>6, <1>7, <1>8, <1>9

LEMMA RequestStep ==
    ASSUME IInv, NEW g \in Requests, Request(g)
    PROVE  IInv'
<1> DEFINE p == Extended(g)
           F == Awaited(g)
<1>1. \A s \in SamplesOf(g) : future[s] = "none"
  BY DEF Request
<1>2. /\ p \in Seq(Samples) /\ IsInjective(p)
      /\ Range(p) = Range(pending) \cup SamplesOf(g)
      /\ F \in [Samples -> FutureStates]
      /\ task[g] = "none"
      /\ \A s \in SamplesOf(g) : Held(s) = {}
      /\ \A s \in Samples :
            /\ F[s] = "waiting" <=> s \in Range(p) \/ Held(s) # {}
            /\ s \in Range(p) => Held(s) = {}
            /\ F[s] = "set" => future[s] = "set"
      /\ \A h \in Requests : task[h] # "none" \/ h = g => F[<<h, 1>>] # "none"
  BY <1>1, RequestReady
<1>3. task \in [Requests -> TaskStates] /\ timer \in Requests \cup {NoTimer}
  BY DEF IInv, TypeOK, TaskStates
<1>4. \A h \in Requests : task[h] \in {"asleep", "due"} <=> timer = h
  BY DEF IInv, TimerIsCurrent
<1>5. CASE Full(p) /\ Drain(g, p, F, Cancelled)
  <2>1. Cancelled \in [Requests -> TaskStates]
    BY <1>3 DEF Cancelled, TaskStates
  <2>2. \A h \in Requests : /\ h # timer => Cancelled[h] = task[h]
                            /\ h = timer => Cancelled[h] = "over"
    BY <1>3, RequestAssumption DEF Cancelled
  <2>3. DrainReady(g, p, F, Cancelled)
    <3>1. Cancelled[g] \notin {"critic", "back"}
      BY <1>2, <2>2
    <3>2. \A h \in Requests \ {g} : Cancelled[h] \notin {"asleep", "due"}
      BY <1>4, <2>2
    <3>3. \A h \in Requests :
            Cancelled[h] \in {"critic", "back"} \/ task[h] \in {"critic", "back"}
                => Cancelled[h] = task[h]
      BY <1>4, <2>2
    <3>4. \A h \in Requests : Cancelled[h] # "none" \/ h = g => F[<<h, 1>>] # "none"
      BY <1>2, <1>4, <2>2
    <3> HIDE DEF p, F
    <3> QED BY <1>2, <2>1, <3>1, <3>2, <3>3, <3>4 DEF DrainReady
  <2> HIDE DEF p, F
  <2> QED BY <1>5, <2>3, DrainStep
<1>6. CASE /\ ~Full(p) /\ pending' = p /\ future' = F
           /\ \/ timer = NoTimer /\ timer' = g /\ task' = [task EXCEPT ![g] = "asleep"]
              \/ timer # NoTimer /\ UNCHANGED <<timer, task>>
           /\ UNCHANGED <<batch, orig, inbox, answer, score, valid>>
  <2>1. Len(pending) < BatchSize /\ Len(p) < BatchSize /\ p # << >>
    <3>1. pending \in Seq(Samples) /\ Entries(g) \in Seq(Samples) /\ Entries(g) # << >>
      BY EntriesFacts DEF IInv, TypeOK
    <3>2. p # << >>
      BY <3>1 DEF Extended
    <3> QED BY <1>2, <1>6, <3>2, BatchAssumption DEF Full, IInv, PendingIsGuarded
  <2>2. /\ timer' \in Requests
        /\ \A h \in Requests : task'[h] \in {"asleep", "due"} <=> timer' = h
        /\ task' \in [Requests -> TaskStates]
    <3> HIDE DEF p, F
    <3>1. CASE timer = NoTimer
      <4>1. timer' = g /\ task' = [task EXCEPT ![g] = "asleep"]
        BY <1>6, <3>1
      <4>2. \A h \in Requests : task[h] \notin {"asleep", "due"}
        BY <1>4, <3>1, RequestAssumption
      <4> QED BY <1>3, <4>1, <4>2 DEF TaskStates
    <3>2. CASE timer # NoTimer
      BY <1>3, <1>4, <1>6, <3>2
    <3> QED BY <3>1, <3>2
  <2>3. \A h \in Requests :
          task'[h] \in {"critic", "back"} \/ task[h] \in {"critic", "back"}
            => task'[h] = task[h]
    BY <1>2, <1>3, <1>6
  <2>4. CallInv' /\ RowInv' /\ \A s \in Samples : Held(s)' = Held(s)
    BY <1>6, <2>3, CallFrame DEF IInv
  <2>5. TypeOK'
    <3>1. /\ pending' \in Seq(Samples) /\ future' \in [Samples -> FutureStates]
      BY <1>2, <1>6
    <3>2. /\ batch' \in [Requests -> Seq(Samples)] /\ orig' \in [Requests -> Seq(Nat)]
          /\ inbox' \in [Ranks -> Seq(Call)] /\ answer' \in [Requests -> Answer]
          /\ score' \in [Samples -> SUBSET Samples] /\ valid' \subseteq Samples
      BY <1>6 DEF IInv, TypeOK
    <3> QED BY <2>2, <3>1, <3>2 DEF TypeOK, TaskStates, FutureStates
  <2>6. PendingIsGuarded'
    BY <1>6, <2>1, <2>2, RequestAssumption DEF PendingIsGuarded
  <2>7. TimerIsCurrent'
    BY <2>2 DEF TimerIsCurrent
  <2>8. WaiterIsHeld'
    <3>1. IsInjective(p) /\ \A h \in Requests : IsInjective(batch'[h])
      BY <1>2, <1>6 DEF IInv, WaiterIsHeld
    <3>2. \A s \in Samples : \A h, k \in Held(s)' : h = k
      BY <2>4 DEF IInv, WaiterIsHeld
    <3>3. \A s \in Samples :
            /\ future'[s] = "waiting" <=> s \in Range(pending') \/ Held(s)' # {}
            /\ s \in Range(pending') => Held(s)' = {}
      BY <1>2, <1>6, <2>4
    <3> QED BY <1>6, <3>1, <3>2, <3>3 DEF WaiterIsHeld, IsInjective, Range
  <2>9. TaskInv'
    BY <1>2, <1>3, <1>6 DEF TaskInv
  <2>10. OwnReward'
    BY <1>2, <1>6 DEF IInv, OwnReward
  <2> QED BY <2>4, <2>5, <2>6, <2>7, <2>8, <2>9, <2>10 DEF IInv
<1> QED BY <1>1, <1>5, <1>6 DEF Request, Extended, Awaited

LEMMA TimerFiresStep ==
    ASSUME IInv, NEW g \in Requests, TimerFires(g)
    PROVE  IInv'
<1> USE DEF IInv
<1>1. /\ task[g] = "asleep" /\ task' = [task EXCEPT ![g] = "due"]
      /\ UNCHANGED <<pending, timer, batch, orig, inbox, answer, future, score, valid>>
  BY DEF TimerFires
<1>2. task \in [Requests -> TaskStates] /\ task' \in [Requests -> TaskStates]
  BY <1>1 DEF TypeOK, TaskStates
<1>3. CallInv' /\ RowInv' /\ \A s \in Samples : Held(s)' = Held(s)
  <2>1. \A h \in Requests :
          task'[h] \in {"critic", "back"} \/ task[h] \in {"critic", "back"}
            => task'[h] = task[h]
    BY <1>1, <1>2
  <2> QED BY <1>1, <2>1, CallFrame
<1>4. TypeOK'
  BY <1>1, <1>2 DEF TypeOK, TaskStates
<1>5. TimerIsCurrent' /\ PendingIsGuarded'
  <2>1. \A h \in Requests : task'[h] \in {"asleep", "due"} <=> task[h] \in {"asleep", "due"}
    BY <1>1, <1>2
  <2>2. timer \in Requests \cup {NoTimer}
    BY DEF TypeOK
  <2> QED BY <1>1, <2>1, <2>2 DEF TimerIsCurrent, PendingIsGuarded
<1>6. WaiterIsHeld'
  BY <1>1, <1>3 DEF WaiterIsHeld, IsInjective, Range
<1>7. TaskInv' /\ OwnReward'
  BY <1>1, <1>2 DEF TaskInv, OwnReward
<1> QED BY <1>3, <1>4, <1>5, <1>6, <1>7

LEMMA TimerRunsStep ==
    ASSUME IInv, NEW g \in Requests, TimerRuns(g)
    PROVE  IInv'
<1>1. task[g] = "due" /\ timer = g /\ g # NoTimer
  BY RequestAssumption DEF TimerRuns, IInv, TimerIsCurrent
<1>2. Drain(g, pending, future, task)
  BY <1>1 DEF TimerRuns
<1>3. DrainReady(g, pending, future, task)
  <2>1. \A h \in Requests \ {g} : task[h] \notin {"asleep", "due"}
    BY <1>1 DEF IInv, TimerIsCurrent
  <2>2. \A h \in Requests : task[h] # "none" \/ h = g => future[<<h, 1>>] # "none"
    BY <1>1 DEF IInv, TaskInv
  <2> QED BY <1>1, <2>1, <2>2
        DEF DrainReady, IInv, TypeOK, TaskStates, FutureStates, WaiterIsHeld
<1> QED BY <1>2, <1>3, DrainStep

(* The ranks go through a call: it is the head at each of them. *)
LEMMA ForwardStep ==
    ASSUME IInv, NEW g \in Requests, Forward(g)
    PROVE  IInv'
<1> USE DEF IInv
<1>1. /\ \A r \in Ranks : inbox[r] # << >> /\ Head(inbox[r]).drain = g
      /\ inbox' = [r \in Ranks |-> Tail(inbox[r])]
      /\ task' = [task EXCEPT ![g] = "back"]
      /\ UNCHANGED <<pending, timer, batch, orig, future, score, valid>>
  BY DEF Forward
<1>2. PICK ok \in BOOLEAN, r \in Ranks :
        answer' = [answer EXCEPT ![g] =
            [ok |-> ok, rows |-> IF ok THEN Head(inbox[r]).prompts ELSE << >>]]
  BY DEF Forward
<1>3. /\ task \in [Requests -> TaskStates] /\ task' \in [Requests -> TaskStates]
      /\ answer \in [Requests -> Answer]
  BY <1>1 DEF TypeOK, TaskStates
<1>4. ASSUME NEW q \in Ranks
      PROVE  /\ inbox[q] \in Seq(Call) /\ Len(inbox[q]) \in Nat /\ Len(inbox[q]) > 0
             /\ inbox[q][1].drain = g
             /\ inbox[q][1].prompts = Prompts(batch[g], orig[g])
             /\ inbox[q][1].prompts \in Seq(Samples)
             /\ Head(inbox[q]) = inbox[q][1]
             /\ task[g] = "critic"
  <2>1. inbox[q] \in Seq(Call) /\ inbox[q] # << >>
    BY <1>1, CallFacts
  <2>2. 1 \in DOMAIN inbox[q] /\ Head(inbox[q]) = inbox[q][1]
    BY <2>1
  <2>3. inbox[q][1].drain = g
    BY <1>1, <2>2
  <2> QED BY <2>1, <2>2, <2>3, CallFacts DEF CallInv
<1>5. ASSUME NEW q \in Ranks
      PROVE  /\ inbox'[q] \in Seq(Call)
             /\ DOMAIN inbox'[q] = 1..(Len(inbox[q]) - 1)
             /\ \A i \in DOMAIN inbox'[q] :
                   /\ i + 1 \in DOMAIN inbox[q] /\ i + 1 # 1
                   /\ inbox'[q][i] = inbox[q][i + 1]
  BY <1>1, <1>4
<1>6. TypeOK'
  <2>1. inbox' \in [Ranks -> Seq(Call)]
    BY <1>1, <1>5
  <2>2. [ok |-> ok, rows |-> IF ok THEN Head(inbox[r]).prompts ELSE << >>] \in Answer
    BY <1>4 DEF Answer
  <2>3. answer' \in [Requests -> Answer]
    BY <1>2, <1>3, <2>2
  <2> QED BY <1>1, <1>3, <2>1, <2>3 DEF TypeOK, TaskStates
<1>7. task[g] = "critic"
  BY <1>4, RankAssumption
<1>8. \A h \in Requests : /\ task'[h] \in {"critic", "back"} <=> task[h] \in {"critic", "back"}
                          /\ task'[h] \in {"asleep", "due"} <=> task[h] \in {"asleep", "due"}
                          /\ h # g => task'[h] = task[h]
                          /\ task'[h] # "none" => task[h] # "none"
  BY <1>1, <1>3, <1>7
<1>9. TimerIsCurrent' /\ PendingIsGuarded'
  <2>1. timer \in Requests \cup {NoTimer}
    BY DEF TypeOK
  <2> QED BY <1>1, <1>8, <2>1 DEF TimerIsCurrent, PendingIsGuarded
<1>10. WaiterIsHeld'
  <2>1. \A s \in Samples : Held(s)' = Held(s)
    BY <1>1, <1>8 DEF Held
  <2> QED BY <1>1, <2>1 DEF WaiterIsHeld, IsInjective, Range
<1>11. TaskInv' /\ OwnReward'
  BY <1>1, <1>8 DEF TaskInv, OwnReward
<1>12. CallInv'
  <2> SUFFICES ASSUME NEW q \in Ranks
               PROVE  /\ \A i \in DOMAIN inbox'[q] :
                           /\ task'[inbox'[q][i].drain] = "critic"
                           /\ inbox'[q][i].prompts
                                 = Prompts(batch'[inbox'[q][i].drain], orig'[inbox'[q][i].drain])
                      /\ \A i, j \in DOMAIN inbox'[q] :
                           inbox'[q][i].drain = inbox'[q][j].drain => i = j
    BY DEF CallInv, Prompts
  <2>1. \A i \in DOMAIN inbox[q] : i # 1 => inbox[q][i].drain # g
    <3>1. 1 \in DOMAIN inbox[q] /\ inbox[q][1].drain = g
      BY <1>4
    <3> QED BY <3>1 DEF CallInv
  <2>2. \A i \in DOMAIN inbox[q] : inbox[q][i].drain \in Requests
    BY CallFacts
  <2>3. \A i \in DOMAIN inbox'[q] :
          /\ task'[inbox'[q][i].drain] = "critic"
          /\ inbox'[q][i].prompts
                = Prompts(batch'[inbox'[q][i].drain], orig'[inbox'[q][i].drain])
    BY <1>1, <1>5, <1>8, <2>1, <2>2 DEF CallInv
  <2>4. ASSUME NEW i \in DOMAIN inbox'[q], NEW j \in DOMAIN inbox'[q],
               inbox'[q][i].drain = inbox'[q][j].drain
        PROVE  i = j
    <3>1. i + 1 = j + 1
      BY <1>5, <2>4 DEF CallInv
    <3>2. i \in Nat /\ j \in Nat
      BY <1>4, <1>5
    <3> QED BY <3>1, <3>2
  <2> QED BY <2>3, <2>4
<1>13. RowInv'
  <2> SUFFICES ASSUME NEW h \in Requests
               PROVE  /\ task'[h] \in {"critic", "back"} => orig[h] \in OrigIdx(batch[h])
                      /\ task'[h] = "back" /\ answer'[h].ok
                           => answer'[h].rows = Prompts(batch[h], orig[h])
    <3>1. \A h \in Requests : OrigIdx(batch[h])' = OrigIdx(batch[h])
      BY <1>1 DEF OrigIdx, Scorable
    <3>2. \A h \in Requests : Prompts(batch[h], orig[h])' = Prompts(batch[h], orig[h])
      BY <1>1 DEF Prompts
    <3> QED BY <1>1, <3>1, <3>2 DEF RowInv
  <2>1. CASE h = g
    <3>1. answer'[g] = [ok |-> ok, rows |-> IF ok THEN Head(inbox[r]).prompts ELSE << >>]
      BY <1>2, <1>3
    <3> QED BY <1>4, <1>7, <2>1, <3>1 DEF RowInv
  <2>2. CASE h # g
    <3>1. answer'[h] = answer[h]
      BY <1>2, <1>3, <2>2
    <3> QED BY <1>8, <2>2, <3>1 DEF RowInv
  <2> QED BY <2>1, <2>2
<1> QED BY <1>6, <1>9, <1>10, <1>11, <1>12, <1>13

(* The drain of g hands out the rewards, or the exception. *)
LEMMA ResumeStep ==
    ASSUME IInv, NEW g \in Requests, Resume(g)
    PROVE  IInv'
<1> USE DEF IInv
<1>1. /\ task[g] = "back" /\ task' = [task EXCEPT ![g] = "over"]
      /\ batch' = [batch EXCEPT ![g] = << >>] /\ orig' = [orig EXCEPT ![g] = << >>]
      /\ answer' = [answer EXCEPT ![g] = NoAnswer]
      /\ UNCHANGED <<pending, timer, inbox, valid>>
  BY DEF Resume
<1>2. /\ task \in [Requests -> TaskStates] /\ task' \in [Requests -> TaskStates]
      /\ batch \in [Requests -> Seq(Samples)] /\ orig \in [Requests -> Seq(Nat)]
      /\ answer \in [Requests -> Answer] /\ future \in [Samples -> FutureStates]
      /\ score \in [Samples -> SUBSET Samples]
  BY <1>1 DEF TypeOK, TaskStates, FutureStates
<1>3. /\ \A h \in Requests \ {g} : /\ task'[h] = task[h] /\ batch'[h] = batch[h]
                                   /\ orig'[h] = orig[h] /\ answer'[h] = answer[h]
      /\ task'[g] = "over" /\ batch'[g] = << >>
  BY <1>1, <1>2
<1>4. IsInjective(batch[g]) /\ orig[g] \in OrigIdx(batch[g])
  BY <1>1 DEF WaiterIsHeld, RowInv
<1>5. \A s \in Samples : s \in Range(batch[g]) =>
         /\ Held(s) = {g} /\ future[s] = "waiting" /\ s \notin Range(pending)
  <2> SUFFICES ASSUME NEW s \in Samples, s \in Range(batch[g])
               PROVE  Held(s) = {g} /\ future[s] = "waiting" /\ s \notin Range(pending)
    OBVIOUS
  <2>1. g \in Held(s)
    BY <1>1 DEF Held
  <2> QED BY <2>1 DEF WaiterIsHeld
<1>6. \A s \in Samples : Held(s)' = Held(s) \ {g}
  BY <1>3 DEF Held
<1>7. \A s \in Samples : s \notin Range(batch[g]) => g \notin Held(s)
  BY DEF Held
<1>8. /\ \A s \in Samples : s \in Range(batch[g]) => future'[s] \in {"set", "error"}
      /\ \A s \in Samples : s \notin Range(batch[g]) => future'[s] = future[s]
      /\ future' \in [Samples -> FutureStates]
  <2>1. CASE future' = Resolved(future, batch[g])
    BY <1>2, <2>1, FutureTypes DEF Resolved
  <2>2. CASE future' = Failed(future, batch[g])
    BY <1>2, <1>5, <2>2, FutureTypes DEF Failed
  <2> QED BY <2>1, <2>2 DEF Resume
<1>9. TypeOK'
  <2>1. score' \in [Samples -> SUBSET Samples]
    <3>1. answer[g].rows \in Seq(Samples) /\ batch[g] \in Seq(Samples)
      BY <1>2 DEF Answer
    <3>2. Scored(batch[g], orig[g], answer[g].rows) \in [Samples -> SUBSET Samples]
      BY <1>2, <3>1, ScoredType
    <3> QED BY <1>2, <3>2 DEF Resume
  <2>2. NoAnswer \in Answer
    BY DEF NoAnswer, Answer
  <2>3. /\ batch' \in [Requests -> Seq(Samples)] /\ orig' \in [Requests -> Seq(Nat)]
        /\ answer' \in [Requests -> Answer]
    BY <1>1, <1>2, <2>2
  <2> QED BY <1>1, <1>2, <1>8, <2>1, <2>3 DEF TypeOK, TaskStates, FutureStates
<1>10. TimerIsCurrent' /\ PendingIsGuarded'
  <2>1. \A h \in Requests :
          task'[h] \in {"asleep", "due"} <=> task[h] \in {"asleep", "due"}
    BY <1>1, <1>3
  <2>2. timer \in Requests \cup {NoTimer}
    BY DEF TypeOK
  <2> QED BY <1>1, <2>1, <2>2 DEF TimerIsCurrent, PendingIsGuarded
<1>11. WaiterIsHeld'
  <2>1. ASSUME NEW s \in Samples
        PROVE  /\ future'[s] = "waiting" <=> s \in Range(pending) \/ Held(s)' # {}
               /\ s \in Range(pending) => Held(s)' = {}
               /\ \A h, k \in Held(s)' : h = k
    <3>1. CASE s \in Range(batch[g])
      <4>1. Held(s)' = {}
        BY <1>5, <1>6, <3>1
      <4> QED BY <1>5, <1>8, <3>1, <4>1
    <3>2. CASE s \notin Range(batch[g])
      <4>1. Held(s)' = Held(s) /\ future'[s] = future[s]
        BY <1>6, <1>7, <1>8, <3>2
      <4> QED BY <4>1 DEF WaiterIsHeld
    <3> QED BY <3>1, <3>2
  <2>2. \A h \in Requests : IsInjective(batch'[h])
    BY <1>3 DEF WaiterIsHeld, IsInjective
  <2> QED BY <1>1, <2>1, <2>2 DEF WaiterIsHeld, IsInjective, Range
<1>12. TaskInv'
  <2> SUFFICES ASSUME NEW h \in Requests, task'[h] # "none"
               PROVE  future'[<<h, 1>>] # "none"
    BY DEF TaskInv
  <2>1. <<h, 1>> \in Samples
    BY SampleFacts
  <2>2. future[<<h, 1>>] # "none"
    BY <1>1, <1>3 DEF TaskInv
  <2> QED BY <1>8, <2>1, <2>2
<1>13. CallInv'
  <2>1. \A r \in Ranks : \A i \in DOMAIN inbox[r] :
          inbox[r][i].drain \in Requests \ {g}
    BY <1>1, CallFacts DEF CallInv
  <2>2. \A r \in Ranks :
          /\ \A i \in DOMAIN inbox'[r] :
                /\ task'[inbox'[r][i].drain] = "critic"
                /\ inbox'[r][i].prompts
                      = Prompts(batch'[inbox'[r][i].drain], orig'[inbox'[r][i].drain])
          /\ \A i, j \in DOMAIN inbox'[r] :
                inbox'[r][i].drain = inbox'[r][j].drain => i = j
    BY <1>1, <1>3, <2>1 DEF CallInv
  <2> QED BY <2>2 DEF CallInv, Prompts
<1>14. RowInv'
  <2>1. \A h \in Requests : OrigIdx(batch[h])' = OrigIdx(batch'[h])
    BY <1>1 DEF OrigIdx, Scorable
  <2>2. \A h \in Requests : Prompts(batch[h], orig[h])' = Prompts(batch'[h], orig'[h])
    BY DEF Prompts
  <2>3. ASSUME NEW h \in Requests
        PROVE  /\ task'[h] \in {"critic", "back"} => orig'[h] \in OrigIdx(batch'[h])
               /\ task'[h] = "back" /\ answer'[h].ok
                     => answer'[h].rows = Prompts(batch'[h], orig'[h])
    BY <1>3 DEF RowInv
  <2> QED BY <2>1, <2>2, <2>3 DEF RowInv
<1>15. OwnReward'
  <2> SUFFICES ASSUME NEW s \in Samples, future'[s] = "set"
               PROVE  score'[s] = {s} \cap valid
    BY <1>1 DEF OwnReward
  <2>1. CASE s \notin Range(batch[g])
    <3>1. score'[s] = score[s]
      BY <1>2, <2>1 DEF Resume, Scored
    <3> QED BY <1>8, <2>1, <3>1 DEF OwnReward
  <2>2. CASE s \in Range(batch[g])
    <3>1. answer[g].ok /\ score' = Scored(batch[g], orig[g], answer[g].rows)
      BY <1>2, <1>5, <2>2 DEF Resume, Failed
    <3>2. answer[g].rows = Prompts(batch[g], orig[g])
      BY <1>1, <3>1 DEF RowInv
    <3>3. batch[g] \in Seq(Samples)
      BY <1>2
    <3> HIDE DEF IInv
    <3>4. ASSUME NEW p \in Seq(Samples), NEW idx \in OrigIdx(p), IsInjective(p),
                 s \in Range(p)
          PROVE  Scored(p, idx, Prompts(p, idx))[s] = {s} \cap valid
      BY <1>2, <3>4, OwnRows
    <3>5. Scored(batch[g], orig[g], Prompts(batch[g], orig[g]))[s] = {s} \cap valid
      BY <1>4, <2>2, <3>3, <3>4
    <3> QED BY <3>1, <3>2, <3>5
  <2> QED BY <2>1, <2>2
<1> QED BY <1>9, <1>10, <1>11, <1>12, <1>13, <1>14, <1>15

-----------------------------------------------------------------------------
(* The invariant and the theorems *)

LEMMA InitIInv == Init => IInv
<1> SUFFICES ASSUME Init PROVE IInv
  OBVIOUS
<1> USE DEF Init
<1>1. TypeOK
  BY DEF TypeOK, NoAnswer, Answer
<1>2. PendingIsGuarded /\ TimerIsCurrent
  BY BatchAssumption, RequestAssumption DEF PendingIsGuarded, TimerIsCurrent
<1>3. WaiterIsHeld
  BY DEF WaiterIsHeld, Held, IsInjective, Range
<1>4. TaskInv /\ CallInv /\ RowInv /\ OwnReward
  BY DEF TaskInv, CallInv, RowInv, OwnReward
<1> QED BY <1>1, <1>2, <1>3, <1>4 DEF IInv

LEMMA NextIInv == IInv /\ [Next]_vars => IInv'
<1> SUFFICES ASSUME IInv, [Next]_vars PROVE IInv'
  OBVIOUS
<1>1. CASE Next
  BY <1>1, RequestStep, TimerFiresStep, TimerRunsStep, ForwardStep, ResumeStep DEF Next
<1>2. CASE UNCHANGED vars
  <2>1. CallInv' /\ RowInv' /\ \A s \in Samples : Held(s)' = Held(s)
    BY <1>2, CallFrame DEF IInv, vars
  <2>2. TypeOK' /\ PendingIsGuarded' /\ TimerIsCurrent' /\ TaskInv' /\ OwnReward'
    BY <1>2 DEF IInv, vars, TypeOK, PendingIsGuarded, TimerIsCurrent, TaskInv, OwnReward
  <2>3. WaiterIsHeld'
    BY <1>2, <2>1 DEF IInv, vars, WaiterIsHeld, IsInjective, Range
  <2> QED BY <2>1, <2>2, <2>3 DEF IInv
<1> QED BY <1>1, <1>2

(* The inductive invariant of the accumulator holds in every reachable state: *)
(* types, the timer, the place of every awaited sample, the calls at the      *)
(* ranks and the rows they return.                                            *)
THEOREM AccumulatorInvariance == Spec => []IInv
<1>1. Init => IInv
  BY InitIInv
<1>2. IInv /\ [Next]_vars => IInv'
  BY NextIInv
<1> QED BY <1>1, <1>2, PTL DEF Spec

(* _pending is never left without the timer that will drain it, and never    *)
(* holds a whole batch (nla_rm, _flush_after_timeout).                       *)
THEOREM NothingIsStranded == Spec => []PendingIsGuarded
<1>1. IInv => PendingIsGuarded
  BY DEF IInv
<1> QED BY <1>1, AccumulatorInvariance, PTL

(* Only the task in _drain_task is alive before its drain: cancel() and the  *)
(* reset in _drain leave no older timer (nla_rm, _drain).                    *)
THEOREM OneTimer == Spec => []TimerIsCurrent
<1>1. IInv => TimerIsCurrent
  BY DEF IInv
<1> QED BY <1>1, AccumulatorInvariance, PTL

(* Every awaited future is in exactly one place, so that it is resolved once *)
(* and never forgotten (_drain detaches whole batches).                      *)
THEOREM NoWaiterIsLost == Spec => []WaiterIsHeld
<1>1. IInv => WaiterIsHeld
  BY DEF IInv
<1> QED BY <1>1, AccumulatorInvariance, PTL

(* Whatever else is in its batch, a sample is rewarded by the critic's row   *)
(* for its own explanation, or with the penalty if it has none (orig_idx).   *)
THEOREM RewardsAreOwn == Spec => []OwnReward
<1>1. IInv => OwnReward
  BY DEF IInv
<1> QED BY <1>1, AccumulatorInvariance, PTL

(* All reachable states are well typed. *)
THEOREM AccumulatorTypes == Spec => []TypeOK
<1>1. IInv => TypeOK
  BY DEF IInv
<1> QED BY <1>1, AccumulatorInvariance, PTL

=============================================================================
