---------------------------- MODULE PartitionProofs ----------------------------
(***************************************************************************)
(* Proofs about the division of rows: among the ranks of a training step   *)
(* (TrainBatch), for any topology, batch and number of ranks, and among    *)
(* the extractors of a launch (ShardedExtraction), for any source, request *)
(* and number of devices: first the plan, then what a group of documents   *)
(* and a range contain, then the joining of ranges, then the launches.     *)
(***************************************************************************)
EXTENDS TrainBatch, ShardedExtraction, FiniteSetTheorems, SequenceTheorems, WellFoundedInduction, TLAPS

-----------------------------------------------------------------------------
(* Division *)

LEMMA DivMod ==
    ASSUME NEW n \in Nat, NEW d \in Positive
    PROVE  /\ n % d \in 0..(d - 1) /\ n % d <= n
           /\ n \div d \in Nat
           /\ n = d * (n \div d) + (n % d)
BY DEF Positive

LEMMA MulMod ==
    ASSUME NEW d \in Positive, NEW q \in Nat, NEW r \in 0..(d - 1)
    PROVE  (d * q + r) % d = r /\ (d * q + r) \div d = q
BY DEF Positive

LEMMA PositiveProduct ==
    ASSUME NEW c \in Positive, NEW d \in Positive
    PROVE  c * d \in Positive
BY DEF Positive

LEMMA AlignDownType ==
    ASSUME NEW n \in Nat, NEW d \in Positive
    PROVE  /\ AlignDown(n, d) \in 0..n
           /\ n - AlignDown(n, d) < d
           /\ AlignDown(n, d) = d * (n \div d)
BY DivMod DEF AlignDown, Positive

(* What is aligned to ranks times microbatch is, on each rank, aligned to   *)
(* the microbatch.                                                          *)
LEMMA AlignedShare ==
    ASSUME NEW n \in Nat, NEW c \in Positive, NEW d \in Positive
    PROVE  LET r == AlignDown(n, c * d)
               m == r \div c
           IN  /\ m \in Nat /\ r = m * c
               /\ AlignDown(m, d) = m
               /\ r > 0 => m > 0
<1> DEFINE q == n \div (c * d)
           r == AlignDown(n, c * d)
           m == r \div c
<1>1. c * d \in Positive
  BY PositiveProduct
<1>2. q \in Nat /\ r = (c * d) * q
  BY <1>1, DivMod, AlignDownType
<1>3. r = c * (d * q) + 0 /\ d * q \in Nat
  BY <1>2 DEF Positive
<1>4. 0 \in 0..(c - 1) /\ 0 \in 0..(d - 1)
  BY DEF Positive
<1> HIDE DEF q, r
<1>5. m = d * q
  <2> DEFINE t == d * q
  <2>1. t \in Nat /\ r = c * t + 0
    BY <1>3
  <2> HIDE DEF t
  <2>2. (c * t + 0) \div c = t
    BY <1>4, <2>1, MulMod
  <2>3. m = t
    BY <2>1, <2>2
  <2> QED BY <2>3 DEF t
<1>6. AlignDown(m, d) = m
  <2>1. (d * q + 0) % d = 0
    BY <1>2, <1>4, MulMod
  <2>2. d * q + 0 = d * q
    BY <1>3
  <2>3. AlignDown(d * q, d) = d * q - ((d * q) % d)
    BY DEF AlignDown
  <2>4. AlignDown(d * q, d) = d * q
    BY <1>3, <2>1, <2>2, <2>3
  <2> QED BY <1>5, <2>4
<1>7. r = m * c /\ m \in Nat
  BY <1>3, <1>5 DEF Positive
<1>8. r > 0 => m > 0
  BY <1>7 DEF Positive
<1> QED BY <1>6, <1>7, <1>8 DEF r

-----------------------------------------------------------------------------
(* Positions *)

LEMMA PositionType ==
    ASSUME NEW S \in SUBSET Nat, IsFiniteSet(S), NEW i \in S
    PROVE  Position(i, S) \in 0..(Cardinality(S) - 1)
<1> DEFINE B == {j \in S : j < i}
<1>1. B \in SUBSET S /\ i \notin B
  OBVIOUS
<1>2. IsFiniteSet(B) /\ Cardinality(B) <= Cardinality(S) /\ Cardinality(B) # Cardinality(S)
  BY <1>1, FS_Subset
<1>3. Cardinality(B) \in Nat /\ Cardinality(S) \in Nat
  BY <1>2, FS_CardinalityType
<1> QED BY <1>2, <1>3 DEF Position

LEMMA PositionOrder ==
    ASSUME NEW S \in SUBSET Nat, IsFiniteSet(S), NEW i \in S, NEW j \in S, i < j
    PROVE  Position(i, S) < Position(j, S)
<1> DEFINE B == {l \in S : l < i}
           C == {l \in S : l < j}
<1>0. i \in Nat /\ j \in Nat /\ \A l \in S : l \in Nat
  OBVIOUS
<1>1. B \in SUBSET C /\ i \in C /\ i \notin B /\ C \in SUBSET S
  <2>1. \A l \in S : l < i => l < j
    BY <1>0
  <2>2. ~(i < i)
    BY <1>0
  <2>3. B \subseteq C
    BY <2>1
  <2> QED BY <2>2, <2>3
<1>2. IsFiniteSet(C)
  BY <1>1, FS_Subset
<1>3. IsFiniteSet(B) /\ Cardinality(B) <= Cardinality(C) /\ Cardinality(B) # Cardinality(C)
  BY <1>1, <1>2, FS_Subset
<1>4. Cardinality(B) \in Nat /\ Cardinality(C) \in Nat
  BY <1>2, <1>3, FS_CardinalityType
<1> QED BY <1>3, <1>4 DEF Position

LEMMA PositionIsInjective ==
    ASSUME NEW S \in SUBSET Nat, IsFiniteSet(S), NEW i \in S, NEW j \in S,
           Position(i, S) = Position(j, S)
    PROVE  i = j
<1>1. i \in Nat /\ j \in Nat
  OBVIOUS
<1>2. Position(i, S) \in Nat /\ Position(j, S) \in Nat
  BY PositionType
<1>3. CASE i < j
  BY <1>2, <1>3, PositionOrder
<1>4. CASE j < i
  BY <1>2, <1>4, PositionOrder
<1> QED BY <1>1, <1>3, <1>4

(* Every position below the size is that of a row: an injection between     *)
(* finite sets of one size is onto.                                         *)
LEMMA PositionIsOnto ==
    ASSUME NEW S \in SUBSET Nat, IsFiniteSet(S), NEW n \in 0..(Cardinality(S) - 1)
    PROVE  \E i \in S : Position(i, S) = n
<1> DEFINE T == 0..(Cardinality(S) - 1)
           f == [i \in S |-> Position(i, S)]
<1>1. Cardinality(S) \in Nat
  BY FS_CardinalityType
<1>2. IsFiniteSet(T) /\ Cardinality(T) = Cardinality(S)
  BY <1>1, FS_Interval
<1>3. f \in [S -> T]
  BY PositionType
<1>4. \A i, j \in S : f[i] = f[j] => i = j
  BY PositionIsInjective
<1> HIDE DEF T, f
<1>5. f \in Injection(S, T)
  BY <1>3, <1>4 DEF Injection, IsInjective
<1>6. f \in Surjection(S, T)
  BY <1>2, <1>5, FS_Injection
<1>7. \E i \in S : f[i] = n
  BY <1>6 DEF Surjection, T
<1> QED BY <1>7 DEF f

(* A set of rows whose positions are counted by 0..n-1 has n rows. *)
LEMMA CountBy ==
    ASSUME NEW D, NEW n \in Nat, NEW f \in [D -> 0..(n - 1)],
           \A i, j \in D : f[i] = f[j] => i = j,
           \A m \in 0..(n - 1) : \E i \in D : f[i] = m
    PROVE  IsFiniteSet(D) /\ Cardinality(D) = n
<1> DEFINE T == 0..(n - 1)
<1>1. IsFiniteSet(T) /\ Cardinality(T) = n
  BY FS_Interval
<1> HIDE DEF T
<1>2. f \in Injection(D, T) /\ f \in Surjection(D, T)
  BY DEF Injection, IsInjective, Surjection, T
<1> QED BY <1>1, <1>2, FS_Injection

LEMMA FirstCount ==
    ASSUME NEW S \in SUBSET Nat, IsFiniteSet(S), NEW n \in 0..Cardinality(S)
    PROVE  IsFiniteSet(First(n, S)) /\ Cardinality(First(n, S)) = n
<1> DEFINE f == [i \in First(n, S) |-> Position(i, S)]
<1>0. Cardinality(S) \in Nat
  BY FS_CardinalityType
<1>1. f \in [First(n, S) -> 0..(n - 1)]
  <2>1. ASSUME NEW i \in First(n, S)
        PROVE  Position(i, S) \in 0..(n - 1)
    <3>1. i \in S /\ Position(i, S) < n
      BY DEF First
    <3>2. Position(i, S) \in 0..(Cardinality(S) - 1)
      BY <3>1, PositionType
    <3> QED BY <1>0, <3>1, <3>2
  <2> QED BY <2>1
<1>2. \A i, j \in First(n, S) : f[i] = f[j] => i = j
  BY PositionIsInjective DEF First
<1>3. \A m \in 0..(n - 1) : \E i \in First(n, S) : f[i] = m
  BY <1>0, PositionIsOnto DEF First
<1> HIDE DEF f
<1> QED BY <1>0, <1>1, <1>2, <1>3, CountBy

LEMMA FirstOfAll ==
    ASSUME NEW S \in SUBSET Nat, IsFiniteSet(S)
    PROVE  First(Cardinality(S), S) = S
<1>1. Cardinality(S) \in Nat
  BY FS_CardinalityType
<1>2. ASSUME NEW i \in S
      PROVE  Position(i, S) < Cardinality(S)
  <2>1. Position(i, S) \in 0..(Cardinality(S) - 1)
    BY PositionType
  <2> QED BY <1>1, <2>1
<1> QED BY <1>2 DEF First

(* Rows dealt in turn to c ranks: m each, when they are m * c in all. *)
LEMMA DealtCount ==
    ASSUME NEW S \in SUBSET Nat, IsFiniteSet(S), NEW c \in Positive, NEW m \in Nat,
           Cardinality(S) = m * c, NEW k \in 0..(c - 1)
    PROVE  IsFiniteSet(Dealt(S, k, c)) /\ Cardinality(Dealt(S, k, c)) = m
<1> DEFINE D == Dealt(S, k, c)
           f == [i \in D |-> Position(i, S) \div c]
<1>0. c \in Nat /\ c > 0
  BY DEF Positive
<1>1. ASSUME NEW i \in D
      PROVE  /\ i \in S /\ Position(i, S) \in 0..(m * c - 1)
             /\ Position(i, S) = c * f[i] + k /\ f[i] \in 0..(m - 1)
  <2>1. i \in S /\ Position(i, S) \in 0..(m * c - 1) /\ Position(i, S) % c = k
    BY <1>1, PositionType DEF Dealt
  <2>2. Position(i, S) \in Nat
    BY <2>1
  <2>3. f[i] \in Nat /\ Position(i, S) = c * f[i] + k
    BY <2>1, <2>2, DivMod
  <2> HIDE DEF f
  <2>4. c * f[i] < c * m
    BY <1>0, <2>1, <2>2, <2>3
  <2>5. f[i] < m
    BY <1>0, <2>3, <2>4
  <2> QED BY <2>1, <2>3, <2>5
<1>2. f \in [D -> 0..(m - 1)]
  BY <1>1
<1>3. ASSUME NEW i \in D, NEW j \in D, f[i] = f[j]
      PROVE  i = j
  <2> HIDE DEF f, D
  <2>1. i \in S /\ j \in S /\ Position(i, S) = Position(j, S)
    BY <1>1, <1>3
  <2> QED BY <2>1, PositionIsInjective
<1>4. ASSUME NEW l \in 0..(m - 1)
      PROVE  \E i \in D : f[i] = l
  <2>1. c * l + k \in 0..(m * c - 1)
    BY <1>0
  <2>2. PICK i \in S : Position(i, S) = c * l + k
    BY <2>1, PositionIsOnto
  <2>3. (c * l + k) % c = k /\ (c * l + k) \div c = l
    BY MulMod
  <2>4. i \in D
    BY <2>2, <2>3 DEF Dealt
  <2> QED BY <2>2, <2>3, <2>4
<1> HIDE DEF f, D
<1>5. IsFiniteSet(D) /\ Cardinality(D) = m
  BY <1>2, <1>3, <1>4, CountBy
<1> QED BY <1>5 DEF D

LEMMA DealtApart ==
    ASSUME NEW S, NEW c, NEW j, NEW k, j # k
    PROVE  Dealt(S, j, c) \cap Dealt(S, k, c) = {}
BY DEF Dealt

LEMMA DealtToAll ==
    ASSUME NEW S \in SUBSET Nat, IsFiniteSet(S), NEW c \in Positive
    PROVE  UNION {Dealt(S, k, c) : k \in 0..(c - 1)} = S
<1>1. ASSUME NEW i \in S
      PROVE  Position(i, S) % c \in 0..(c - 1)
  <2>1. Position(i, S) \in 0..(Cardinality(S) - 1)
    BY PositionType
  <2>2. Position(i, S) \in Nat
    BY <2>1
  <2> QED BY <2>2, DivMod
<1>2. ASSUME NEW i \in S
      PROVE  \E k \in 0..(c - 1) : i \in Dealt(S, k, c)
  BY <1>1 DEF Dealt
<1>3. \A k : Dealt(S, k, c) \subseteq S
  BY DEF Dealt
<1> QED BY <1>2, <1>3

-----------------------------------------------------------------------------
(* Batches *)

LEMMA ConfigShape ==
    ASSUME NEW c \in Configs
    PROVE  /\ c \in Config /\ c.critics \in Positive /\ c.actors \in Positive
           /\ c.micro \in Positive /\ Alignment(c) \in Positive
           /\ Generated(c) \in Positive /\ c.retain \in Nat
BY ConfigAssumption DEF Config, Alignment, Generated, Positive

LEMMA BatchShape ==
    ASSUME NEW c \in Configs, NEW b \in Batch(c)
    PROVE  /\ b.usable \in SUBSET Nat /\ b.usable \subseteq Rows(c)
           /\ IsFiniteSet(b.usable)
           /\ Cardinality(b.usable) \in 0..Generated(c)
<1>1. b.usable \subseteq Rows(c)
  BY DEF Batch
<1>2. Generated(c) \in Nat /\ Generated(c) > 0
  BY ConfigShape DEF Positive
<1>3. IsFiniteSet(Rows(c)) /\ Cardinality(Rows(c)) = Generated(c)
  BY <1>2, FS_Interval DEF Rows
<1>4. IsFiniteSet(b.usable) /\ Cardinality(b.usable) <= Generated(c)
  BY <1>1, <1>3, FS_Subset
<1>5. Cardinality(b.usable) \in Nat
  BY <1>4, FS_CardinalityType
<1>6. b.usable \in SUBSET Nat
  BY <1>1 DEF Rows
<1> QED BY <1>1, <1>2, <1>4, <1>5, <1>6

LEMMA RetainedShape ==
    ASSUME NEW c \in Configs, NEW b \in Batch(c)
    PROVE  /\ Retained(c, b) \in 0..Cardinality(b.usable)
           /\ Retained(c, b) \in 0..Generated(c)
           /\ Cardinality(b.usable) - Retained(c, b) < c.critics * Alignment(c)
           /\ LocalCount(c, b) \in Nat
           /\ Retained(c, b) = LocalCount(c, b) * c.critics
           /\ AlignDown(LocalCount(c, b), Alignment(c)) = LocalCount(c, b)
           /\ Retained(c, b) > 0 => LocalCount(c, b) > 0
<1>1. Cardinality(b.usable) \in 0..Generated(c) /\ Generated(c) \in Nat
  BY BatchShape, ConfigShape DEF Positive
<1>2. Cardinality(b.usable) \in Nat
  BY <1>1
<1>3. c.critics \in Positive /\ Alignment(c) \in Positive
  BY ConfigShape
<1>4. c.critics * Alignment(c) \in Positive
  BY <1>3, PositiveProduct
<1>5. /\ Retained(c, b) \in 0..Cardinality(b.usable)
      /\ Cardinality(b.usable) - Retained(c, b) < c.critics * Alignment(c)
  BY <1>2, <1>4, AlignDownType DEF Retained
<1>6. /\ LocalCount(c, b) \in Nat
      /\ Retained(c, b) = LocalCount(c, b) * c.critics
      /\ AlignDown(LocalCount(c, b), Alignment(c)) = LocalCount(c, b)
      /\ Retained(c, b) > 0 => LocalCount(c, b) > 0
  BY <1>2, <1>3, AlignedShare DEF Retained, LocalCount
<1>7. Retained(c, b) \in 0..Generated(c)
  BY <1>1, <1>5
<1> QED BY <1>5, <1>6, <1>7

(* The rows that all critic ranks together keep *)
Kept(c, b) == First(Retained(c, b), b.usable)

LEMMA KeptShape ==
    ASSUME NEW c \in Configs, NEW b \in Batch(c)
    PROVE  /\ Kept(c, b) \in SUBSET Nat /\ Kept(c, b) \subseteq b.usable
           /\ IsFiniteSet(Kept(c, b))
           /\ Cardinality(Kept(c, b)) = Retained(c, b)
<1>1. b.usable \in SUBSET Nat /\ IsFiniteSet(b.usable)
  BY BatchShape
<1>2. Retained(c, b) \in 0..Cardinality(b.usable)
  BY RetainedShape
<1>3. IsFiniteSet(Kept(c, b)) /\ Cardinality(Kept(c, b)) = Retained(c, b)
  BY <1>1, <1>2, FirstCount DEF Kept
<1>4. Kept(c, b) \subseteq b.usable
  BY DEF Kept, First
<1> QED BY <1>1, <1>3, <1>4

(* Each critic rank gets the same number of them, no two the same row. *)
LEMMA LocalShape ==
    ASSUME NEW c \in Configs, NEW b \in Batch(c), NEW k \in Critics(c)
    PROVE  /\ Local(c, b, k) \in SUBSET Nat /\ Local(c, b, k) \subseteq b.usable
           /\ IsFiniteSet(Local(c, b, k))
           /\ Cardinality(Local(c, b, k)) = LocalCount(c, b)
           /\ First(LocalCount(c, b), Local(c, b, k)) = Local(c, b, k)
<1> DEFINE S == Kept(c, b)
<1>1. S \in SUBSET Nat /\ S \subseteq b.usable /\ IsFiniteSet(S)
  BY KeptShape
<1>2. Cardinality(S) = LocalCount(c, b) * c.critics /\ LocalCount(c, b) \in Nat
  BY KeptShape, RetainedShape
<1>3. c.critics \in Positive /\ k \in 0..(c.critics - 1)
  BY ConfigShape DEF Critics
<1>4. Local(c, b, k) = Dealt(S, k, c.critics)
  BY DEF Local, Kept
<1> HIDE DEF S
<1>5. IsFiniteSet(Local(c, b, k)) /\ Cardinality(Local(c, b, k)) = LocalCount(c, b)
  BY <1>1, <1>2, <1>3, <1>4, DealtCount
<1>6. Local(c, b, k) \in SUBSET Nat /\ Local(c, b, k) \subseteq b.usable
  BY <1>1, <1>4 DEF Dealt
<1>7. First(LocalCount(c, b), Local(c, b, k)) = Local(c, b, k)
  BY <1>5, <1>6, FirstOfAll
<1> QED BY <1>5, <1>6, <1>7

LEMMA LocalTogether ==
    ASSUME NEW c \in Configs, NEW b \in Batch(c)
    PROVE  /\ UNION {Local(c, b, k) : k \in Critics(c)} = Kept(c, b)
           /\ \A j, k \in Critics(c) : j # k => Local(c, b, j) \cap Local(c, b, k) = {}
<1>1. \A k : Local(c, b, k) = Dealt(Kept(c, b), k, c.critics)
  BY DEF Local, Kept
<1>2. Kept(c, b) \in SUBSET Nat /\ IsFiniteSet(Kept(c, b)) /\ c.critics \in Positive
  BY KeptShape, ConfigShape
<1>3. UNION {Dealt(Kept(c, b), k, c.critics) : k \in 0..(c.critics - 1)} = Kept(c, b)
  BY <1>2, DealtToAll
<1> QED BY <1>1, <1>3, DealtApart DEF Critics

-----------------------------------------------------------------------------
(* Steps of a team of ranks *)

LEMMA GoesShape ==
    ASSUME NEW D, NEW team \in [D -> Rank], NEW r \in D, NEW where \in States,
           NEW rows \in SUBSET Nat, NEW new, new = Goes(team, r, where, rows)
    PROVE  /\ new \in [D -> Rank]
           /\ new[r].at = where /\ new[r].rows = rows /\ new[r].got = team[r].got
           /\ \A s \in D : s # r => new[s] = team[s]
<1>1. team[r] \in Rank
  OBVIOUS
<1>2. [at |-> where, rows |-> rows, got |-> team[r].got] \in Rank
  BY <1>1 DEF Rank
<1> QED BY <1>2 DEF Goes

LEMMA RaisesShape ==
    ASSUME NEW D, NEW team \in [D -> Rank], NEW r \in D, NEW new, new = Raises(team, r)
    PROVE  /\ new \in [D -> Rank]
           /\ new[r].at = "failed" /\ new[r].rows = team[r].rows /\ new[r].got = team[r].got
           /\ \A s \in D : s # r => new[s] = team[s]
<1>1. team[r].rows \in SUBSET Nat /\ "failed" \in States
  BY team[r] \in Rank DEF Rank, States
<1> QED BY <1>1, GoesShape DEF Raises

LEMMA MovedShape ==
    ASSUME NEW D, NEW team \in [D -> Rank], NEW where \in States, NEW n \in Nat,
           NEW new, new = Moved(team, where, n)
    PROVE  /\ new \in [D -> Rank]
           /\ \A r \in D : new[r].at = where /\ new[r].rows = team[r].rows /\ new[r].got = n
<1>1. DOMAIN team = D
  OBVIOUS
<1>2. ASSUME NEW r \in D
      PROVE  [at |-> where, rows |-> team[r].rows, got |-> n] \in Rank
  <2>1. team[r] \in Rank
    OBVIOUS
  <2> QED BY <2>1 DEF Rank
<1> QED BY <1>1, <1>2 DEF Moved

LEMMA MinShape ==
    ASSUME NEW S \in SUBSET Nat, IsFiniteSet(S), S # {}
    PROVE  Min(S) \in S /\ \A y \in S : Min(S) =< y
<1>1. Cardinality(S) \in Nat /\ Cardinality(S) # 0
  BY FS_CardinalityType, FS_EmptySet
<1>2. PICK x \in S : Position(x, S) = 0
  BY <1>1, PositionIsOnto
<1>3. IsFiniteSet({y \in S : y < x})
  BY FS_Subset
<1>4. {y \in S : y < x} = {}
  BY <1>2, <1>3, FS_EmptySet DEF Position
<1>5. \A y \in S : ~(y < x)
  BY <1>4
<1>6. \A y \in S : x =< y
  BY <1>5
<1> QED BY <1>6 DEF Min

(* The sizes of the sets f[0] .. f[n - 1].                                  *)
LEMMA SizesShape ==
    ASSUME NEW n \in Positive, NEW f, \A r \in 0..(n - 1) : IsFiniteSet(f[r])
    PROVE  LET S == {Cardinality(f[r]) : r \in 0..(n - 1)}
           IN  S \in SUBSET Nat /\ IsFiniteSet(S) /\ S # {}
<1> DEFINE D == 0..(n - 1)
           g == [r \in D |-> Cardinality(f[r])]
           S == {Cardinality(f[r]) : r \in D}
<1>1. IsFiniteSet(D) /\ 0 \in D
  BY FS_Interval DEF Positive
<1>2. \A r \in D : Cardinality(f[r]) \in Nat
  BY FS_CardinalityType
<1>3. S \in SUBSET Nat /\ S # {}
  BY <1>1, <1>2
<1>4. g \in Surjection(D, S)
  BY DEF Surjection
<1> HIDE DEF g, D
<1>5. IsFiniteSet(S)
  BY <1>1, <1>4, FS_Surjection
<1> QED BY <1>3, <1>5 DEF D

(* The minimum of a collective is the count of one of its ranks. *)
LEMMA LeastShape ==
    ASSUME NEW n \in Positive, NEW team \in [0..(n - 1) -> Rank],
           \A r \in 0..(n - 1) : IsFiniteSet(team[r].rows)
    PROVE  /\ Least(team) \in Nat
           /\ \E r \in 0..(n - 1) : Least(team) = Cardinality(team[r].rows)
<1> DEFINE D == 0..(n - 1)
           f == [r \in D |-> team[r].rows]
           S == {Cardinality(f[r]) : r \in D}
<1>1. \A r \in D : f[r] = team[r].rows /\ IsFiniteSet(f[r])
  OBVIOUS
<1>2. Least(team) = Min(S)
  <2>1. DOMAIN team = D
    OBVIOUS
  <2>2. {Cardinality(team[r].rows) : r \in D} = S
    BY <1>1
  <2> QED BY <2>1, <2>2 DEF Least
<1> HIDE DEF f
<1>3. S \in SUBSET Nat /\ IsFiniteSet(S) /\ S # {}
  BY <1>1, SizesShape
<1>4. \A x \in S : \E r \in D : x = Cardinality(f[r])
  OBVIOUS
<1> HIDE DEF S
<1>5. Min(S) \in S
  BY <1>3, MinShape
<1> QED BY <1>1, <1>2, <1>3, <1>4, <1>5

-----------------------------------------------------------------------------
(* Typing *)

(* Sets of rows are finite, or their sizes would not be numbers. *)
Typed ==
    /\ TypeOK
    /\ \A a \in Actors(config) : IsFiniteSet(batch.shards[a])
    /\ \A a \in Actors(config) : IsFiniteSet(actor[a].rows)
    /\ \A k \in Critics(config) : IsFiniteSet(critic[k].rows)

LEMMA StateNames ==
    /\ {"ready", "shard", "check", "compare", "swap", "reduce", "reduced", "train",
        "done", "failed"} = States
    /\ Collectives = {"check", "reduce", "train"}
BY DEF States, Collectives

LEMMA FirstIsSubset ==
    ASSUME NEW n, NEW S \in SUBSET Nat, IsFiniteSet(S)
    PROVE  First(n, S) \in SUBSET Nat /\ IsFiniteSet(First(n, S))
<1>1. First(n, S) \in SUBSET S
  BY DEF First
<1> QED BY <1>1, FS_Subset

LEMMA AtShape ==
    ASSUME NEW where \in States
    PROVE  At(where) \in Rank /\ At(where).rows = {} /\ At(where).at = where
           /\ At(where).got = 0
BY DEF At, Rank

LEMMA TypedInit == Init => Typed
<1> SUFFICES ASSUME Init PROVE Typed
  OBVIOUS
<1> USE DEF Init
<1>1. config \in Configs /\ Generated(config) \in Nat
  BY ConfigShape DEF Positive
<1>2. 0 \in Count /\ NoReport \in [usable : Count, retained : Count, post : Count]
  BY <1>1 DEF Count, NoReport
<1>3. rollout \in 0..MaxRollouts
  BY BoundAssumption
<1>4. batch \in Batch(config)
  BY DEF Batch
<1>5. IsFiniteSet({}) /\ "done" \in States
  BY FS_EmptySet, StateNames
<1>6. /\ actor \in [Actors(config) -> Rank] /\ critic \in [Critics(config) -> Rank]
      /\ \A a \in Actors(config) : actor[a].rows = {}
      /\ \A k \in Critics(config) : critic[k].rows = {}
  BY <1>5, AtShape
<1>7. report \in [Critics(config) -> [usable : Count, retained : Count, post : Count]]
  BY <1>2
<1> QED BY <1>1, <1>3, <1>4, <1>5, <1>6, <1>7 DEF Typed, TypeOK

LEMMA TypedNext == Typed /\ [Next]_vars => Typed'
<1> SUFFICES ASSUME Typed, [Next]_vars PROVE Typed'
  OBVIOUS
<1> DEFINE c == config
           RT == [usable : Count, retained : Count, post : Count]
<1>1. /\ config \in Configs /\ rollout \in 0..MaxRollouts /\ batch \in Batch(config)
      /\ actor \in [Actors(config) -> Rank] /\ critic \in [Critics(config) -> Rank]
      /\ report \in [Critics(config) -> RT]
      /\ \A a \in Actors(config) : IsFiniteSet(batch.shards[a])
      /\ \A a \in Actors(config) : IsFiniteSet(actor[a].rows)
      /\ \A k \in Critics(config) : IsFiniteSet(critic[k].rows)
  BY DEF Typed, TypeOK
<1>2. config' = config
  BY DEF Next, Actor, Critic, vars, Hand, ActorEnter, ActorReduce, ActorTruncate, ActorStep,
         CriticBalance, CriticAdmit, CriticForward, CriticCompare, CriticSwap, CriticReduce,
         CriticTruncate, CriticTimeout, CriticStep
<1>3. /\ config.actors \in Positive /\ config.critics \in Positive
      /\ config.micro \in Positive /\ Alignment(config) \in Positive
  BY <1>1, ConfigShape
<1>t. actor \in [Actors(config) -> Rank] /\ critic \in [Critics(config) -> Rank]
  BY <1>1
(* What a step of the actor ranks, of the critic ranks and of the report    *)
(* has to give.                                                             *)
<1>a. ASSUME /\ actor' \in [Actors(config) -> Rank]
             /\ \A a \in Actors(config) : IsFiniteSet(actor'[a].rows),
             UNCHANGED <<rollout, batch, critic, report>>
      PROVE  Typed'
  BY <1>1, <1>2, <1>a DEF Typed, TypeOK, Count
<1>c. ASSUME /\ critic' \in [Critics(config) -> Rank]
             /\ \A k \in Critics(config) : IsFiniteSet(critic'[k].rows),
             report' \in [Critics(config) -> RT],
             UNCHANGED <<rollout, batch, actor>>
      PROVE  Typed'
  BY <1>1, <1>2, <1>c DEF Typed, TypeOK, Count
<1>r. ASSUME NEW k \in Critics(config)
      PROVE  critic[k] \in Rank /\ critic[k].rows \in SUBSET Nat /\ IsFiniteSet(critic[k].rows)
  BY <1>1 DEF Rank
<1>g. ASSUME NEW k \in Critics(config), NEW where \in States, NEW rows \in SUBSET Nat,
             IsFiniteSet(rows), critic' = Goes(critic, k, where, rows),
             report' \in [Critics(config) -> RT], UNCHANGED <<rollout, batch, actor>>
      PROVE  Typed'
  <2>1. /\ critic' \in [Critics(config) -> Rank]
        /\ critic'[k].rows = rows
        /\ \A s \in Critics(config) : s # k => critic'[s] = critic[s]
    BY <1>t, <1>g, GoesShape
  <2> QED BY <1>1, <1>c, <1>g, <2>1
<1>f. ASSUME NEW k \in Critics(config), critic' = Raises(critic, k),
             UNCHANGED <<rollout, batch, actor, report>>
      PROVE  Typed'
  <2>1. critic' = Goes(critic, k, "failed", critic[k].rows)
    BY <1>f DEF Raises
  <2> QED BY <1>1, <1>f, <1>g, <1>r, <2>1, StateNames
<1>m. ASSUME NEW where \in States, NEW n \in Nat, critic' = Moved(critic, where, n),
             UNCHANGED <<rollout, batch, actor, report>>
      PROVE  Typed'
  <2>1. /\ critic' \in [Critics(config) -> Rank]
        /\ \A k \in Critics(config) : critic'[k].rows = critic[k].rows
    BY <1>t, <1>m, MovedShape
  <2> QED BY <1>1, <1>c, <1>m, <2>1
<1>n. ASSUME NEW where \in States, NEW n \in Nat, actor' = Moved(actor, where, n),
             UNCHANGED <<rollout, batch, critic, report>>
      PROVE  Typed'
  <2>1. /\ actor' \in [Actors(config) -> Rank]
        /\ \A a \in Actors(config) : actor'[a].rows = actor[a].rows
    BY <1>t, <1>n, MovedShape
  <2> QED BY <1>1, <1>a, <1>n, <2>1
<1>4. CASE Hand
  <2>1. batch' \in Batches(config) /\ rollout' = rollout + 1 /\ rollout < MaxRollouts
    BY <1>4 DEF Hand
  <2>2. batch' \in Batch(config) /\ \A a \in Actors(config) : IsFiniteSet(batch'.shards[a])
    BY <1>1, <2>1, BatchAssumption, ShardAssumption
  <2>3. rollout' \in 0..MaxRollouts
    BY <1>1, <2>1, BoundAssumption
  <2>4. /\ actor' \in [Actors(config) -> Rank] /\ critic' \in [Critics(config) -> Rank]
        /\ \A a \in Actors(config) : actor'[a].rows = {}
        /\ \A k \in Critics(config) : critic'[k].rows = {}
    BY <1>4, AtShape, StateNames DEF Hand
  <2>5. report' = report /\ IsFiniteSet({})
    BY <1>4, FS_EmptySet DEF Hand
  <2> QED BY <1>1, <1>2, <2>2, <2>3, <2>4, <2>5 DEF Typed, TypeOK, Count
<1>5. ASSUME NEW a \in Actors(config), Actor(a) PROVE Typed'
  <2>0. actor[a] \in Rank /\ actor[a].rows \in SUBSET Nat /\ IsFiniteSet(actor[a].rows)
    BY <1>1 DEF Rank
  <2>1. ASSUME NEW where \in States, NEW rows \in SUBSET Nat, IsFiniteSet(rows),
               actor' = Goes(actor, a, where, rows), UNCHANGED <<rollout, batch, critic, report>>
        PROVE  Typed'
    <3>1. /\ actor' \in [Actors(config) -> Rank]
          /\ actor'[a].rows = rows
          /\ \A s \in Actors(config) : s # a => actor'[s] = actor[s]
      BY <1>t, <2>1, GoesShape
    <3> QED BY <1>1, <1>a, <2>1, <3>1
  <2>2. CASE ActorEnter(a)
    <3>1. batch.shards[a] \in SUBSET Nat /\ IsFiniteSet(batch.shards[a])
      BY <1>1 DEF Batch
    <3> QED BY <2>1, <2>2, <3>1, StateNames DEF ActorEnter
  <2>3. CASE ActorTruncate(a)
    <3> DEFINE n == Aligned(actor[a], config.micro)
    <3>1. First(n, actor[a].rows) \in SUBSET Nat /\ IsFiniteSet(First(n, actor[a].rows))
      BY <2>0, FirstIsSubset
    <3>2. /\ \/ actor' = Goes(actor, a, "train", First(n, actor[a].rows))
             \/ actor' = Goes(actor, a, "failed", actor[a].rows)
          /\ UNCHANGED <<rollout, batch, critic, report>>
      BY <2>3 DEF ActorTruncate, Raises
    <3> QED BY <2>0, <2>1, <3>1, <3>2, StateNames
  <2> QED BY <1>5, <2>2, <2>3 DEF Actor
<1>6. CASE ActorReduce
  <2>1. Least(actor) \in Nat
    BY <1>1, <1>3, LeastShape DEF Actors
  <2> QED BY <1>n, <1>6, <2>1, StateNames DEF ActorReduce
<1>7. CASE ActorStep
  BY <1>n, <1>7, StateNames DEF ActorStep
<1>8. ASSUME NEW k \in Critics(config), Critic(k) PROVE Typed'
  <2>1. CASE CriticBalance(k)
    <3>1. /\ \/ critic' = Goes(critic, k, "shard", Local(config, batch, k))
             \/ critic' = Raises(critic, k)
          /\ UNCHANGED <<rollout, batch, actor, report>>
      BY <2>1 DEF CriticBalance
    <3>2. Local(config, batch, k) \in SUBSET Nat /\ IsFiniteSet(Local(config, batch, k))
      BY <1>1, LocalShape
    <3> QED BY <1>1, <1>f, <1>g, <3>1, <3>2, StateNames
  <2>2. CASE CriticAdmit(k)
    <3> DEFINE where == IF Checks(k) THEN "check" ELSE "swap"
    <3>1. CASE TooFew(config, batch)
      BY <1>f, <2>2, <3>1 DEF CriticAdmit
    <3>2. CASE ~TooFew(config, batch)
      <4>1. /\ critic' = Goes(critic, k, where, critic[k].rows)
            /\ report' = [report EXCEPT ![k] = Report(config, batch)]
            /\ UNCHANGED <<rollout, batch, actor>>
        BY <2>2, <3>2 DEF CriticAdmit, Recorded
      <4>2. Report(config, batch) \in RT
        BY <1>1, BatchShape, RetainedShape, ConfigShape DEF Report, Count, Positive
      <4>3. report' \in [Critics(config) -> RT]
        BY <1>1, <4>1, <4>2
      <4>4. where \in States
        BY StateNames
      <4> QED BY <1>g, <1>r, <4>1, <4>3, <4>4
    <3> QED BY <3>1, <3>2
  <2>3. CASE CriticCompare(k)
    BY <1>1, <1>f, <1>g, <1>r, <2>3, StateNames DEF CriticCompare
  <2>4. CASE CriticSwap(k)
    <3> DEFINE kept == critic[k].rows \cap batch.usable
    <3>1. kept \in SUBSET Nat /\ IsFiniteSet(kept)
      BY <1>r, FS_Intersection
    <3>2. /\ critic' = Goes(critic, k, "reduce", kept) \/ critic' = Raises(critic, k)
          /\ UNCHANGED <<rollout, batch, actor, report>>
      BY <2>4 DEF CriticSwap
    <3> QED BY <1>1, <1>f, <1>g, <3>1, <3>2, StateNames
  <2>5. CASE CriticTruncate(k)
    <3> DEFINE n == Aligned(critic[k], Alignment(config))
               post == n * config.critics
               where == IF config.frozen THEN "done" ELSE "train"
    <3>1. CASE ~(n > 0 /\ post = report[k].retained)
      BY <1>f, <2>5, <3>1 DEF CriticTruncate
    <3>2. CASE n > 0 /\ post = report[k].retained
      <4>1. /\ critic' = Goes(critic, k, where, First(n, critic[k].rows))
            /\ report' = [report EXCEPT ![k].post = post]
            /\ UNCHANGED <<rollout, batch, actor>>
        BY <2>5, <3>2 DEF CriticTruncate
      <4>2. post \in Count
        BY <1>1, <3>2
      <4>3. report' \in [Critics(config) -> RT]
        BY <1>1, <4>1, <4>2
      <4>4. where \in States
        BY StateNames
      <4>5. First(n, critic[k].rows) \in SUBSET Nat /\ IsFiniteSet(First(n, critic[k].rows))
        BY <1>r, FirstIsSubset
      <4> QED BY <1>g, <4>1, <4>3, <4>4, <4>5
    <3> QED BY <3>1, <3>2
  <2>6. CASE CriticTimeout(k)
    BY <1>f, <2>6 DEF CriticTimeout
  <2> QED BY <1>8, <2>1, <2>2, <2>3, <2>4, <2>5, <2>6 DEF Critic
<1>9. CASE CriticForward
  BY <1>m, <1>9, StateNames DEF CriticForward
<1>10. CASE CriticReduce
  <2>1. Least(critic) \in Nat
    BY <1>1, <1>3, LeastShape DEF Critics
  <2> QED BY <1>m, <1>10, <2>1, StateNames DEF CriticReduce
<1>11. CASE CriticStep
  BY <1>m, <1>11, StateNames DEF CriticStep
<1>12. CASE UNCHANGED vars
  BY <1>1, <1>12 DEF vars, Typed, TypeOK, Count
<1> QED BY <1>4, <1>5, <1>6, <1>7, <1>8, <1>9, <1>10, <1>11, <1>12 DEF Next

(* The state keeps its types, whatever the topology and the rollouts. *)
THEOREM TypesAreKept == Spec => []TypeOK
<1>1. Typed => TypeOK
  BY DEF Typed
<1> QED BY <1>1, TypedInit, TypedNext, PTL DEF Spec

-----------------------------------------------------------------------------
(* The actor ranks *)

(* Past the reduction every rank is past it, with the same minimum; so the  *)
(* same decision follows on every rank.                                     *)
ActorPast == {"reduced", "train", "failed"}

ActorInv ==
    /\ \A a \in Actors(config) : actor[a].at \in {"ready", "reduce", "done"} \cup ActorPast
    /\ \A a1, a2 \in Actors(config) : actor[a1].at \in ActorPast =>
            actor[a2].at \in ActorPast /\ actor[a2].got = actor[a1].got
    /\ \A a \in Actors(config) :
            /\ actor[a].at = "train" => Aligned(actor[a], config.micro) > 0
            /\ actor[a].at = "failed" => ~(Aligned(actor[a], config.micro) > 0)

LEMMA ActorInvInit == Init => ActorInv
<1> SUFFICES ASSUME Init PROVE ActorInv
  OBVIOUS
<1>1. "done" \in States
  BY StateNames
<1>2. \A a \in Actors(config) : actor[a].at = "done"
  BY <1>1, AtShape DEF Init
<1> QED BY <1>2 DEF ActorInv, ActorPast

LEMMA ActorInvNext == Typed /\ ActorInv /\ [Next]_vars => ActorInv'
<1> SUFFICES ASSUME Typed, ActorInv, [Next]_vars PROVE ActorInv'
  OBVIOUS
<1>1. actor \in [Actors(config) -> Rank] /\ config \in Configs
  BY DEF Typed, TypeOK
<1>2. config' = config
  BY DEF Next, Actor, Critic, vars, Hand, ActorEnter, ActorReduce, ActorTruncate, ActorStep,
         CriticBalance, CriticAdmit, CriticForward, CriticCompare, CriticSwap, CriticReduce,
         CriticTruncate, CriticTimeout, CriticStep
(* All ranks at once, to one place.                                         *)
<1>a. ASSUME NEW where \in {"ready", "done", "reduced"}, NEW n,
             \A a \in Actors(config) : actor'[a].at = where /\ actor'[a].got = n
      PROVE  ActorInv'
  BY <1>2, <1>a DEF ActorInv, ActorPast
<1>3. CASE Hand
  <2>1. "ready" \in States
    BY StateNames
  <2>2. \A a \in Actors(config) : actor'[a].at = "ready" /\ actor'[a].got = 0
    BY <1>3, <2>1, AtShape DEF Hand
  <2> QED BY <1>a, <2>2
<1>4. ASSUME NEW a \in Actors(config), ActorEnter(a) PROVE ActorInv'
  <2>1. batch.shards[a] \in SUBSET Nat
    BY DEF Typed, TypeOK, Batch
  <2>2. /\ actor[a].at = "ready"
        /\ actor' = Goes(actor, a, "reduce", batch.shards[a])
    BY <1>4 DEF ActorEnter
  <2>3. /\ actor'[a].at = "reduce"
        /\ \A s \in Actors(config) : s # a => actor'[s] = actor[s]
    BY <1>1, <2>1, <2>2, GoesShape, StateNames
  <2>4. \A s \in Actors(config) : actor[s].at \notin ActorPast
    BY <2>2 DEF ActorInv, ActorPast
  <2> QED BY <1>2, <2>3, <2>4 DEF ActorInv, ActorPast
<1>5. CASE ActorReduce
  <2>1. Least(actor) \in Nat
    BY <1>1, ConfigShape, LeastShape DEF Actors, Typed
  <2>2. "reduced" \in States
    BY StateNames
  <2>3. actor' = Moved(actor, "reduced", Least(actor))
    BY <1>5 DEF ActorReduce
  <2>4. \A a \in Actors(config) : actor'[a].at = "reduced" /\ actor'[a].got = Least(actor)
    BY <1>1, <2>1, <2>2, <2>3, MovedShape
  <2> QED BY <1>a, <2>4
<1>6. ASSUME NEW a \in Actors(config), ActorTruncate(a) PROVE ActorInv'
  <2> DEFINE n == Aligned(actor[a], config.micro)
             where == IF n > 0 THEN "train" ELSE "failed"
             rows == IF n > 0 THEN First(n, actor[a].rows) ELSE actor[a].rows
  <2>1. actor[a].rows \in SUBSET Nat /\ IsFiniteSet(actor[a].rows)
    BY <1>1 DEF Typed, Rank
  <2>2. rows \in SUBSET Nat
    BY <2>1, FirstIsSubset
  <2>3. where \in States
    BY StateNames
  <2>4. actor[a].at = "reduced" /\ actor' = Goes(actor, a, where, rows)
    BY <1>6 DEF ActorTruncate, Raises
  <2> HIDE DEF rows
  <2>5. /\ actor'[a].at = where /\ actor'[a].got = actor[a].got
        /\ \A s \in Actors(config) : s # a => actor'[s] = actor[s]
    BY <1>1, <2>2, <2>3, <2>4, GoesShape
  <2>6. Aligned(actor'[a], config.micro) = n
    BY <2>5 DEF Aligned, AlignDown
  <2>7. \A s \in Actors(config) : actor'[s].got = actor[s].got
    BY <2>5
  <2>8. \A s \in Actors(config) : actor[s].at \in ActorPast
    BY <2>4 DEF ActorInv, ActorPast
  <2>9. \A s \in Actors(config) : actor'[s].at \in ActorPast
    BY <2>5, <2>8 DEF ActorPast
  <2>10. \A r, s \in Actors(config) : actor'[s].got = actor'[r].got
    BY <2>7, <2>8 DEF ActorInv
  <2>11. \A s \in Actors(config) :
            /\ actor'[s].at = "train" => Aligned(actor'[s], config.micro) > 0
            /\ actor'[s].at = "failed" => ~(Aligned(actor'[s], config.micro) > 0)
    BY <2>5, <2>6 DEF ActorInv
  <2> QED BY <1>2, <2>9, <2>10, <2>11 DEF ActorInv
<1>7. CASE ActorStep
  <2>1. "done" \in States
    BY StateNames
  <2>2. actor' = Moved(actor, "done", 0)
    BY <1>7 DEF ActorStep
  <2>3. \A a \in Actors(config) : actor'[a].at = "done" /\ actor'[a].got = 0
    BY <1>1, <2>1, <2>2, MovedShape
  <2> QED BY <1>a, <2>3
<1>8. ASSUME actor' = actor PROVE ActorInv'
  BY <1>2, <1>8 DEF ActorInv, Aligned
<1>9. CASE (\E k \in Critics(config) : Critic(k)) \/ CriticForward \/ CriticReduce \/ CriticStep
           \/ UNCHANGED vars
  <2>1. actor' = actor
    BY <1>9 DEF Critic, vars, CriticBalance, CriticAdmit, CriticForward, CriticCompare,
               CriticSwap, CriticReduce, CriticTruncate, CriticTimeout, CriticStep
  <2> QED BY <1>8, <2>1
<1> QED BY <1>3, <1>4, <1>5, <1>6, <1>7, <1>9 DEF Next, Actor

LEMMA ActorsTogether == Typed /\ ActorInv => ~Stranded(actor)
<1> SUFFICES ASSUME Typed, ActorInv, NEW r \in Actors(config), NEW s \in Actors(config),
                    actor[r].at \in Collectives, actor[s].at = "failed"
             PROVE  FALSE
  BY DEF Stranded, Typed, TypeOK
<1>1. actor[r].at \in ActorPast /\ actor[r].got = actor[s].got
  BY DEF ActorInv, ActorPast
<1>2. actor[r].at = "train"
  BY <1>1, StateNames DEF ActorPast
<1>3. Aligned(actor[r], config.micro) = Aligned(actor[s], config.micro)
  BY <1>1 DEF Aligned
<1> QED BY <1>2, <1>3 DEF ActorInv

-----------------------------------------------------------------------------
(* The critic ranks *)

Admits(c, b) == Covered(c, b) /\ Retained(c, b) > 0 /\ ~TooFew(c, b)
CheckRuns(c, b, n) == n = 1 /\ c.check /\ LocalCount(c, b) >= CheckLeast

(* What is true of critic rank k, with rank state r and report p, in        *)
(* rollout n: a rank that has not raised holds its own part of the batch    *)
(* and has decided everything from what all ranks know; a rank that raised  *)
(* did so for the batch, which all ranks see, or in the step-0 check.       *)
Fine(c, b, n, k, r, p) ==
    /\ n = 0 => r.at = "done"
    /\ n > 0 /\ r.at \notin {"ready", "failed"} =>
         /\ Covered(c, b) /\ Retained(c, b) > 0 /\ r.rows = Local(c, b, k)
         /\ r.at # "shard" => /\ ~TooFew(c, b)
                              /\ p.usable = Cardinality(b.usable)
                              /\ p.retained = Retained(c, b)
         /\ r.at \in {"train", "done"} => p.post = Retained(c, b)
         /\ r.at = "reduced" => r.got = LocalCount(c, b)
         /\ r.at \in {"check", "compare"} => CheckRuns(c, b, n)
    /\ r.at = "failed" /\ Admits(c, b) => CheckRuns(c, b, n) /\ b.off # {}

(* Before the assertions of the step-0 check, and after its forwards.       *)
Early == {"ready", "shard", "check"}
Late(k) == critic[k].at = "compare" \/ (critic[k].at = "failed" /\ Admits(config, batch))

CriticInv ==
    /\ \A k \in Critics(config) : Fine(config, batch, rollout, k, critic[k], report[k])
    /\ \A j, k \in Critics(config) : Late(j) => critic[k].at \notin Early

LEMMA CriticInvInit == Init => CriticInv
<1> SUFFICES ASSUME Init PROVE CriticInv
  OBVIOUS
<1>1. "done" \in States
  BY StateNames
<1>2. \A k \in Critics(config) : critic[k].at = "done"
  BY <1>1, AtShape DEF Init
<1>3. rollout = 0
  BY DEF Init
<1> QED BY <1>2, <1>3 DEF CriticInv, Fine, Late

(* A step of one critic rank. *)
LEMMA OneCritic ==
    ASSUME CriticInv, NEW k \in Critics(config),
           \A s \in Critics(config) : s # k => critic'[s] = critic[s] /\ report'[s] = report[s],
           UNCHANGED <<config, rollout, batch>>,
           Fine(config, batch, rollout, k, critic'[k], report'[k]),
           critic'[k].at \in Early => critic[k].at \in Early,
           Late(k)' => Late(k)
    PROVE  CriticInv'
<1>1. ASSUME NEW s \in Critics(config)
      PROVE  Fine(config, batch, rollout, s, critic'[s], report'[s])
  <2>1. Fine(config, batch, rollout, s, critic[s], report[s])
    BY DEF CriticInv
  <2> QED BY <2>1
<1>2. \A s \in Critics(config) : Late(s)' => Late(s)
  BY DEF Late
<1>3. \A s \in Critics(config) : critic'[s].at \in Early => critic[s].at \in Early
  OBVIOUS
<1>4. \A r, s \in Critics(config) : Late(r)' => critic'[s].at \notin Early
  BY <1>2, <1>3 DEF CriticInv
<1> QED BY <1>1, <1>4 DEF CriticInv

(* A step of all critic ranks, from one place to another. *)
LEMMA AllCritics ==
    ASSUME CriticInv, NEW where, where # "failed",
           UNCHANGED <<config, rollout, batch>>,
           \A k \in Critics(config) :
               critic'[k].at = where
               /\ Fine(config, batch, rollout, k, critic'[k], report'[k])
    PROVE  CriticInv'
BY DEF CriticInv, Late, Early

LEMMA CriticInvNext == Typed /\ CriticInv /\ [Next]_vars => CriticInv'
<1> SUFFICES ASSUME Typed, CriticInv, [Next]_vars PROVE CriticInv'
  OBVIOUS
<1> DEFINE c == config
           b == batch
           n == rollout
<1>1. /\ critic \in [Critics(config) -> Rank] /\ config \in Configs /\ batch \in Batch(config)
      /\ rollout \in Nat
      /\ report \in [Critics(config) -> [usable : Count, retained : Count, post : Count]]
  BY DEF Typed, TypeOK
<1>2. config' = config
  BY DEF Next, Actor, Critic, vars, Hand, ActorEnter, ActorReduce, ActorTruncate, ActorStep,
         CriticBalance, CriticAdmit, CriticForward, CriticCompare, CriticSwap, CriticReduce,
         CriticTruncate, CriticTimeout, CriticStep
<1>f. \A k \in Critics(config) : Fine(c, b, n, k, critic[k], report[k])
  BY DEF CriticInv
<1>r. \A k \in Critics(config) : critic[k].rows \in SUBSET Nat /\ IsFiniteSet(critic[k].rows)
  BY <1>1 DEF Typed, Rank
(* Shapes and sizes of the parts.                                           *)
<1>p. /\ LocalCount(c, b) \in Nat /\ Retained(c, b) = LocalCount(c, b) * c.critics
      /\ AlignDown(LocalCount(c, b), Alignment(c)) = LocalCount(c, b)
      /\ Retained(c, b) > 0 => LocalCount(c, b) > 0
      /\ \A k \in Critics(config) :
           /\ Local(c, b, k) \in SUBSET Nat /\ Local(c, b, k) \subseteq b.usable
           /\ Cardinality(Local(c, b, k)) = LocalCount(c, b)
           /\ First(LocalCount(c, b), Local(c, b, k)) = Local(c, b, k)
  BY <1>1, RetainedShape, LocalShape
<1>g. ASSUME NEW k \in Critics(config), NEW where \in States, NEW rows \in SUBSET Nat,
             critic' = Goes(critic, k, where, rows)
      PROVE  /\ critic'[k].at = where /\ critic'[k].rows = rows /\ critic'[k].got = critic[k].got
             /\ \A s \in Critics(config) : s # k => critic'[s] = critic[s]
  BY <1>1, <1>g, GoesShape
<1>x. ASSUME NEW k \in Critics(config), critic' = Raises(critic, k)
      PROVE  /\ critic'[k].at = "failed"
             /\ \A s \in Critics(config) : s # k => critic'[s] = critic[s]
  BY <1>1, <1>x, RaisesShape
<1>m. ASSUME NEW where \in States, NEW m \in Nat, critic' = Moved(critic, where, m)
      PROVE  \A k \in Critics(config) :
                critic'[k].at = where /\ critic'[k].rows = critic[k].rows /\ critic'[k].got = m
  <2>1. critic \in [Critics(config) -> Rank]
    BY <1>1
  <2> QED BY <1>m, <2>1, MovedShape
<1>3. CASE Hand
  <2>1. rollout' # 0
    BY <1>1, <1>3 DEF Hand
  <2>2. \A k \in Critics(config) : critic'[k].at = "ready"
    BY <1>3, StateNames, AtShape DEF Hand
  <2>3. \A k \in Critics(config) : Fine(config, batch', rollout', k, critic'[k], report'[k])
    BY <2>1, <2>2 DEF Fine
  <2> QED BY <1>2, <2>2, <2>3 DEF CriticInv, Late
<1>4. ASSUME NEW k \in Critics(config), CriticBalance(k) PROVE CriticInv'
  <2>1. critic[k].at = "ready" /\ UNCHANGED <<config, rollout, batch, report>>
    BY <1>4 DEF CriticBalance
  <2>2. n # 0
    BY <1>f, <2>1 DEF Fine
  <2>3. CASE Covered(c, b) /\ Retained(c, b) > 0
    <3>1. critic' = Goes(critic, k, "shard", Local(c, b, k))
      BY <1>4, <2>3 DEF CriticBalance
    <3>2. /\ critic'[k].at = "shard" /\ critic'[k].rows = Local(c, b, k)
          /\ \A s \in Critics(config) : s # k => critic'[s] = critic[s]
      BY <1>g, <1>p, <3>1, StateNames
    <3>3. Fine(c, b, n, k, critic'[k], report'[k])
      BY <2>2, <2>3, <3>2 DEF Fine
    <3> QED BY <2>1, <3>2, <3>3, OneCritic DEF Early, Late
  <2>4. CASE ~(Covered(c, b) /\ Retained(c, b) > 0)
    <3>1. critic' = Raises(critic, k)
      BY <1>4, <2>4 DEF CriticBalance
    <3>2. /\ critic'[k].at = "failed" /\ ~Admits(c, b)
          /\ \A s \in Critics(config) : s # k => critic'[s] = critic[s]
      BY <1>x, <2>4, <3>1 DEF Admits
    <3>3. Fine(c, b, n, k, critic'[k], report'[k])
      BY <2>2, <3>2 DEF Fine
    <3> QED BY <2>1, <3>2, <3>3, OneCritic DEF Early, Late
  <2> QED BY <2>3, <2>4
<1>5. ASSUME NEW k \in Critics(config), CriticAdmit(k) PROVE CriticInv'
  <2>1. critic[k].at = "shard" /\ UNCHANGED <<config, rollout, batch>>
    BY <1>5 DEF CriticAdmit
  <2>2. n # 0 /\ n > 0
    BY <1>1, <1>f, <2>1 DEF Fine
  <2>3. Covered(c, b) /\ Retained(c, b) > 0 /\ critic[k].rows = Local(c, b, k)
    BY <1>f, <2>1, <2>2 DEF Fine
  <2>4. CASE TooFew(c, b)
    <3>1. critic' = Raises(critic, k) /\ report' = report
      BY <1>5, <2>4 DEF CriticAdmit
    <3>2. /\ critic'[k].at = "failed" /\ ~Admits(c, b)
          /\ \A s \in Critics(config) : s # k => critic'[s] = critic[s]
      BY <1>x, <2>4, <3>1 DEF Admits
    <3>3. Fine(c, b, n, k, critic'[k], report'[k])
      BY <2>2, <3>2 DEF Fine
    <3> QED BY <2>1, <3>1, <3>2, <3>3, OneCritic DEF Early, Late
  <2>5. CASE ~TooFew(c, b)
    <3> DEFINE where == IF Checks(k) THEN "check" ELSE "swap"
    <3>1. /\ critic' = Goes(critic, k, where, critic[k].rows)
          /\ report' = [report EXCEPT ![k] = Report(c, b)]
      BY <1>5, <2>5 DEF CriticAdmit, Recorded
    <3>2. where \in States
      BY StateNames
    <3>3. /\ critic'[k].at = where /\ critic'[k].rows = Local(c, b, k)
          /\ \A s \in Critics(config) : s # k => critic'[s] = critic[s]
      BY <1>g, <1>r, <2>3, <3>1, <3>2
    <3>4. /\ report'[k].usable = Cardinality(b.usable) /\ report'[k].retained = Retained(c, b)
          /\ \A s \in Critics(config) : s # k => report'[s] = report[s]
      BY <1>1, <3>1 DEF Report
    <3>5. Checks(k) => CheckRuns(c, b, n)
      BY <1>p, <2>3 DEF Checks, CheckRuns
    <3>6. Fine(c, b, n, k, critic'[k], report'[k])
      BY <2>2, <2>3, <2>5, <3>3, <3>4, <3>5 DEF Fine
    <3> QED BY <2>1, <3>3, <3>4, <3>6, OneCritic DEF Early, Late
  <2> QED BY <2>4, <2>5
<1>6. CASE CriticForward
  <2>1. critic' = Moved(critic, "compare", 0) /\ UNCHANGED <<config, rollout, batch, report>>
    BY <1>6 DEF CriticForward
  <2>2. \A k \in Critics(config) : critic'[k].at = "compare" /\ critic'[k].rows = critic[k].rows
    BY <1>m, <2>1, StateNames
  <2>3. \A k \in Critics(config) : critic[k].at = "check"
    BY <1>1, <1>6 DEF CriticForward, Arrived
  <2>4. ASSUME NEW k \in Critics(config)
        PROVE  Fine(c, b, n, k, critic'[k], report'[k])
    BY <1>f, <2>1, <2>2, <2>3 DEF Fine
  <2> QED BY <2>1, <2>2, <2>4, AllCritics
<1>7. ASSUME NEW k \in Critics(config), CriticCompare(k) PROVE CriticInv'
  <2>1. critic[k].at = "compare" /\ UNCHANGED <<config, rollout, batch, report>>
    BY <1>7 DEF CriticCompare
  <2>2. n # 0 /\ n > 0 /\ CheckRuns(c, b, n)
    BY <1>1, <1>f, <2>1 DEF Fine
  <2>3. CASE Diverges(k)
    <3>1. critic' = Raises(critic, k) /\ b.off # {}
      BY <1>7, <2>3 DEF CriticCompare, Diverges
    <3>2. /\ critic'[k].at = "failed"
          /\ \A s \in Critics(config) : s # k => critic'[s] = critic[s]
      BY <1>x, <3>1
    <3>3. Fine(c, b, n, k, critic'[k], report'[k])
      BY <2>2, <3>1, <3>2 DEF Fine
    <3> QED BY <2>1, <3>2, <3>3, OneCritic DEF Early, Late
  <2>4. CASE ~Diverges(k)
    <3>1. critic' = Goes(critic, k, "swap", critic[k].rows)
      BY <1>7, <2>4 DEF CriticCompare
    <3>2. /\ critic'[k].at = "swap" /\ critic'[k].rows = critic[k].rows
          /\ \A s \in Critics(config) : s # k => critic'[s] = critic[s]
      BY <1>g, <1>r, <3>1, StateNames
    <3>3. Fine(c, b, n, k, critic'[k], report'[k])
      BY <1>f, <2>1, <2>2, <3>2 DEF Fine
    <3> QED BY <2>1, <3>2, <3>3, OneCritic DEF Early, Late
  <2> QED BY <2>3, <2>4
<1>8. ASSUME NEW k \in Critics(config), CriticSwap(k) PROVE CriticInv'
  <2>1. critic[k].at = "swap" /\ UNCHANGED <<config, rollout, batch, report>>
    BY <1>8 DEF CriticSwap
  <2>2. n # 0 /\ n > 0 /\ critic[k].rows = Local(c, b, k)
    BY <1>1, <1>f, <2>1 DEF Fine
  <2>3. critic[k].rows \cap b.usable = critic[k].rows
    BY <1>p, <2>2
  <2>4. critic' = Goes(critic, k, "reduce", critic[k].rows)
    BY <1>8, <1>p, <2>2, <2>3 DEF CriticSwap
  <2>5. /\ critic'[k].at = "reduce" /\ critic'[k].rows = critic[k].rows
        /\ \A s \in Critics(config) : s # k => critic'[s] = critic[s]
    BY <1>g, <1>r, <2>4, StateNames
  <2>6. Fine(c, b, n, k, critic'[k], report'[k])
    BY <1>f, <2>1, <2>2, <2>5 DEF Fine
  <2> QED BY <2>1, <2>5, <2>6, OneCritic DEF Early, Late
<1>9. CASE CriticReduce
  <2> DEFINE least == Least(critic)
  <2>1. critic' = Moved(critic, "reduced", least) /\ UNCHANGED <<config, rollout, batch, report>>
    BY <1>9 DEF CriticReduce
  <2>2. /\ least \in Nat
        /\ \E k \in Critics(config) : least = Cardinality(critic[k].rows)
    BY <1>1, <1>r, ConfigShape, LeastShape DEF Critics
  <2>3. \A k \in Critics(config) : critic[k].at = "reduce"
    BY <1>1, <1>9 DEF CriticReduce, Arrived
  <2>4. \A k \in Critics(config) : n > 0 /\ n # 0 /\ critic[k].rows = Local(c, b, k)
    BY <1>1, <1>f, <2>3 DEF Fine
  <2>5. least = LocalCount(c, b)
    BY <1>p, <2>2, <2>4
  <2> HIDE DEF least
  <2>6. \A k \in Critics(config) :
            critic'[k].at = "reduced" /\ critic'[k].rows = critic[k].rows /\ critic'[k].got = least
    BY <1>m, <2>1, <2>2, StateNames
  <2>7. ASSUME NEW k \in Critics(config)
        PROVE  Fine(c, b, n, k, critic'[k], report'[k])
    BY <1>f, <2>1, <2>3, <2>4, <2>5, <2>6 DEF Fine
  <2> QED BY <2>1, <2>6, <2>7, AllCritics
<1>10. ASSUME NEW k \in Critics(config), CriticTruncate(k) PROVE CriticInv'
  <2> DEFINE m == LocalCount(c, b)
             where == IF config.frozen THEN "done" ELSE "train"
  <2>1. critic[k].at = "reduced" /\ UNCHANGED <<config, rollout, batch>>
    BY <1>10 DEF CriticTruncate
  <2>2. /\ n # 0 /\ n > 0 /\ critic[k].rows = Local(c, b, k) /\ critic[k].got = m
        /\ Retained(c, b) > 0 /\ report[k].retained = Retained(c, b)
    BY <1>1, <1>f, <2>1 DEF Fine
  <2>3. Aligned(critic[k], Alignment(config)) = m /\ m > 0 /\ m * config.critics = Retained(c, b)
        /\ First(m, critic[k].rows) = critic[k].rows
    <3>1. m > 0 /\ m * config.critics = Retained(c, b)
      BY <1>p, <2>2
    <3>2. Aligned(critic[k], Alignment(config)) = AlignDown(critic[k].got, Alignment(config))
      BY DEF Aligned
    <3> QED BY <1>p, <2>2, <3>1, <3>2
  <2>4. /\ critic' = Goes(critic, k, where, critic[k].rows)
        /\ report' = [report EXCEPT ![k].post = Retained(c, b)]
    BY <1>10, <2>2, <2>3 DEF CriticTruncate
  <2>5. where \in States
    BY StateNames
  <2>6. /\ critic'[k].at = where /\ critic'[k].rows = critic[k].rows
        /\ \A s \in Critics(config) : s # k => critic'[s] = critic[s]
    BY <1>g, <1>r, <2>4, <2>5
  <2>7. /\ report'[k].usable = report[k].usable /\ report'[k].retained = report[k].retained
        /\ report'[k].post = Retained(c, b)
        /\ \A s \in Critics(config) : s # k => report'[s] = report[s]
    BY <1>1, <2>4
  <2>8. Fine(c, b, n, k, critic'[k], report'[k])
    BY <1>f, <2>1, <2>2, <2>6, <2>7 DEF Fine
  <2> QED BY <2>1, <2>6, <2>7, <2>8, OneCritic DEF Early, Late
<1>11. CASE CriticStep
  <2>1. critic' = Moved(critic, "done", 0) /\ UNCHANGED <<config, rollout, batch, report>>
    BY <1>11 DEF CriticStep
  <2>2. \A k \in Critics(config) : critic'[k].at = "done" /\ critic'[k].rows = critic[k].rows
    BY <1>m, <2>1, StateNames
  <2>3. \A k \in Critics(config) : critic[k].at = "train"
    BY <1>1, <1>11 DEF CriticStep, Arrived
  <2>4. ASSUME NEW k \in Critics(config)
        PROVE  Fine(c, b, n, k, critic'[k], report'[k])
    BY <1>f, <2>1, <2>2, <2>3 DEF Fine
  <2> QED BY <2>1, <2>2, <2>4, AllCritics
<1>12. CASE (\E a \in Actors(config) : Actor(a)) \/ ActorReduce \/ ActorStep \/ UNCHANGED vars
  <2>1. UNCHANGED <<rollout, batch, critic, report>>
    BY <1>12 DEF Actor, vars, ActorEnter, ActorReduce, ActorTruncate, ActorStep
  <2> QED BY <1>2, <2>1 DEF CriticInv, Late
<1>13. ASSUME NEW k \in Critics(config), CriticTimeout(k) PROVE CriticInv'
  <2>1. /\ critic' = Raises(critic, k) /\ UNCHANGED <<config, rollout, batch, report>>
        /\ critic[k].at \in Collectives
    BY <1>13 DEF CriticTimeout
  <2>2. PICK s \in Critics(config) : critic[s].at = "failed"
    BY <1>1, <1>13 DEF CriticTimeout, Stranded
  <2>3. critic[k].at \in {"check", "reduce", "train"}
    BY <2>1, StateNames
  <2>4. n # 0 /\ n > 0 /\ Admits(c, b)
    BY <1>1, <1>f, <2>3 DEF Fine, Admits
  <2>5. CheckRuns(c, b, n) /\ b.off # {} /\ Late(s)
    BY <1>f, <2>2, <2>4 DEF Fine, Late
  <2>6. /\ critic'[k].at = "failed" /\ \A j \in Critics(config) : j # k => critic'[j] = critic[j]
    BY <1>x, <2>1
  <2>7. Fine(c, b, n, k, critic'[k], report'[k])
    BY <2>4, <2>5, <2>6 DEF Fine
  <2>8. \A j \in Critics(config) : Fine(c, b, n, j, critic'[j], report'[j])
    BY <1>f, <2>1, <2>6, <2>7
  <2>9. \A j \in Critics(config) : critic'[j].at \notin Early
    BY <2>5, <2>6 DEF CriticInv, Early
  <2> QED BY <2>1, <2>8, <2>9 DEF CriticInv
<1> QED BY <1>3, <1>4, <1>5, <1>6, <1>7, <1>8, <1>9, <1>10, <1>11, <1>12, <1>13 DEF Next, Critic

(* A rank that holds its part of the batch.                                 *)
LEMMA HoldsPart ==
    ASSUME Typed, CriticInv, NEW k \in Critics(config), Holds(k)
    PROVE  critic[k].rows = Local(config, batch, k)
<1>1. Fine(config, batch, rollout, k, critic[k], report[k]) /\ rollout \in Nat
  BY DEF CriticInv, Typed, TypeOK
<1>2. critic[k].at \notin {"ready", "failed"}
  BY StateNames DEF Holds
<1>3. rollout > 0
  <2>1. CASE rollout # 0
    BY <1>1, <2>1
  <2>2. CASE rollout = 0
    <3>1. critic[k].at = "done"
      BY <1>1, <2>2 DEF Fine
    <3> QED BY <3>1, StateNames DEF Holds
  <2> QED BY <2>1, <2>2
<1> QED BY <1>1, <1>2, <1>3 DEF Fine

(* The shards that critic ranks compute each for itself fit together.       *)
THEOREM CriticShardsAgree == Spec => []ShardsAgree
<1>1. Typed /\ CriticInv => ShardsAgree
  <2> SUFFICES ASSUME Typed, CriticInv PROVE ShardsAgree
    OBVIOUS
  <2>1. config \in Configs /\ batch \in Batch(config)
    BY DEF Typed, TypeOK
  <2>2. \A k \in Critics(config) : Holds(k) => critic[k].rows = Local(config, batch, k)
    BY HoldsPart
  <2>3. \A k \in Critics(config) :
            /\ Local(config, batch, k) \subseteq batch.usable
            /\ Cardinality(Local(config, batch, k)) = LocalCount(config, batch)
    BY <2>1, LocalShape
  <2>4. \A j, k \in Critics(config) :
            j # k => Local(config, batch, j) \cap Local(config, batch, k) = {}
    BY <2>1, LocalTogether
  <2>5. ASSUME \A k \in Critics(config) : Holds(k)
        PROVE  Cardinality(batch.usable \ UNION {critic[k].rows : k \in Critics(config)})
                   < config.critics * Alignment(config)
    <3>1. UNION {critic[k].rows : k \in Critics(config)} = Kept(config, batch)
      BY <2>1, <2>2, <2>5, LocalTogether
    <3>2. /\ IsFiniteSet(batch.usable) /\ IsFiniteSet(Kept(config, batch))
          /\ Kept(config, batch) \subseteq batch.usable
          /\ Cardinality(Kept(config, batch)) = Retained(config, batch)
      BY <2>1, BatchShape, KeptShape
    <3>3. batch.usable \cap Kept(config, batch) = Kept(config, batch)
      BY <3>2
    <3>4. Cardinality(batch.usable \ Kept(config, batch))
              = Cardinality(batch.usable) - Retained(config, batch)
      BY <3>2, <3>3, FS_Difference
    <3>5. Cardinality(batch.usable) - Retained(config, batch) < config.critics * Alignment(config)
      BY <2>1, RetainedShape
    <3> QED BY <3>1, <3>4, <3>5
  <2> QED BY <2>2, <2>3, <2>4, <2>5 DEF ShardsAgree
<1> QED BY <1>1, TypedInit, TypedNext, CriticInvInit, CriticInvNext, PTL DEF Spec

(* When the critic trains, every rank reports what all of them train on.    *)
THEOREM ReportsAreTrue == Spec => []ReportIsTrue
<1>1. Typed /\ CriticInv => ReportIsTrue
  <2> SUFFICES ASSUME Typed, CriticInv, Trains(critic), NEW k \in Critics(config)
               PROVE  /\ report[k].usable = Cardinality(batch.usable)
                      /\ report[k].retained = Cardinality(Trained(critic))
                      /\ report[k].post = report[k].retained
                      /\ 100 * report[k].post >= config.retain * report[k].usable
    BY DEF ReportIsTrue
  <2>1. config \in Configs /\ batch \in Batch(config) /\ DOMAIN critic = Critics(config)
    BY DEF Typed, TypeOK
  <2>2. rollout > 0 /\ \A r \in Critics(config) : critic[r].at \in {"train", "done"}
    BY <2>1 DEF Trains
  <2>3. \A r \in Critics(config) : critic[r].rows = Local(config, batch, r)
    BY <2>2, HoldsPart, StateNames DEF Holds
  <2>4. Trained(critic) = Kept(config, batch)
    BY <2>1, <2>3, LocalTogether DEF Trained
  <2>5. Cardinality(Trained(critic)) = Retained(config, batch)
    BY <2>1, <2>4, KeptShape
  <2>6. /\ report[k].usable = Cardinality(batch.usable)
        /\ report[k].retained = Retained(config, batch)
        /\ report[k].post = Retained(config, batch)
        /\ ~TooFew(config, batch)
    BY <2>2 DEF CriticInv, Fine
  <2>7. /\ Retained(config, batch) \in Nat /\ Cardinality(batch.usable) \in Nat
        /\ config.retain \in Nat
    BY <2>1, RetainedShape, BatchShape, ConfigShape DEF Positive
  <2>8. 100 * Retained(config, batch) >= config.retain * Cardinality(batch.usable)
    <3> DEFINE x == 100 * Retained(config, batch)
               y == config.retain * Cardinality(batch.usable)
    <3>1. x \in Nat /\ y \in Nat
      BY <2>7
    <3>2. ~(x < y)
      BY <2>6 DEF TooFew
    <3> HIDE DEF x, y
    <3>3. x >= y
      BY <3>1, <3>2
    <3> QED BY <3>3 DEF x, y
  <2> QED BY <2>5, <2>6, <2>8
<1> QED BY <1>1, TypedInit, TypedNext, CriticInvInit, CriticInvNext, PTL DEF Spec

-----------------------------------------------------------------------------
(* What one rank refuses *)

(* The reduction lets all critic ranks through or none, and once a rank     *)
(* raised over a batch that all admit, one of them has diverged.            *)
Past == {"reduced", "train", "done"}

ShareInv ==
    /\ \/ \A k \in Critics(config) : critic[k].at \in Past
       \/ \A k \in Critics(config) : critic[k].at \notin Past
    /\ \A j \in Critics(config) : critic[j].at = "failed" /\ Admits(config, batch) =>
            \E k \in Critics(config) : Parts(k)

LEMMA ShareInvInit == Init => ShareInv
<1> SUFFICES ASSUME Init PROVE ShareInv
  OBVIOUS
<1>1. \A k \in Critics(config) : critic[k].at = "done"
  BY StateNames, AtShape DEF Init
<1> QED BY <1>1 DEF ShareInv, Past

(* A step of one rank, on its side of the reduction. *)
LEMMA OneShares ==
    ASSUME ShareInv, NEW k \in Critics(config), UNCHANGED <<config, rollout, batch>>,
           \A s \in Critics(config) : s # k => critic'[s] = critic[s],
           critic[k].at # "failed",
           critic'[k].at \in Past <=> critic[k].at \in Past,
           critic'[k].at = "failed" /\ Admits(config, batch) =>
               \/ Parts(k)'
               \/ \E s \in Critics(config) : critic[s].at = "failed"
    PROVE  ShareInv'
<1>1. ASSUME NEW s \in Critics(config), Parts(s) PROVE Parts(s)'
  <2>1. s # k
    BY <1>1 DEF Parts
  <2> QED BY <1>1, <2>1 DEF Parts, Diverges
<1>2. ASSUME NEW s \in Critics(config), critic[s].at = "failed", Admits(config, batch)
      PROVE  \E r \in Critics(config) : Parts(r)'
  BY <1>1, <1>2 DEF ShareInv
<1>3. Critics(config)' = Critics(config) /\ Admits(config, batch)' = Admits(config, batch)
  OBVIOUS
<1>4. ASSUME NEW j \in Critics(config), critic'[j].at = "failed", Admits(config, batch)
      PROVE  \E r \in Critics(config) : Parts(r)'
  BY <1>2, <1>4
<1>5. \/ \A j \in Critics(config) : critic'[j].at \in Past
      \/ \A j \in Critics(config) : critic'[j].at \notin Past
  BY DEF ShareInv
<1> QED BY <1>3, <1>4, <1>5 DEF ShareInv

(* A step of all ranks, from one place to another. *)
LEMMA AllShare ==
    ASSUME NEW where, where # "failed", config' = config,
           \A k \in Critics(config) : critic'[k].at = where
    PROVE  ShareInv'
BY DEF ShareInv

LEMMA ShareInvNext == Typed /\ CriticInv /\ ShareInv /\ [Next]_vars => ShareInv'
<1> SUFFICES ASSUME Typed, CriticInv, ShareInv, [Next]_vars PROVE ShareInv'
  OBVIOUS
<1>1. /\ critic \in [Critics(config) -> Rank] /\ config \in Configs /\ batch \in Batch(config)
      /\ rollout \in Nat
      /\ report \in [Critics(config) -> [usable : Count, retained : Count, post : Count]]
  BY DEF Typed, TypeOK
<1>2. config' = config
  BY DEF Next, Actor, Critic, vars, Hand, ActorEnter, ActorReduce, ActorTruncate, ActorStep,
         CriticBalance, CriticAdmit, CriticForward, CriticCompare, CriticSwap, CriticReduce,
         CriticTruncate, CriticTimeout, CriticStep
<1>f. \A k \in Critics(config) : Fine(config, batch, rollout, k, critic[k], report[k])
  BY DEF CriticInv
<1>r. \A k \in Critics(config) : critic[k].rows \in SUBSET Nat /\ IsFiniteSet(critic[k].rows)
  BY <1>1 DEF Typed, Rank
<1>g. ASSUME NEW k \in Critics(config), NEW where \in States \ {"failed"}, NEW rows \in SUBSET Nat,
             critic' = Goes(critic, k, where, rows), UNCHANGED <<rollout, batch>>,
             critic[k].at # "failed", where \in Past <=> critic[k].at \in Past
      PROVE  ShareInv'
  <2>1. /\ critic'[k].at = where
        /\ \A s \in Critics(config) : s # k => critic'[s] = critic[s]
    BY <1>1, <1>g, GoesShape
  <2> QED BY <1>2, <1>g, <2>1, OneShares
<1>x. ASSUME NEW k \in Critics(config), critic' = Raises(critic, k), UNCHANGED <<rollout, batch>>,
             critic[k].at \notin Past \cup {"failed"},
             \/ ~Admits(config, batch)
             \/ \E s \in Critics(config) : critic[s].at = "failed"
             \/ rollout = 1 /\ config.check /\ Diverges(k)
      PROVE  ShareInv'
  <2>1. /\ critic'[k].at = "failed" /\ critic'[k].rows = critic[k].rows
        /\ \A s \in Critics(config) : s # k => critic'[s] = critic[s]
    BY <1>1, <1>x, RaisesShape
  <2>2. rollout = 1 /\ config.check /\ Diverges(k) => Parts(k)'
    BY <1>2, <1>x, <2>1 DEF Parts, Diverges
  <2>3. critic'[k].at \in Past <=> critic[k].at \in Past
    BY <1>x, <2>1 DEF Past
  <2> QED BY <1>2, <1>x, <2>1, <2>2, <2>3, OneShares
<1>m. ASSUME NEW where \in States \ {"failed"}, NEW m \in Nat, critic' = Moved(critic, where, m)
      PROVE  ShareInv'
  <2>1. \A k \in Critics(config) : critic'[k].at = where
    BY <1>1, <1>m, MovedShape
  <2> QED BY <1>2, <1>m, <2>1, AllShare
<1>3. CASE Hand
  <2>1. \A k \in Critics(config) : critic'[k].at = "ready"
    BY <1>3, StateNames, AtShape DEF Hand
  <2> QED BY <1>2, <2>1, AllShare
<1>4. ASSUME NEW k \in Critics(config), CriticBalance(k) PROVE ShareInv'
  <2>1. critic[k].at = "ready" /\ UNCHANGED <<rollout, batch>>
    BY <1>4 DEF CriticBalance
  <2>2. CASE Covered(config, batch) /\ Retained(config, batch) > 0
    <3>1. critic' = Goes(critic, k, "shard", Local(config, batch, k))
      BY <1>4, <2>2 DEF CriticBalance
    <3>2. Local(config, batch, k) \in SUBSET Nat
      BY <1>1, LocalShape
    <3> QED BY <1>g, <2>1, <3>1, <3>2, StateNames DEF Past
  <2>3. CASE ~(Covered(config, batch) /\ Retained(config, batch) > 0)
    <3>1. critic' = Raises(critic, k) /\ ~Admits(config, batch)
      BY <1>4, <2>3 DEF CriticBalance, Admits
    <3> QED BY <1>x, <2>1, <3>1 DEF Past
  <2> QED BY <2>2, <2>3
<1>5. ASSUME NEW k \in Critics(config), CriticAdmit(k) PROVE ShareInv'
  <2>1. critic[k].at = "shard" /\ UNCHANGED <<rollout, batch>>
    BY <1>5 DEF CriticAdmit
  <2>2. CASE TooFew(config, batch)
    <3>1. critic' = Raises(critic, k) /\ ~Admits(config, batch)
      BY <1>5, <2>2 DEF CriticAdmit, Admits
    <3> QED BY <1>x, <2>1, <3>1 DEF Past
  <2>3. CASE ~TooFew(config, batch)
    <3>1. critic' = Goes(critic, k, IF Checks(k) THEN "check" ELSE "swap", critic[k].rows)
      BY <1>5, <2>3 DEF CriticAdmit
    <3> QED BY <1>g, <1>r, <2>1, <3>1, StateNames DEF Past
  <2> QED BY <2>2, <2>3
<1>6. ASSUME NEW k \in Critics(config), CriticCompare(k) PROVE ShareInv'
  <2>1. critic[k].at = "compare" /\ UNCHANGED <<rollout, batch>>
    BY <1>6 DEF CriticCompare
  <2>2. rollout = 1 /\ config.check
    BY <1>1, <1>f, <2>1 DEF Fine, CheckRuns
  <2>3. CASE Diverges(k)
    <3>1. critic' = Raises(critic, k)
      BY <1>6, <2>3 DEF CriticCompare
    <3> QED BY <1>x, <2>1, <2>2, <2>3, <3>1 DEF Past
  <2>4. CASE ~Diverges(k)
    <3>1. critic' = Goes(critic, k, "swap", critic[k].rows)
      BY <1>6, <2>4 DEF CriticCompare
    <3> QED BY <1>g, <1>r, <2>1, <3>1, StateNames DEF Past
  <2> QED BY <2>3, <2>4
<1>7. ASSUME NEW k \in Critics(config), CriticSwap(k) PROVE ShareInv'
  <2>1. critic[k].at = "swap" /\ UNCHANGED <<rollout, batch>>
    BY <1>7 DEF CriticSwap
  <2>2. rollout > 0 /\ critic[k].rows = Local(config, batch, k)
    BY <1>1, <1>f, <2>1 DEF Fine
  <2>3. critic[k].rows \cap batch.usable = critic[k].rows
        /\ Cardinality(critic[k].rows) = LocalCount(config, batch)
    BY <1>1, <2>2, LocalShape
  <2>4. critic' = Goes(critic, k, "reduce", critic[k].rows)
    BY <1>7, <2>3 DEF CriticSwap
  <2> QED BY <1>g, <1>r, <2>1, <2>4, StateNames DEF Past
<1>8. ASSUME NEW k \in Critics(config), CriticTruncate(k) PROVE ShareInv'
  <2> DEFINE m == LocalCount(config, batch)
             where == IF config.frozen THEN "done" ELSE "train"
  <2>1. critic[k].at = "reduced" /\ UNCHANGED <<rollout, batch>>
    BY <1>8 DEF CriticTruncate
  <2>2. /\ critic[k].got = m /\ Retained(config, batch) > 0
        /\ report[k].retained = Retained(config, batch)
    BY <1>1, <1>f, <2>1 DEF Fine
  <2>3. /\ m > 0 /\ m * config.critics = Retained(config, batch)
        /\ AlignDown(m, Alignment(config)) = m
    BY <1>1, <2>2, RetainedShape
  <2>4. critic' = Goes(critic, k, where, First(m, critic[k].rows))
    BY <1>8, <2>2, <2>3 DEF CriticTruncate, Aligned
  <2>5. First(m, critic[k].rows) \in SUBSET Nat /\ where \in States \ {"failed"}
    BY <1>r, FirstIsSubset, StateNames
  <2> QED BY <1>g, <2>1, <2>4, <2>5 DEF Past
<1>9. ASSUME NEW k \in Critics(config), CriticTimeout(k) PROVE ShareInv'
  <2>1. /\ critic[k].at \in {"check", "reduce", "train"} /\ critic' = Raises(critic, k)
        /\ UNCHANGED <<rollout, batch>>
        /\ \E s \in Critics(config) : critic[s].at = "failed"
    BY <1>1, <1>9, StateNames DEF CriticTimeout, Stranded
  <2>2. critic[k].at \notin Past
    BY <2>1 DEF ShareInv, Past
  <2> QED BY <1>x, <2>1, <2>2
<1>10. CASE CriticForward
  BY <1>m, <1>10, StateNames DEF CriticForward
<1>11. CASE CriticReduce
  <2>1. Least(critic) \in Nat
    BY <1>1, <1>r, ConfigShape, LeastShape DEF Critics
  <2> QED BY <1>m, <1>11, <2>1, StateNames DEF CriticReduce
<1>12. CASE CriticStep
  BY <1>m, <1>12, StateNames DEF CriticStep
<1>13. CASE (\E a \in Actors(config) : Actor(a)) \/ ActorReduce \/ ActorStep \/ UNCHANGED vars
  <2>1. UNCHANGED <<rollout, batch, critic>>
    BY <1>13 DEF Actor, vars, ActorEnter, ActorReduce, ActorTruncate, ActorStep
  <2> QED BY <1>2, <2>1 DEF ShareInv, Parts, Diverges
<1> QED BY <1>3, <1>4, <1>5, <1>6, <1>7, <1>8, <1>9, <1>10, <1>11, <1>12, <1>13
        DEF Next, Critic

(* A rollout that one rank refuses is trained on by no rank of its group,   *)
(* and nobody waits for a rank that has raised but at the reduction behind  *)
(* the step-0 check: for any ranks, and whatever rows diverge on whichever. *)
THEOREM RefusalsShared == Spec => []RefusalsAreShared
<1>1. Typed /\ ActorInv /\ CriticInv /\ ShareInv => RefusalsAreShared
  <2> SUFFICES ASSUME Typed, ActorInv, CriticInv, ShareInv PROVE RefusalsAreShared
    OBVIOUS
  <2>1. DOMAIN actor = Actors(config) /\ DOMAIN critic = Critics(config) /\ rollout \in Nat
    BY DEF Typed, TypeOK
  <2>2. ASSUME NEW r \in Actors(config), NEW s \in Actors(config), actor[r].at = "failed"
        PROVE  actor[s].at \notin {"train", "done"}
    <3>1. actor[s].at \in ActorPast /\ actor[s].got = actor[r].got
      BY <2>2 DEF ActorInv, ActorPast
    <3>2. Aligned(actor[s], config.micro) = Aligned(actor[r], config.micro)
      BY <3>1 DEF Aligned
    <3> QED BY <2>2, <3>1, <3>2 DEF ActorInv, ActorPast
  <2>3. ASSUME NEW r \in Critics(config), NEW s \in Critics(config), critic[r].at = "failed"
        PROVE  critic[s].at \notin {"train", "done"}
    BY <2>3 DEF ShareInv, Past
  <2>4. ASSUME NEW r \in Critics(config), NEW s \in Critics(config),
               critic[r].at \in Collectives, critic[s].at = "failed"
        PROVE  /\ \E k \in Critics(config) : Parts(k)
               /\ critic[r].at = "reduce"
    <3>1. critic[r].at \in {"check", "reduce"}
      BY <2>3, <2>4, StateNames
    <3>2. Admits(config, batch)
      BY <2>1, <3>1 DEF CriticInv, Fine, Admits
    <3>3. critic[r].at # "check"
      BY <2>4, <3>2 DEF CriticInv, Late, Early
    <3> QED BY <2>4, <3>1, <3>2, <3>3 DEF ShareInv
  <2>5. Stranded(critic) => \E r, s \in Critics(config) :
            critic[r].at \in Collectives /\ critic[s].at = "failed"
    BY <2>1 DEF Stranded
  <2> QED BY <2>1, <2>2, <2>3, <2>4, <2>5, ActorsTogether DEF RefusalsAreShared
<1>2. Init => Typed /\ ActorInv /\ CriticInv /\ ShareInv
  BY TypedInit, ActorInvInit, CriticInvInit, ShareInvInit
<1>3. Typed /\ ActorInv /\ CriticInv /\ ShareInv /\ [Next]_vars
          => (Typed /\ ActorInv /\ CriticInv /\ ShareInv)'
  BY TypedNext, ActorInvNext, CriticInvNext, ShareInvNext
<1> QED BY <1>1, <1>2, <1>3, PTL DEF Spec

-----------------------------------------------------------------------------
(* What the actor ranks train on *)

(* The smallest shard, which the reduction gives every rank.                *)
Common(c, b) == Min({Cardinality(b.shards[a]) : a \in Actors(c)})
Share(c, b) == AlignDown(Common(c, b), c.micro)

(* The plan was accepted, and each rank holds its shard or its first rows.  *)
ActorRows ==
    /\ ~Refused(config)
    /\ \A a \in Actors(config) : rollout > 0 =>
         /\ actor[a].at \in {"reduce", "reduced"} => actor[a].rows = batch.shards[a]
         /\ actor[a].at = "reduced" => actor[a].got = Common(config, batch)
         /\ actor[a].at \in {"train", "done"} =>
              actor[a].rows = First(Share(config, batch), batch.shards[a])

LEMMA ActorRowsInit == Init => ActorRows
BY DEF Init, ActorRows

LEMMA ActorRowsNext == Typed /\ ActorRows /\ [Next]_vars => ActorRows'
<1> SUFFICES ASSUME Typed, ActorRows, [Next]_vars PROVE ActorRows'
  OBVIOUS
<1>1. actor \in [Actors(config) -> Rank] /\ config \in Configs
  BY DEF Typed, TypeOK
<1>2. config' = config
  BY DEF Next, Actor, Critic, vars, Hand, ActorEnter, ActorReduce, ActorTruncate, ActorStep,
         CriticBalance, CriticAdmit, CriticForward, CriticCompare, CriticSwap, CriticReduce,
         CriticTruncate, CriticTimeout, CriticStep
<1>3. CASE Hand
  <2>1. \A a \in Actors(config) : actor'[a].at = "ready"
    BY <1>3, StateNames, AtShape DEF Hand
  <2> QED BY <1>2, <2>1 DEF ActorRows
<1>4. ASSUME NEW a \in Actors(config), ActorEnter(a) PROVE ActorRows'
  <2>1. batch.shards[a] \in SUBSET Nat
    BY DEF Typed, TypeOK, Batch
  <2>2. /\ actor' = Goes(actor, a, "reduce", batch.shards[a])
        /\ UNCHANGED <<rollout, batch>>
    BY <1>4 DEF ActorEnter
  <2>3. /\ actor'[a].at = "reduce" /\ actor'[a].rows = batch.shards[a]
        /\ \A s \in Actors(config) : s # a => actor'[s] = actor[s]
    BY <1>1, <2>1, <2>2, GoesShape, StateNames
  <2> QED BY <1>2, <2>2, <2>3 DEF ActorRows
<1>5. CASE ActorReduce
  <2>1. Least(actor) \in Nat
    BY <1>1, ConfigShape, LeastShape DEF Actors, Typed
  <2>0. "reduced" \in States /\ actor \in [Actors(config) -> Rank]
    BY <1>1, StateNames
  <2>2. actor' = Moved(actor, "reduced", Least(actor))
    BY <1>5 DEF ActorReduce
  <2>3. \A a \in Actors(config) : /\ actor'[a].at = "reduced" /\ actor'[a].got = Least(actor)
                                  /\ actor'[a].rows = actor[a].rows
    BY <2>0, <2>1, <2>2, MovedShape
  <2>4. \A a \in Actors(config) : actor[a].at = "reduce"
    BY <1>1, <1>5 DEF ActorReduce, Arrived
  <2>5. ASSUME rollout > 0
        PROVE  /\ \A a \in Actors(config) : actor[a].rows = batch.shards[a]
               /\ Least(actor) = Common(config, batch)
    <3>1. \A a \in Actors(config) : actor[a].rows = batch.shards[a]
      BY <2>4, <2>5 DEF ActorRows
    <3>2. {Cardinality(actor[r].rows) : r \in DOMAIN actor}
              = {Cardinality(batch.shards[r]) : r \in Actors(config)}
      BY <1>1, <3>1
    <3> QED BY <3>1, <3>2 DEF Least, Common
  <2> QED BY <1>2, <1>5, <2>3, <2>5 DEF ActorRows, ActorReduce
<1>6. ASSUME NEW a \in Actors(config), ActorTruncate(a) PROVE ActorRows'
  <2> DEFINE n == Aligned(actor[a], config.micro)
  <2>1. actor[a].rows \in SUBSET Nat /\ IsFiniteSet(actor[a].rows)
    BY <1>1 DEF Typed, Rank
  <2>2. actor[a].at = "reduced" /\ UNCHANGED <<rollout, batch>>
    BY <1>6 DEF ActorTruncate
  <2>3. CASE n > 0
    <3>1. actor' = Goes(actor, a, "train", First(n, actor[a].rows))
      BY <1>6, <2>3 DEF ActorTruncate
    <3>2. First(n, actor[a].rows) \in SUBSET Nat
      BY <2>1, FirstIsSubset
    <3>3. /\ actor'[a].at = "train" /\ actor'[a].rows = First(n, actor[a].rows)
          /\ \A s \in Actors(config) : s # a => actor'[s] = actor[s]
      BY <1>1, <3>1, <3>2, GoesShape, StateNames
    <3>4. rollout > 0 => n = Share(config, batch) /\ actor[a].rows = batch.shards[a]
      BY <2>2 DEF ActorRows, Aligned, Share
    <3> QED BY <1>2, <2>2, <3>3, <3>4 DEF ActorRows
  <2>4. CASE ~(n > 0)
    <3>1. actor' = Raises(actor, a)
      BY <1>6, <2>4 DEF ActorTruncate
    <3>2. /\ actor'[a].at = "failed"
          /\ \A s \in Actors(config) : s # a => actor'[s] = actor[s]
      BY <1>1, <3>1, RaisesShape
    <3> QED BY <1>2, <2>2, <3>2 DEF ActorRows
  <2> QED BY <2>3, <2>4
<1>7. CASE ActorStep
  <2>0. "done" \in States /\ actor \in [Actors(config) -> Rank]
    BY <1>1, StateNames
  <2>1. actor' = Moved(actor, "done", 0)
    BY <1>7 DEF ActorStep
  <2>2. \A a \in Actors(config) : actor'[a].at = "done" /\ actor'[a].rows = actor[a].rows
    BY <2>0, <2>1, MovedShape
  <2>3. \A a \in Actors(config) : actor[a].at = "train"
    BY <1>1, <1>7 DEF ActorStep, Arrived
  <2> QED BY <1>2, <1>7, <2>2, <2>3 DEF ActorRows, ActorStep
<1>8. CASE (\E k \in Critics(config) : Critic(k)) \/ CriticForward \/ CriticReduce \/ CriticStep
           \/ UNCHANGED vars
  <2>1. UNCHANGED <<actor, rollout, batch>>
    BY <1>8 DEF Critic, vars, CriticBalance, CriticAdmit, CriticForward, CriticCompare,
               CriticSwap, CriticReduce, CriticTruncate, CriticTimeout, CriticStep
  <2> QED BY <1>2, <2>1 DEF ActorRows
<1> QED BY <1>3, <1>4, <1>5, <1>6, <1>7, <1>8 DEF Next, Actor

-----------------------------------------------------------------------------
(* Disjoint shards *)


(* Position p of shard a has the number a * k + p, with k places per shard. *)
LEMMA PlaceIsUnique ==
    ASSUME NEW k \in Nat, NEW a \in Nat, NEW b \in Nat,
           NEW p \in 0..(k - 1), NEW q \in 0..(k - 1), a * k + p = b * k + q
    PROVE  a = b /\ p = q
<1>1. ASSUME NEW x \in Nat, NEW y \in Nat, NEW u \in 0..(k - 1), NEW w \in 0..(k - 1),
             x < y, x * k + u = y * k + w
      PROVE  FALSE
  <2>1. y * k >= (x + 1) * k
    BY <1>1
  <2>2. (x + 1) * k = x * k + k
    OBVIOUS
  <2> DEFINE xk == x * k
             yk == y * k
  <2>3. xk \in Nat /\ yk \in Nat /\ yk >= xk + k /\ xk + u = yk + w
    BY <1>1, <2>1, <2>2
  <2> HIDE DEF xk, yk
  <2> QED BY <2>3
<1>2. ~(a < b) /\ ~(b < a)
  BY <1>1
<1>3. a = b
  BY <1>2
<1> QED BY <1>3

LEMMA PlaceBound ==
    ASSUME NEW n \in Nat, NEW k \in Nat, NEW a \in 0..(n - 1), NEW p \in 0..(k - 1)
    PROVE  a * k + p \in 0..(n * k - 1)
<1>1. (a + 1) * k <= n * k /\ (a + 1) * k = a * k + k
  OBVIOUS
<1> DEFINE ak == a * k
           nk == n * k
<1>2. ak \in Nat /\ nk \in Nat /\ ak + k <= nk
  BY <1>1
<1> HIDE DEF ak, nk
<1>3. ak + p \in 0..(nk - 1)
  BY <1>2
<1> QED BY <1>3 DEF ak, nk

(* Apart: shards of at most k rows that share none.                         *)
Apart(n, shard, k) ==
    /\ \A a \in 0..(n - 1) : /\ shard[a] \in SUBSET Nat /\ IsFiniteSet(shard[a])
                             /\ Cardinality(shard[a]) <= k
    /\ \A a, b \in 0..(n - 1) : a # b => shard[a] \cap shard[b] = {}
All(n, shard) == UNION {shard[a] : a \in 0..(n - 1)}

LEMMA Numbered ==
    ASSUME NEW n \in Positive, NEW k \in Nat, NEW shard, Apart(n, shard, k)
    PROVE  \E f \in [All(n, shard) -> 0..(n * k - 1)] :
              /\ \A a \in 0..(n - 1) : \A i \in shard[a] : f[i] = a * k + Position(i, shard[a])
              /\ \A i, j \in All(n, shard) : f[i] = f[j] => i = j
<1> DEFINE D == 0..(n - 1)
           U == All(n, shard)
           own(i) == CHOOSE a \in D : i \in shard[a]
           f == [i \in U |-> own(i) * k + Position(i, shard[own(i)])]
<1>1. \A i \in U : own(i) \in D /\ i \in shard[own(i)]
  BY DEF All
<1>2. \A a \in D : \A i \in shard[a] : i \in U /\ own(i) = a
  <2> TAKE a \in D
  <2> TAKE i \in shard[a]
  <2>1. i \in U
    BY DEF All
  <2>2. own(i) \in D /\ i \in shard[own(i)]
    BY <1>1, <2>1
  <2> HIDE DEF own, U
  <2>3. own(i) = a
    BY <2>2 DEF Apart
  <2> QED BY <2>1, <2>3
<1>3. \A a \in D : \A i \in shard[a] : Position(i, shard[a]) \in 0..(k - 1)
  <2> TAKE a \in D
  <2> TAKE i \in shard[a]
  <2>1. shard[a] \in SUBSET Nat /\ IsFiniteSet(shard[a]) /\ Cardinality(shard[a]) <= k
    BY DEF Apart
  <2>2. Position(i, shard[a]) \in 0..(Cardinality(shard[a]) - 1) /\ Cardinality(shard[a]) \in Nat
    BY <2>1, PositionType, FS_CardinalityType
  <2> QED BY <2>1, <2>2
<1> HIDE DEF own, U
<1>4. \A i \in U : f[i] \in 0..(n * k - 1)
  <2> TAKE i \in U
  <2>1. own(i) \in 0..(n - 1) /\ Position(i, shard[own(i)]) \in 0..(k - 1) /\ n \in Nat
    BY <1>1, <1>3 DEF Positive
  <2>2. own(i) * k + Position(i, shard[own(i)]) \in 0..(n * k - 1)
    BY <2>1, PlaceBound
  <2> QED BY <2>2
<1>5. \A i, j \in U : f[i] = f[j] => i = j
  <2> SUFFICES ASSUME NEW i \in U, NEW j \in U, f[i] = f[j] PROVE i = j
    OBVIOUS
  <2>1. /\ own(i) \in D /\ own(j) \in D /\ i \in shard[own(i)] /\ j \in shard[own(j)]
        /\ Position(i, shard[own(i)]) \in 0..(k - 1) /\ Position(j, shard[own(j)]) \in 0..(k - 1)
    BY <1>1, <1>3
  <2>2. own(i) \in Nat /\ own(j) \in Nat
    BY <2>1
  <2> DEFINE x == own(i)
             y == own(j)
             u == Position(i, shard[x])
             w == Position(j, shard[y])
  <2>3. x \in Nat /\ y \in Nat /\ u \in 0..(k - 1) /\ w \in 0..(k - 1) /\ x * k + u = y * k + w
    BY <2>1, <2>2
  <2> HIDE DEF x, y, u, w
  <2>4. x = y /\ u = w
    BY <2>3, PlaceIsUnique
  <2>5. shard[x] \in SUBSET Nat /\ IsFiniteSet(shard[x]) /\ i \in shard[x] /\ j \in shard[x]
    BY <2>1, <2>4 DEF Apart, x, y
  <2>6. Position(i, shard[x]) = Position(j, shard[x])
    BY <2>4 DEF u, w
  <2> QED BY <2>5, <2>6, PositionIsInjective
<1>6. f \in [U -> 0..(n * k - 1)]
  BY <1>4
<1>7. \A a \in D : \A i \in shard[a] : f[i] = a * k + Position(i, shard[a])
  BY <1>2
<1> HIDE DEF f
<1> QED BY <1>5, <1>6, <1>7 DEF U, D

(* n shards of k rows have n * k rows together; with one of fewer rows they *)
(* have fewer.                                                              *)
LEMMA EvenTotal ==
    ASSUME NEW n \in Positive, NEW k \in Nat, NEW shard, Apart(n, shard, k),
           \A a \in 0..(n - 1) : Cardinality(shard[a]) = k
    PROVE  IsFiniteSet(All(n, shard)) /\ Cardinality(All(n, shard)) = n * k
<1>1. PICK f \in [All(n, shard) -> 0..(n * k - 1)] :
              /\ \A a \in 0..(n - 1) : \A i \in shard[a] : f[i] = a * k + Position(i, shard[a])
              /\ \A i, j \in All(n, shard) : f[i] = f[j] => i = j
  BY Numbered
<1>2. ASSUME NEW m \in 0..(n * k - 1) PROVE \E i \in All(n, shard) : f[i] = m
  <2> DEFINE a == m \div k
             p == m % k
  <2>0. n \in Nat /\ k # 0
    BY DEF Positive
  <2>1. k \in Positive /\ m \in Nat
    BY <2>0 DEF Positive
  <2>2. p \in 0..(k - 1) /\ a \in Nat /\ m = k * a + p
    BY <2>1, DivMod
  <2> HIDE DEF a, p
  <2>3. a \in 0..(n - 1)
    <3>1. ASSUME a >= n PROVE FALSE
      <4> DEFINE ka == k * a
                 nk == n * k
      <4>1. ka >= nk /\ ka \in Nat /\ nk \in Nat
        BY <2>0, <2>1, <2>2, <3>1
      <4>2. m = ka + p /\ m < nk
        BY <2>0, <2>2
      <4> HIDE DEF ka, nk
      <4> QED BY <2>2, <4>1, <4>2
    <3> QED BY <2>0, <2>2, <3>1
  <2>4. shard[a] \in SUBSET Nat /\ IsFiniteSet(shard[a]) /\ p \in 0..(Cardinality(shard[a]) - 1)
    BY <2>2, <2>3 DEF Apart
  <2>5. PICK i \in shard[a] : Position(i, shard[a]) = p
    BY <2>4, PositionIsOnto
  <2>6. i \in All(n, shard)
    BY <2>3, <2>5 DEF All
  <2>7. f[i] = a * k + p
    BY <1>1, <2>3, <2>5
  <2>8. a * k = k * a
    BY <2>1, <2>2 DEF Positive
  <2> QED BY <2>2, <2>6, <2>7, <2>8
<1> DEFINE nk == n * k
<1>3. nk \in Nat
  BY DEF Positive
<1>4. \A m \in 0..(nk - 1) : \E i \in All(n, shard) : f[i] = m
  BY <1>2
<1>5. f \in [All(n, shard) -> 0..(nk - 1)]
  OBVIOUS
<1> HIDE DEF nk
<1>6. IsFiniteSet(All(n, shard)) /\ Cardinality(All(n, shard)) = nk
  BY <1>1, <1>3, <1>4, <1>5, CountBy
<1> QED BY <1>6 DEF nk

LEMMA UnevenTotal ==
    ASSUME NEW n \in Positive, NEW k \in Nat, NEW shard, Apart(n, shard, k),
           NEW b \in 0..(n - 1), Cardinality(shard[b]) < k
    PROVE  IsFiniteSet(All(n, shard)) /\ Cardinality(All(n, shard)) < n * k
<1>1. PICK f \in [All(n, shard) -> 0..(n * k - 1)] :
              /\ \A a \in 0..(n - 1) : \A i \in shard[a] : f[i] = a * k + Position(i, shard[a])
              /\ \A i, j \in All(n, shard) : f[i] = f[j] => i = j
  BY Numbered
<1> DEFINE last == b * k + (k - 1)
           T == 0..(n * k - 1)
<1>2. shard[b] \in SUBSET Nat /\ IsFiniteSet(shard[b]) /\ Cardinality(shard[b]) \in Nat
  BY FS_CardinalityType DEF Apart
<1>3. k - 1 \in 0..(k - 1) /\ n \in Nat /\ b \in Nat
  BY <1>2 DEF Positive
<1>4. last \in T
  BY <1>3, PlaceBound
<1>5. ASSUME NEW i \in All(n, shard) PROVE f[i] # last
  <2>1. PICK a \in 0..(n - 1) : i \in shard[a]
    BY DEF All
  <2>2. shard[a] \in SUBSET Nat /\ IsFiniteSet(shard[a]) /\ Cardinality(shard[a]) <= k
    BY DEF Apart
  <2>3. Position(i, shard[a]) \in 0..(Cardinality(shard[a]) - 1) /\ Cardinality(shard[a]) \in Nat
    BY <2>1, <2>2, PositionType, FS_CardinalityType
  <2>4. Position(i, shard[a]) \in 0..(k - 1)
    BY <2>2, <2>3
  <2>5. f[i] = a * k + Position(i, shard[a])
    BY <1>1, <2>1
  <2> SUFFICES ASSUME f[i] = last PROVE FALSE
    OBVIOUS
  <2>6. a * k + Position(i, shard[a]) = b * k + (k - 1) /\ a \in Nat
    BY <2>5
  <2>7. a = b /\ Position(i, shard[a]) = k - 1
    BY <1>3, <2>4, <2>6, PlaceIsUnique
  <2> QED BY <1>2, <2>3, <2>7
<1>6. n * k \in Nat /\ IsFiniteSet(T) /\ Cardinality(T) = n * k
  <2> DEFINE nk == n * k
  <2>1. nk \in Nat
    BY <1>3
  <2> HIDE DEF nk
  <2>2. IsFiniteSet(0..(nk - 1)) /\ Cardinality(0..(nk - 1)) = nk
    <3>1. 0 \in Int /\ nk - 1 \in Int
      BY <2>1
    <3>2. /\ IsFiniteSet(0..(nk - 1))
          /\ Cardinality(0..(nk - 1)) = IF 0 > nk - 1 THEN 0 ELSE nk - 1 - 0 + 1
      BY <3>1, FS_Interval
    <3> QED BY <2>1, <3>2
  <2> QED BY <2>1, <2>2 DEF nk
<1> HIDE DEF T, last
<1>7. IsFiniteSet(T \ {last}) /\ Cardinality(T \ {last}) = n * k - 1
  BY <1>4, <1>6, FS_RemoveElement
<1>8. f \in Injection(All(n, shard), T \ {last})
  BY <1>1, <1>5 DEF Injection, IsInjective, T
<1>9. IsFiniteSet(All(n, shard)) /\ Cardinality(All(n, shard)) <= n * k - 1
  BY <1>7, <1>8, FS_Injection
<1> QED BY <1>6, <1>9, FS_CardinalityType

LEMMA RowsCount ==
    ASSUME NEW c \in Configs
    PROVE  IsFiniteSet(Rows(c)) /\ Cardinality(Rows(c)) = Generated(c)
<1> DEFINE g == Generated(c)
<1>1. g \in Nat
  BY ConfigShape DEF Positive
<1> HIDE DEF g
<1>2. IsFiniteSet(0..(g - 1)) /\ Cardinality(0..(g - 1)) = g
  <2>1. 0 \in Int /\ g - 1 \in Int
    BY <1>1
  <2>2. /\ IsFiniteSet(0..(g - 1))
        /\ Cardinality(0..(g - 1)) = IF 0 > g - 1 THEN 0 ELSE g - 1 - 0 + 1
    BY <2>1, FS_Interval
  <2> QED BY <1>1, <2>2
<1> QED BY <1>2 DEF g, Rows

(* The rows of n ranks cut to their smallest shard and to microbatches of   *)
(* d, when the shards differ by one row at most: what the plan cuts at once.*)
LEMMA CutTwice ==
    ASSUME NEW n \in Positive, NEW d \in Positive, NEW m \in Nat, NEW r \in 0..(n - 1)
    PROVE  n * AlignDown(m, d) = (n * m + r) - ((n * m + r) % (n * d))
<1> DEFINE q == m \div d
           s == m % d
           nd == n * d
           rest == n * s + r
<1>1. q \in Nat /\ s \in 0..(d - 1) /\ m = d * q + s /\ AlignDown(m, d) = d * q
  BY DivMod, AlignDownType
<1>2. nd \in Positive
  BY PositiveProduct
<1> HIDE DEF q, s
<1>3. rest \in 0..(nd - 1)
  <2>1. s * n + r \in 0..(d * n - 1)
    BY <1>1, PlaceBound DEF Positive
  <2>2. s * n = n * s /\ d * n = n * d
    BY <1>1 DEF Positive
  <2> QED BY <2>1, <2>2
<1>4. n * m + r = nd * q + rest
  <2>1. n * (d * q + s) = n * (d * q) + n * s /\ n * (d * q) = (n * d) * q
    BY <1>1 DEF Positive
  <2> DEFINE nm == n * m
             ndq == nd * q
             ns == n * s
  <2>2. nm = ndq + ns
    BY <1>1, <2>1
  <2>3. nm \in Nat /\ ndq \in Nat /\ ns \in Nat
    BY <1>1 DEF Positive
  <2> HIDE DEF nm, ndq, ns
  <2>4. nm + r = ndq + (ns + r)
    BY <2>2, <2>3
  <2> QED BY <2>4 DEF nm, ndq, ns
<1>5. n * (d * q) = nd * q
  BY <1>1 DEF Positive
<1> DEFINE ndq == nd * q
<1>6. ndq \in Nat
  BY <1>1, <1>2 DEF Positive
<1> HIDE DEF nd, rest
<1>7. (ndq + rest) % nd = rest
  BY <1>1, <1>2, <1>3, MulMod
<1> HIDE DEF ndq
<1>8. (ndq + rest) - rest = ndq
  BY <1>2, <1>3, <1>6 DEF Positive
<1> QED BY <1>1, <1>4, <1>5, <1>7, <1>8 DEF ndq, nd

LEMMA CommonShape ==
    ASSUME NEW c \in Configs, NEW b, \A a \in Actors(c) : IsFiniteSet(b.shards[a])
    PROVE  /\ Common(c, b) \in Nat
           /\ \E a \in Actors(c) : Common(c, b) = Cardinality(b.shards[a])
           /\ \A a \in Actors(c) : Common(c, b) <= Cardinality(b.shards[a])
<1> DEFINE n == c.actors
           f == b.shards
           S == {Cardinality(f[a]) : a \in 0..(n - 1)}
<1>1. n \in Positive /\ Common(c, b) = Min(S) /\ \A a \in 0..(n - 1) : IsFiniteSet(f[a])
  BY ConfigShape DEF Common, Actors
<1> HIDE DEF n, f
<1>2. S \in SUBSET Nat /\ IsFiniteSet(S) /\ S # {}
  BY <1>1, SizesShape
<1>3. /\ \A x \in S : \E a \in 0..(n - 1) : x = Cardinality(f[a])
      /\ \A a \in 0..(n - 1) : Cardinality(f[a]) \in S
  OBVIOUS
<1> HIDE DEF S
<1>4. Min(S) \in S /\ \A y \in S : Min(S) =< y
  BY <1>2, MinShape
<1> QED BY <1>1, <1>2, <1>3, <1>4 DEF n, f, Actors

(* The first k rows of every shard, when no shard has fewer.                *)
Heads(c, b, k) == [a \in Actors(c) |-> First(k, b.shards[a])]

LEMMA HeadsTotal ==
    ASSUME NEW c \in Configs, NEW b \in Batch(c), Covered(c, b),
           \A a \in Actors(c) : IsFiniteSet(b.shards[a]),
           NEW k \in Nat, k <= Common(c, b)
    PROVE  /\ All(c.actors, Heads(c, b, k)) \subseteq Rows(c)
           /\ Cardinality(All(c.actors, Heads(c, b, k))) = c.actors * k
<1> DEFINE n == c.actors
           h == Heads(c, b, k)
<1>1. n \in Positive /\ Actors(c) = 0..(n - 1)
  BY ConfigShape DEF Actors
<1>2. ASSUME NEW a \in Actors(c)
      PROVE  /\ h[a] = First(k, b.shards[a]) /\ h[a] \subseteq b.shards[a]
             /\ h[a] \in SUBSET Nat /\ IsFiniteSet(h[a]) /\ Cardinality(h[a]) = k
  <2>1. b.shards[a] \in SUBSET Nat /\ IsFiniteSet(b.shards[a])
    BY <1>2 DEF Batch
  <2>2. k \in 0..Cardinality(b.shards[a])
    BY <1>2, <2>1, CommonShape, FS_CardinalityType
  <2>3. h[a] = First(k, b.shards[a])
    BY <1>2 DEF Heads
  <2>4. First(k, b.shards[a]) \subseteq b.shards[a]
    BY DEF First
  <2> QED BY <2>1, <2>2, <2>3, <2>4, FirstCount, FirstIsSubset
<1> HIDE DEF h
<1>3. \A x, y \in Actors(c) : x # y => h[x] \cap h[y] = {}
  BY <1>2 DEF Covered
<1> HIDE DEF n
<1>4. Apart(n, h, k)
  <2>1. k <= k
    OBVIOUS
  <2> QED BY <1>1, <1>2, <1>3, <2>1 DEF Apart
<1>5. Cardinality(All(n, h)) = n * k
  BY <1>1, <1>2, <1>4, EvenTotal
<1>6. All(n, h) \subseteq Rows(c)
  BY <1>1, <1>2 DEF All, Covered
<1> QED BY <1>5, <1>6 DEF n, h

LEMMA ActorTotal ==
    ASSUME NEW c \in Configs, NEW b \in Batch(c), Covered(c, b),
           \A a \in Actors(c) : IsFiniteSet(b.shards[a]),
           \A a1, a2 \in Actors(c) : Cardinality(b.shards[a1]) <= Cardinality(b.shards[a2]) + 1
    PROVE  LET rows == All(c.actors, Heads(c, b, Share(c, b)))
           IN  /\ rows \subseteq Rows(c)
               /\ Cardinality(rows) = Generated(c) - (Generated(c) % (c.actors * c.micro))
<1> DEFINE n == c.actors
           d == c.micro
           g == Generated(c)
           m == Common(c, b)
           nm == n * m
<1>1. /\ n \in Positive /\ d \in Positive /\ g \in Nat /\ Actors(c) = 0..(n - 1)
      /\ IsFiniteSet(Rows(c)) /\ Cardinality(Rows(c)) = g
  BY ConfigShape, RowsCount DEF Actors, Positive
<1>2. m \in Nat /\ nm \in Nat
  BY <1>1, CommonShape DEF Positive
<1>3. nm <= g
  <2>1. m <= m
    BY <1>2
  <2>2. /\ All(n, Heads(c, b, m)) \subseteq Rows(c)
        /\ Cardinality(All(n, Heads(c, b, m))) = nm
    BY <1>2, <2>1, HeadsTotal
  <2> QED BY <1>1, <2>2, FS_Subset
<1>4. g < n * (m + 1)
  <2> DEFINE f == b.shards
             k == m + 1
  <2>1. PICK low \in Actors(c) : m = Cardinality(f[low])
    BY CommonShape
  <2>2. \A a \in Actors(c) : /\ f[a] \in SUBSET Nat /\ IsFiniteSet(f[a])
                             /\ Cardinality(f[a]) <= k
    BY <2>1 DEF Batch
  <2>3. \A x, y \in Actors(c) : x # y => f[x] \cap f[y] = {}
    BY DEF Covered
  <2>4. k \in Nat /\ m < k
    BY <1>2
  <2>5. UNION {f[a] : a \in Actors(c)} = Rows(c)
    BY DEF Covered
  <2> HIDE DEF f, k, m, n
  <2>6. Apart(n, f, k)
    BY <1>1, <2>2, <2>3 DEF Apart
  <2>7. low \in 0..(n - 1) /\ Cardinality(f[low]) < k
    BY <1>1, <2>1, <2>4
  <2>8. Cardinality(All(n, f)) < n * k
    BY <1>1, <2>4, <2>6, <2>7, UnevenTotal
  <2>9. All(n, f) = Rows(c)
    BY <1>1, <2>5 DEF All
  <2> QED BY <1>1, <2>8, <2>9 DEF k
<1>5. n * (m + 1) = nm + n
  BY <1>1, <1>2 DEF Positive
<1> HIDE DEF nm
<1>6. g - nm \in 0..(n - 1) /\ g = nm + (g - nm)
  BY <1>1, <1>2, <1>3, <1>4, <1>5 DEF Positive
<1>7. n * AlignDown(m, d) = g - (g % (n * d))
  <2> DEFINE r == g - nm
  <2>1. r \in 0..(n - 1) /\ g = nm + r
    BY <1>6
  <2> HIDE DEF r, n, d, g, m
  <2>2. n * AlignDown(m, d) = (nm + r) - ((nm + r) % (n * d))
    BY <1>1, <1>2, <2>1, CutTwice DEF nm
  <2> QED BY <2>1, <2>2
<1>8. Share(c, b) = AlignDown(m, d) /\ Share(c, b) \in Nat /\ Share(c, b) <= Common(c, b)
  <2>1. AlignDown(m, d) \in 0..m
    BY <1>1, <1>2, AlignDownType
  <2> QED BY <1>2, <2>1 DEF Share
<1>9. /\ All(n, Heads(c, b, Share(c, b))) \subseteq Rows(c)
      /\ Cardinality(All(n, Heads(c, b, Share(c, b)))) = n * Share(c, b)
  BY <1>8, HeadsTotal
<1> QED BY <1>7, <1>8, <1>9

(* What the critic keeps of a rollout in which every row is usable.         *)
LEMMA CriticTotal ==
    ASSUME NEW c \in Configs, NEW b \in Batch(c), b.usable = Rows(c)
    PROVE  /\ Kept(c, b) \subseteq Rows(c)
           /\ Cardinality(Kept(c, b)) = Generated(c) - (Generated(c) % (c.critics * Alignment(c)))
<1>1. /\ Kept(c, b) \subseteq b.usable /\ Cardinality(Kept(c, b)) = Retained(c, b)
      /\ Cardinality(b.usable) = Generated(c)
  BY KeptShape, RowsCount
<1> QED BY <1>1 DEF Retained, AlignDown

(* Nothing is left over when the microbatch is not looked at.               *)
LEMMA CoarserRemainder ==
    ASSUME NEW g \in Nat, NEW n \in Positive, NEW d \in Positive, g % (n * d) = 0
    PROVE  g % n = 0
<1> DEFINE nd == n * d
           q == g \div nd
<1>1. nd \in Positive
  BY PositiveProduct
<1>2. q \in Nat /\ g = nd * q
  <2>1. g % nd = 0
    OBVIOUS
  <2> HIDE DEF nd
  <2>2. q \in Nat /\ g = nd * q + (g % nd)
    BY <1>1, DivMod
  <2> HIDE DEF q
  <2>3. nd * q \in Nat
    BY <1>1, <2>2 DEF Positive
  <2> QED BY <2>1, <2>2, <2>3
<1> HIDE DEF q
<1> DEFINE t == d * q
<1>3. t \in Nat /\ g = n * t + 0
  BY <1>2 DEF Positive
<1> HIDE DEF t
<1>4. 0 \in 0..(n - 1)
  BY DEF Positive
<1> QED BY <1>3, <1>4, MulMod

-----------------------------------------------------------------------------
(* What the queue planned is what the ranks train on: the actors when the   *)
(* rows are split evenly, the critics when all rows are usable; under the   *)
(* exact options not one row is lost.                                       *)
THEOREM PlansAreKept == Spec => []PlanIsKept
<1>1. ASSUME Typed, CriticInv, ActorRows PROVE PlanIsKept
  <2> DEFINE c == config
             b == batch
             g == Generated(c)
  <2>1. /\ c \in Configs /\ b \in Batch(c) /\ \A a \in Actors(c) : IsFiniteSet(b.shards[a])
        /\ DOMAIN actor = Actors(c) /\ DOMAIN critic = Critics(c)
    BY <1>1 DEF Typed, TypeOK
  <2>2. /\ g \in Nat /\ c.actors \in Positive /\ c.critics \in Positive /\ c.micro \in Positive
        /\ IsFiniteSet(Rows(c)) /\ Cardinality(Rows(c)) = g
    BY <2>1, ConfigShape, RowsCount DEF Positive
  <2>3. ASSUME Trains(actor), Even
        PROVE  /\ Trained(actor) \subseteq Rows(c)
               /\ Cardinality(Trained(actor)) = g - (g % (c.actors * c.micro))
    <3>1. \A a \in Actors(c) : actor[a].rows = Heads(c, b, Share(c, b))[a]
      BY <1>1, <2>1, <2>3 DEF Trains, ActorRows, Heads
    <3>2. Trained(actor) = All(c.actors, Heads(c, b, Share(c, b)))
      BY <2>1, <3>1 DEF Trained, All, Actors
    <3> QED BY <2>1, <2>3, <3>2, ActorTotal DEF Even
  <2>4. ASSUME Trains(critic), b.usable = Rows(c)
        PROVE  /\ Trained(critic) \subseteq Rows(c)
               /\ Cardinality(Trained(critic)) = g - (g % (c.critics * Alignment(c)))
    <3>1. rollout > 0 /\ \A r \in Critics(c) : critic[r].at \in {"train", "done"}
      BY <2>1, <2>4 DEF Trains
    <3>2. \A r \in Critics(c) : critic[r].rows = Local(c, b, r)
      BY <1>1, <3>1, HoldsPart, StateNames DEF Holds
    <3>3. Trained(critic) = Kept(c, b)
      BY <2>1, <3>2, LocalTogether DEF Trained
    <3> QED BY <2>1, <2>4, <3>3, CriticTotal
  <2>5. ~Refused(c)
    BY <1>1 DEF ActorRows
  <2> HIDE DEF c, b, g
  <2>6. ASSUME c.global = g
        PROVE  /\ Trains(actor) /\ Even => Cardinality(Trained(actor)) = Plan(c).trained
               /\ Trains(critic) /\ b.usable = Rows(c) /\ ~c.dynamic =>
                    Cardinality(Trained(critic)) = Plan(c).retained
    BY <2>3, <2>4, <2>6 DEF Plan, ActorRemainder, CriticRemainder, Alignment
  <2>7. ASSUME c.exactActor, Trains(actor), Even PROVE Trained(actor) = Rows(c)
    <3>1. c.global = g /\ g % (c.actors * c.micro) = 0
      BY <2>5, <2>7 DEF Refused, ActorRemainder, g
    <3>2. Cardinality(Trained(actor)) = g
      BY <2>2, <2>3, <2>7, <3>1
    <3> QED BY <2>2, <2>3, <2>7, <3>2, FS_Subset
  <2>8. ASSUME c.exactCritic, c.match, Trains(critic), b.usable = Rows(c)
        PROVE  Trained(critic) = Rows(c)
    <3>1. c.global = g /\ g % (c.critics * c.micro) = 0
      BY <2>5, <2>8 DEF Refused, CriticRemainder, g
    <3>2. g % (c.critics * Alignment(c)) = 0
      <4>1. g % c.critics = 0
        BY <2>2, <3>1, CoarserRemainder
      <4>2. c.critics * 1 = c.critics
        BY <2>2 DEF Positive
      <4> QED BY <3>1, <4>1, <4>2 DEF Alignment
    <3>3. Cardinality(Trained(critic)) = g
      BY <2>2, <2>4, <2>8, <3>2
    <3> QED BY <2>2, <2>4, <2>8, <3>3, FS_Subset
  <2> QED BY <2>6, <2>7, <2>8 DEF PlanIsKept, c, b, g
<1>2. Typed /\ CriticInv /\ ActorRows => PlanIsKept
  BY <1>1
<1> QED BY <1>2, TypedInit, TypedNext, CriticInvInit, CriticInvNext, ActorRowsInit, ActorRowsNext,
           PTL DEF Spec

-----------------------------------------------------------------------------
(* Sharded extraction: the plan of a launch.                                *)

(* What the constants are, by the assumptions of the module.                *)
LEMMA Sharding ==
    /\ Len(Doc) \in Nat /\ Requests \subseteq Request
    /\ Layers \in Nat \ {0} /\ MaxLaunches \in Nat /\ MaxFaults \in Nat
BY DocAssumption, RequestAssumption, LayerAssumption, LaunchAssumption

(* A set of natural numbers has a least member.                             *)
LEMMA Minimum ==
    ASSUME NEW S, S \subseteq Nat, S # {}
    PROVE  \E x \in S : \A y \in S : x <= y
<1> DEFINE Lt == {p \in Nat \X Nat : p[1] < p[2]}
<1>1. IsWellFoundedOn(Lt, Nat)
  BY NatLessThanWellFounded DEF OpToRel
<1>2. \A x, y \in Nat : x < y => <<x, y>> \in Lt
  OBVIOUS
<1> HIDE DEF Lt
<1>3. PICK x \in S : \A y \in S : ~ (<<y, x>> \in Lt)
  BY <1>1, WFMin
<1>4. \A y \in S : ~ (y < x)
  BY <1>2, <1>3
<1> QED BY <1>4

(* What a sequence of ranges must be to divide the rows of a request.       *)
Divides(q, p) ==
    /\ Len(p) \in 1..q.devices
    /\ p[1].start = q.start
    /\ \A i \in 1..(Len(p) - 1) : p[i + 1].start = p[i].start + p[i].count
    /\ p[Len(p)].start + p[Len(p)].count = q.start + q.limit
    /\ \A i \in 1..Len(p) : p[i].count > 0

LEMMA SameLength ==
    ASSUME NEW m \in Nat, NEW n \in Nat, 1..m = 1..n
    PROVE  m = n
OBVIOUS

LEMMA LengthIs ==
    ASSUME NEW T, NEW n \in Nat, NEW s \in [1..n -> T]
    PROVE  s \in Seq(T) /\ Len(s) = n
<1>1. s \in Seq(T)
  BY SeqDef
<1>2. Len(s) \in Nat /\ 1..Len(s) = 1..n
  BY <1>1, LenProperties
<1> QED BY <1>1, <1>2, SameLength

(* Ranges between increasing cuts, from the first row to the last.          *)
Edges(q, n, edge) == /\ edge \in [0..n -> Nat] /\ edge[0] = q.start /\ edge[n] = q.start + q.limit
                     /\ \A k \in 1..n : edge[k - 1] < edge[k]
Between(n, edge) == [k \in 1..n |-> Piece(edge[k - 1], edge[k])]

LEMMA CutsDivide ==
    ASSUME NEW q \in Request, NEW n \in 1..q.devices, NEW at, Edges(q, n, at)
    PROVE  Divides(q, Between(n, at)) /\ Len(Between(n, at)) = n
<1> DEFINE T == [start : Nat, count : Nat]
           p == Between(n, at)
<1>0. n \in Nat /\ n >= 1 /\ q.devices \in Nat /\ q.start \in Nat /\ q.limit \in Nat
  BY DEF Request
<1>a. /\ at \in [0..n -> Nat] /\ at[0] = q.start /\ at[n] = q.start + q.limit
      /\ \A k \in 1..n : at[k - 1] < at[k]
  BY DEF Edges
<1>b. p = [k \in 1..n |-> Piece(at[k - 1], at[k])]
  BY DEF Between
<1> HIDE DEF p
<1>1. ASSUME NEW k \in 1..n
      PROVE  /\ p[k].start = at[k - 1] /\ p[k].count = at[k] - at[k - 1]
             /\ p[k].start + p[k].count = at[k] /\ p[k].count > 0
             /\ p[k] \in T
  <2>1. p[k] = [start |-> at[k - 1], count |-> at[k] - at[k - 1]]
    BY <1>b DEF Piece
  <2>a. k - 1 \in 0..n /\ k \in 0..n
    BY <1>0
  <2>2. at[k - 1] \in Nat /\ at[k] \in Nat /\ at[k - 1] < at[k]
    BY <1>a, <2>a
  <2>3. at[k] - at[k - 1] \in Nat /\ at[k] - at[k - 1] > 0
        /\ at[k - 1] + (at[k] - at[k - 1]) = at[k]
    BY <2>2
  <2> QED BY <2>1, <2>2, <2>3
<1>2. p \in [1..n -> T]
  <2>1. DOMAIN p = 1..n /\ p = [k \in 1..n |-> p[k]]
    BY <1>b
  <2> QED BY <1>1, <2>1
<1>3. p \in Seq(T) /\ Len(p) = n
  BY <1>0, <1>2, LengthIs
<1> HIDE DEF T
<1>4. p[1].start = q.start /\ p[n].start + p[n].count = q.start + q.limit
  BY <1>0, <1>1, <1>a
<1>5. ASSUME NEW i \in 1..(n - 1)
      PROVE  p[i + 1].start = p[i].start + p[i].count
  <2>1. i \in 1..n /\ i + 1 \in 1..n /\ (i + 1) - 1 = i
    BY <1>0
  <2> QED BY <1>1, <2>1
<1> QED BY <1>1, <1>3, <1>4, <1>5 DEF Divides, p

(* Row alignment: every device gets limit \div n rows, the first limit % n  *)
(* one more.                                                                *)
LEMMA RowPlanShape ==
    ASSUME NEW q \in Request, q.limit > 0
    PROVE  \E n \in 1..q.devices : \E edge :
              Edges(q, n, edge) /\ RowPlan(q) = Between(n, edge)
<1> DEFINE n == Lower(q.devices, q.limit)
           d == q.limit \div n
           r == q.limit % n
           cut(i) == q.start + i * d + Lower(i, r)
           at == [i \in 0..n |-> cut(i)]
<1>0. q.start \in Nat /\ q.limit \in Nat /\ q.devices \in Nat /\ q.devices > 0
  BY DEF Request
<1>1. n \in Nat /\ n > 0 /\ n <= q.devices /\ n <= q.limit
  BY <1>0 DEF Lower
<1> HIDE DEF n
<1>2. d \in Nat /\ r \in Nat /\ r < n /\ q.limit = n * d + r
  <2>1. n \in Positive
    BY <1>1 DEF Positive
  <2>2. r \in 0..(n - 1) /\ d \in Nat /\ q.limit = n * d + r
    BY <1>0, <2>1, DivMod
  <2> QED BY <1>1, <2>2
<1> HIDE DEF d, r
<1>3. d >= 1
  <2>1. d = 0 => n * d = 0
    BY <1>1
  <2> QED BY <1>0, <1>1, <1>2, <2>1
<1>4. RowPlan(q) = [i \in 1..n |-> Piece(cut(i - 1), cut(i))]
  BY DEF RowPlan, n, d, r
<1>5. ASSUME NEW i \in 0..n
      PROVE  cut(i) \in Nat
  <2>1. i * d \in Nat /\ i \in Nat
    BY <1>1, <1>2
  <2> QED BY <1>0, <1>2, <2>1 DEF Lower
<1>6. ASSUME NEW i \in 1..n
      PROVE  i - 1 \in 0..n /\ i \in 0..n /\ cut(i - 1) < cut(i)
  <2>1. i \in Nat /\ i - 1 \in Nat /\ i <= n
    BY <1>1
  <2>2. i * d = (i - 1) * d + d
    BY <1>2, <2>1
  <2>3. (i - 1) * d \in Nat
    BY <1>2, <2>1
  <2>4. Lower(i - 1, r) <= Lower(i, r)
        /\ Lower(i - 1, r) \in Nat /\ Lower(i, r) \in Nat
    BY <1>2, <2>1 DEF Lower
  <2> QED BY <1>0, <1>1, <1>2, <1>3, <2>1, <2>2, <2>3, <2>4
<1>7. cut(0) = q.start /\ cut(n) = q.start + q.limit
  <2>1. 0 * d = 0 /\ Lower(0, r) = 0 /\ Lower(n, r) = r
    BY <1>1, <1>2 DEF Lower
  <2> QED BY <1>0, <1>1, <1>2, <2>1
<1>8. RowPlan(q) = [i \in 1..n |-> Piece(at[i - 1], at[i])]
  BY <1>4, <1>6
<1>9. /\ at \in [0..n -> Nat] /\ at[0] = q.start /\ at[n] = q.start + q.limit
      /\ \A k \in 1..n : at[k - 1] < at[k]
  BY <1>1, <1>5, <1>6, <1>7
<1>10. n \in 1..q.devices
  BY <1>0, <1>1
<1> HIDE DEF at
<1> QED BY <1>8, <1>9, <1>10 DEF Edges, Between

(* The ends of the selected documents, counted: they increase up to the end *)
(* of the selection.                                                        *)
LEMMA EndsShape ==
    ASSUME Len(Doc) \in Nat
    PROVE  Ends \subseteq Nat /\ IsFiniteSet(Ends)
<1>1. Ends \subseteq 1..Len(Doc)
  BY DEF Ends, SourceRows
<1>2. IsFiniteSet(1..Len(Doc))
  BY FS_Interval
<1>3. IsFiniteSet(Ends)
  BY <1>1, <1>2, FS_Subset
<1> QED BY <1>1, <1>3

(* The ends after row from and not after row r.                             *)
EndsIn(from, r) == {e \in Ends : from < e /\ e <= r}
WholeBatches(from, r, b) == \E m \in Nat : Cardinality(EndsIn(from, r)) = m * b

LEMMA DocEndsShape ==
    ASSUME Len(Doc) \in Nat, NEW q \in Request, q.limit > 0,
           q.start + q.limit \in Ends
    PROVE  LET ends == DocEnds(q)
               d == Len(ends)
           IN  /\ d \in Nat /\ d >= 1 /\ ends \in [1..d -> Nat]
               /\ \A i \in 1..d : /\ q.start < ends[i] /\ ends[i] \in Ends
                                  /\ Cardinality(EndsIn(q.start, ends[i])) = i
               /\ \A i, j \in 1..d : i < j => ends[i] < ends[j]
               /\ ends[d] = q.start + q.limit
<1> DEFINE S == {e \in Ends : q.start < e /\ e <= q.start + q.limit}
           d == Cardinality(S)
           ends == DocEnds(q)
           last == q.start + q.limit
<1>0. q.start \in Nat /\ q.limit \in Nat /\ last \in Nat
  BY DEF Request
<1>1. S \in SUBSET Nat /\ IsFiniteSet(S)
  <2>1. S \subseteq Ends
    OBVIOUS
  <2> QED BY <2>1, EndsShape, FS_Subset
<1>2. last \in S
  BY <1>0
<1>3. d \in Nat /\ d >= 1
  <2>1. S # {} /\ d \in Nat
    BY <1>1, <1>2, FS_CardinalityType
  <2>2. d # 0
    BY <1>1, <2>1, FS_EmptySet
  <2> QED BY <2>1, <2>2
<1>4. ends = [i \in 1..d |-> CHOOSE e \in S : Cardinality({f \in S : f < e}) = i - 1]
  <2>1. Cardinality(S) = d
    OBVIOUS
  <2>2. ends = [i \in 1..Cardinality(S) |->
                   CHOOSE e \in S : Cardinality({f \in S : f < e}) = i - 1]
    BY DEF DocEnds
  <2> HIDE DEF S, d, ends
  <2> QED BY <2>1, <2>2
<1>5. \A e \in S : e \in Nat /\ q.start < e /\ e <= last /\ e \in Ends
  BY <1>1
<1>a. \A e \in S : EndsIn(q.start, e) = {f \in S : f < e} \cup {e}
  <2> SUFFICES ASSUME NEW e \in S PROVE EndsIn(q.start, e) = {f \in S : f < e} \cup {e}
    OBVIOUS
  <2>1. \A f \in Ends : f \in Nat
    BY EndsShape
  <2>2. ASSUME NEW f \in EndsIn(q.start, e)
        PROVE  f = e \/ (f \in S /\ f < e)
    <3>1. f \in Ends /\ f \in Nat /\ e \in Nat /\ e <= last /\ q.start < f /\ f <= e
      BY <1>5, <2>1 DEF EndsIn
    <3>2. f <= last
      BY <1>0, <3>1
    <3> QED BY <3>1, <3>2
  <2>3. ASSUME NEW f \in S, f < e \/ f = e
        PROVE  f \in EndsIn(q.start, e)
    BY <1>5, <2>3 DEF EndsIn
  <2> QED BY <2>2, <2>3
<1> HIDE DEF S, ends, d, last
<1>6. ASSUME NEW i \in 1..d
      PROVE  ends[i] \in S /\ Position(ends[i], S) = i - 1
  <2>1. i - 1 \in 0..(Cardinality(S) - 1)
    BY <1>3 DEF d
  <2>2. \A e \in S : Cardinality({f \in S : f < e}) = Position(e, S)
    BY DEF Position
  <2>3. \E e \in S : Cardinality({f \in S : f < e}) = i - 1
    BY <1>1, <2>1, <2>2, PositionIsOnto
  <2>4. ends[i] = CHOOSE e \in S : Cardinality({f \in S : f < e}) = i - 1
    BY <1>4
  <2>5. ends[i] \in S /\ Cardinality({f \in S : f < ends[i]}) = i - 1
    BY <2>3, <2>4
  <2> QED BY <2>2, <2>5
<1>7. ASSUME NEW i \in 1..d, NEW j \in 1..d, i < j
      PROVE  ends[i] < ends[j]
  <2>1. ends[i] \in S /\ ends[j] \in S /\ ends[i] \in Nat /\ ends[j] \in Nat
    BY <1>5, <1>6
  <2>2. ends[i] # ends[j]
    BY <1>3, <1>6, <1>7
  <2>3. ~(ends[j] < ends[i])
    <3> SUFFICES ASSUME ends[j] < ends[i] PROVE FALSE
      OBVIOUS
    <3>1. Position(ends[j], S) < Position(ends[i], S)
      BY <1>1, <2>1, PositionOrder
    <3> QED BY <1>3, <1>6, <1>7, <3>1
  <2> QED BY <2>1, <2>2, <2>3
<1>8. ends[d] = last
  <2>1. d \in 1..d
    BY <1>3
  <2>2. ends[d] \in S /\ Position(ends[d], S) = d - 1 /\ ends[d] \in Nat /\ ends[d] <= last
    BY <1>5, <1>6, <2>1
  <2>3. ~(ends[d] < last)
    <3> SUFFICES ASSUME ends[d] < last PROVE FALSE
      OBVIOUS
    <3>1. Position(ends[d], S) < Position(last, S)
      BY <1>1, <1>2, <2>2, PositionOrder
    <3>2. Position(last, S) \in 0..(Cardinality(S) - 1)
      BY <1>1, <1>2, PositionType
    <3>3. Position(last, S) \in 0..(d - 1)
      BY <3>2 DEF d
    <3> QED BY <1>3, <2>2, <3>1, <3>3
  <2>4. last \in Nat
    BY <1>0 DEF last
  <2> QED BY <2>2, <2>3, <2>4
<1>9. ends \in [1..d -> Nat] /\ Len(ends) = d
  <2>1. ends \in [1..d -> Nat]
    <3>1. \A i \in 1..d : ends[i] \in Nat
      BY <1>5, <1>6
    <3> QED BY <1>4, <3>1
  <2> QED BY <1>3, <2>1, LengthIs
<1>10. ASSUME NEW i \in 1..d
       PROVE  /\ q.start < ends[i] /\ ends[i] \in Ends
              /\ Cardinality(EndsIn(q.start, ends[i])) = i
  <2> DEFINE B == {f \in S : f < ends[i]}
  <2>1. ends[i] \in S /\ Position(ends[i], S) = i - 1 /\ ends[i] \in Nat
    BY <1>5, <1>6
  <2>2. IsFiniteSet(B) /\ ends[i] \notin B /\ Cardinality(B) = i - 1
    <3>1. B \subseteq S
      OBVIOUS
    <3>2. IsFiniteSet(B)
      BY <1>1, <3>1, FS_Subset
    <3> QED BY <2>1, <3>2 DEF Position
  <2>3. Cardinality(B \cup {ends[i]}) = (i - 1) + 1
    BY <2>2, FS_AddElement
  <2>4. EndsIn(q.start, ends[i]) = B \cup {ends[i]}
    BY <1>a, <2>1
  <2> QED BY <1>5, <2>1, <2>3, <2>4
<1>11. Len(ends) = d
  BY <1>9
<1> QED BY <1>3, <1>7, <1>8, <1>9, <1>10, <1>11 DEF ends, last

(* The nearest of the possible cuts is one of them, if any is possible: it  *)
(* adds whole batches and leaves enough for the ranges that follow.         *)
LEMMA NearestShape ==
    ASSUME NEW q \in Request, NEW b \in Positive, NEW n \in Positive,
           NEW k \in 1..(n - 1), NEW from \in Nat,
           LET ends == DocEnds(q)
               d == Len(ends)
           IN  /\ d \in Nat /\ ends \in [1..d -> Nat]
               /\ from + (n - k) * b + 1 <= d
    PROVE  LET x == NearestCut(q, b, n, k, from)
           IN  /\ x \in Nat /\ x >= from + b /\ \E m \in Nat : x = from + m * b
               /\ x + (n - k - 1) * b + 1 <= Len(DocEnds(q))
<1> DEFINE ends == DocEnds(q)
           d == Len(ends)
           target == q.start + RoundDiv(q.limit * k, n)
           spare == Spare(n, k, b)
           after == {x \in (from + b)..(d - spare) : (x - from) % b = 0}
           far(x) == Distance(ends[x], target)
           nearer(x, y) == far(x) < far(y) \/ (far(x) = far(y) /\ x <= y)
<1>0. /\ b \in Nat /\ b > 0 /\ n \in Nat /\ k \in Nat /\ n - k - 1 \in Nat
      /\ q.start \in Nat /\ q.limit \in Nat
  BY DEF Positive, Request
<1>1. d \in Nat /\ ends \in [1..d -> Nat] /\ from + (n - k) * b + 1 <= d
  OBVIOUS
<1>2. (n - k - 1) * b \in Nat /\ (n - k) * b = (n - k - 1) * b + b
  BY <1>0
<1>3. spare = (n - k - 1) * b + 1 /\ spare \in Nat /\ spare >= 1
  BY <1>2 DEF Spare
<1>4. target \in Nat
  <2>1. q.limit * k \in Nat
    BY <1>0
  <2>2. (q.limit * k) \div n \in Nat
    BY <2>1, DivMod
  <2> QED BY <1>0, <2>2 DEF RoundDiv
<1>5. NearestCut(q, b, n, k, from)
        = IF after = {} THEN 0 ELSE CHOOSE x \in after : \A y \in after : nearer(x, y)
  BY DEF NearestCut
<1> HIDE DEF spare, target, ends, d
<1>6. from + b \in after
  <2>1. from + b <= d - spare
    BY <1>0, <1>1, <1>2, <1>3
  <2>2. (from + b) - from = b /\ b % b = 0
    BY <1>0
  <2>3. from + b \in Nat /\ d - spare \in Int
    BY <1>0, <1>1, <1>3
  <2> QED BY <2>1, <2>2, <2>3
<1>7. ASSUME NEW x \in after
      PROVE  /\ x \in Nat /\ x >= from + b /\ x <= d - spare /\ x \in 1..d
             /\ \E m \in Nat : x = from + m * b
  <2>1. x \in Nat /\ x >= from + b /\ x <= d - spare /\ x \in 1..d /\ (x - from) % b = 0
    BY <1>0, <1>1, <1>3
  <2>2. x - from \in Nat
    BY <1>0, <2>1
  <2>3. (x - from) \div b \in Nat /\ x - from = b * ((x - from) \div b) + 0
    BY <2>1, <2>2, DivMod
  <2> DEFINE m == (x - from) \div b
  <2> HIDE DEF m
  <2>4. m \in Nat /\ x - from = b * m + 0
    BY <2>3 DEF m
  <2>5. x = from + m * b
    BY <1>0, <2>1, <2>4
  <2> QED BY <2>1, <2>4, <2>5
<1>8. ASSUME NEW x \in after
      PROVE  far(x) \in Nat
  <2>1. ends[x] \in Nat
    BY <1>1, <1>7
  <2> QED BY <1>4, <2>1 DEF Distance, Upper, Lower
<1> HIDE DEF far, after
<1>9. \E x \in after : \A y \in after : nearer(x, y)
  <2> DEFINE F == {far(x) : x \in after}
  <2>1. F \subseteq Nat /\ F # {}
    BY <1>6, <1>8
  <2>2. \E m \in F : \A l \in F : m <= l
    BY <2>1, Minimum
  <2>3. PICK m \in F : \A l \in F : m <= l
    BY <2>2
  <2> DEFINE A == {x \in after : far(x) = m}
  <2>4. A \subseteq Nat /\ A # {}
    BY <1>7
  <2>5. \E x \in A : \A y \in A : x <= y
    BY <2>4, Minimum
  <2>6. PICK x \in A : \A y \in A : x <= y
    BY <2>5
  <2>7. ASSUME NEW y \in after
        PROVE  nearer(x, y)
    <3>1. far(x) = m /\ m <= far(y) /\ far(y) \in Nat /\ m \in Nat
      BY <1>8, <2>1, <2>3
    <3>2. far(y) = m => x <= y
      BY <2>6
    <3> QED BY <3>1, <3>2
  <2> QED BY <2>7
<1>10. NearestCut(q, b, n, k, from) \in after
  BY <1>5, <1>6, <1>9
<1> DEFINE x == NearestCut(q, b, n, k, from)
<1> HIDE DEF x
<1>11. x \in Nat /\ x >= from + b /\ x <= d - spare /\ \E m \in Nat : x = from + m * b
  BY <1>7, <1>10 DEF x
<1>12. x + (n - k - 1) * b + 1 <= d
  BY <1>1, <1>2, <1>3, <1>11
<1> QED BY <1>11, <1>12 DEF d, ends, x

(* The cuts are a function defined by recursion over 0..n.  A function with *)
(* the first cuts is extended one cut at a time: the least place where none *)
(* exists would follow one where one does.                                  *)
NextCut(q, b, n, d, k, from) ==
    IF k = 0 THEN 0 ELSE IF k = n THEN d ELSE NearestCut(q, b, n, k, from)
CutsFrom(f, q, b, n, d) == f = [k \in 0..n |-> NextCut(q, b, n, d, k, f[k - 1])]

LEMMA FirstCuts ==
    ASSUME NEW q, NEW b, NEW n \in Nat, NEW d
    PROVE  \E f : CutsFrom(f, q, b, n, d)
<1> DEFINE Has(m) == \E f : f = [k \in 0..m |-> NextCut(q, b, n, d, k, f[k - 1])]
           Bad == {m \in Nat : ~Has(m)}
<1>1. Has(0)
  <2> DEFINE f == [k \in 0..0 |-> 0]
  <2>1. \A k \in 0..0 : NextCut(q, b, n, d, k, f[k - 1]) = 0
    BY DEF NextCut
  <2>2. f = [k \in 0..0 |-> NextCut(q, b, n, d, k, f[k - 1])]
    BY <2>1
  <2> QED BY <2>2
<1>2. ASSUME NEW m \in Nat, Has(m)
      PROVE  Has(m + 1)
  <2>1. PICK f : f = [k \in 0..m |-> NextCut(q, b, n, d, k, f[k - 1])]
    BY <1>2
  <2> DEFINE v == NextCut(q, b, n, d, m + 1, f[m])
             g == [k \in 0..(m + 1) |-> IF k <= m THEN f[k] ELSE v]
  <2>2. \A k \in 0..m : g[k] = f[k]
    OBVIOUS
  <2>3. ASSUME NEW k \in 0..m
        PROVE  g[k] = NextCut(q, b, n, d, k, g[k - 1])
    <3>1. f[k] = NextCut(q, b, n, d, k, f[k - 1])
      BY <2>1
    <3>2. CASE k = 0
      BY <2>2, <3>1, <3>2 DEF NextCut
    <3>3. CASE k # 0
      <4>1. k - 1 \in 0..m
        BY <3>3
      <4>2. g[k - 1] = f[k - 1]
        BY <2>2, <4>1
      <4> HIDE DEF g
      <4> QED BY <2>2, <3>1, <4>2
    <3> QED BY <3>2, <3>3
  <2>4. g[m + 1] = NextCut(q, b, n, d, m + 1, g[(m + 1) - 1])
    <3>1. (m + 1) - 1 = m /\ m \in 0..m /\ m + 1 \in 0..(m + 1) /\ ~(m + 1 <= m)
      OBVIOUS
    <3>2. g[m + 1] = v /\ g[m] = f[m]
      BY <3>1
    <3> QED BY <3>1, <3>2
  <2>5. \A k \in 0..(m + 1) : k \in 0..m \/ k = m + 1
    OBVIOUS
  <2>6. \A k \in 0..(m + 1) : g[k] = NextCut(q, b, n, d, k, g[k - 1])
    BY <2>3, <2>4, <2>5
  <2>7. g = [k \in 0..(m + 1) |-> g[k]]
    OBVIOUS
  <2> HIDE DEF g
  <2>8. g = [k \in 0..(m + 1) |-> NextCut(q, b, n, d, k, g[k - 1])]
    BY <2>6, <2>7
  <2> QED BY <2>8
<1> HIDE DEF Has
<1>3. Bad = {}
  <2> SUFFICES ASSUME Bad # {} PROVE FALSE
    OBVIOUS
  <2>1. \E m \in Bad : \A l \in Bad : m <= l
    BY Minimum
  <2>2. PICK m \in Bad : \A l \in Bad : m <= l
    BY <2>1
  <2>3. m \in Nat /\ m # 0
    BY <1>1
  <2>4. m - 1 \in Nat /\ (m - 1) + 1 = m
    BY <2>3
  <2>5. Has(m - 1)
    BY <2>2, <2>4
  <2>6. Has((m - 1) + 1)
    BY <1>2, <2>4, <2>5
  <2> QED BY <2>4, <2>6
<1>4. Has(n)
  BY <1>3
<1> QED BY <1>4 DEF Has, CutsFrom

(* How many ranges there are: no more than devices, nor than batches.       *)
LEMMA RangesShape ==
    ASSUME NEW q \in Request, NEW b \in Positive, NEW d \in Positive
    PROVE  LET n == Lower(q.devices, (d + b - 1) \div b)
           IN  n \in Positive /\ n <= q.devices /\ (n - 1) * b + 1 <= d
<1> DEFINE c == (d + b - 1) \div b
           n == Lower(q.devices, c)
<1>0. b \in Nat /\ b >= 1 /\ d \in Nat /\ d >= 1 /\ q.devices \in Nat /\ q.devices >= 1
  BY DEF Positive, Request
<1>1. d + b - 1 \in Nat
  BY <1>0
<1>2. c \in Nat /\ (d + b - 1) % b \in 0..(b - 1) /\ d + b - 1 = b * c + ((d + b - 1) % b)
  BY <1>1, DivMod
<1> HIDE DEF c
<1>3. b * c <= d + b - 1 /\ d <= b * c
  <2>1. b * c \in Nat
    BY <1>0, <1>2
  <2> QED BY <1>0, <1>2, <2>1
<1>4. c >= 1
  <2>1. c = 0 => b * c = 0
    BY <1>0
  <2> QED BY <1>0, <1>2, <1>3, <2>1
<1>5. n \in Nat /\ n >= 1 /\ n <= q.devices /\ n <= c
  BY <1>0, <1>2, <1>4 DEF Lower
<1> HIDE DEF n
<1>6. (n - 1) * b + 1 <= d
  <2>1. n * b <= c * b
    BY <1>0, <1>2, <1>5
  <2>2. c * b = b * c /\ (n - 1) * b = n * b - b /\ n * b \in Nat
    BY <1>0, <1>2, <1>5
  <2> QED BY <1>0, <1>2, <1>3, <2>1, <2>2
<1> QED BY <1>5, <1>6 DEF n, c, Positive

LEMMA CutsShape ==
    ASSUME NEW q \in Request, NEW b \in Positive,
           LET ends == DocEnds(q)
           IN  Len(ends) \in Positive /\ ends \in [1..Len(ends) -> Nat]
    PROVE  LET d == Len(DocEnds(q))
               cut == Cuts(q, b)
           IN  \E n \in 1..q.devices :
                  /\ cut \in [0..n -> 0..d] /\ cut[0] = 0 /\ cut[n] = d
                  /\ \A k \in 1..n : cut[k - 1] < cut[k]
                  /\ \A k \in 0..(n - 1) : \E m \in Nat : cut[k] = m * b
<1> DEFINE ends == DocEnds(q)
           d == Len(ends)
           n == Lower(q.devices, (d + b - 1) \div b)
           cut == Cuts(q, b)
<1>0. d \in Nat /\ d >= 1 /\ d \in Positive /\ b \in Nat /\ b >= 1 /\ ends \in [1..d -> Nat]
  BY DEF Positive
<1>1. n \in Positive /\ n \in Nat /\ n >= 1 /\ n <= q.devices /\ (n - 1) * b + 1 <= d
      /\ q.devices \in Nat
  <2>1. n \in Positive /\ n <= q.devices /\ (n - 1) * b + 1 <= d
    BY <1>0, RangesShape
  <2>2. q.devices \in Nat
    BY DEF Request
  <2> QED BY <2>1, <2>2 DEF Positive
<1>2. cut = CHOOSE f : CutsFrom(f, q, b, n, d)
  BY DEF Cuts, CutsFrom, NextCut
<1> HIDE DEF cut, n, d
<1>3. cut = [k \in 0..n |-> NextCut(q, b, n, d, k, cut[k - 1])]
  <2>1. \E f : CutsFrom(f, q, b, n, d)
    BY <1>1, FirstCuts
  <2>2. CutsFrom(cut, q, b, n, d)
    BY <1>2, <2>1
  <2> QED BY <2>2 DEF CutsFrom
<1>4. cut[0] = 0 /\ cut[n] = d
  <2>1. 0 \in 0..n /\ n \in 0..n /\ n # 0
    BY <1>1
  <2> QED BY <1>3, <2>1 DEF NextCut
<1> DEFINE Good(k) == /\ cut[k] \in Nat /\ cut[k] + (n - k - 1) * b + 1 <= d
                      /\ k > 0 => cut[k] >= cut[k - 1] + b
                      /\ \E m \in Nat : cut[k] = m * b
           Bad == {k \in 0..(n - 1) : ~Good(k)}
<1>5. Good(0)
  <2>1. 0 \in Nat /\ cut[0] = 0 * b
    BY <1>0, <1>4
  <2> QED BY <1>0, <1>1, <1>4, <2>1
<1>6. ASSUME NEW k \in 1..(n - 1), Good(k - 1)
      PROVE  Good(k)
  <2>1. k \in 0..n /\ k # 0 /\ k # n /\ k \in Nat
    BY <1>1
  <2>2. cut[k] = NearestCut(q, b, n, k, cut[k - 1])
    BY <1>3, <2>1 DEF NextCut
  <2>3. cut[k - 1] \in Nat /\ cut[k - 1] + (n - k) * b + 1 <= d
    <3>1. n - (k - 1) - 1 = n - k
      BY <1>1, <2>1
    <3> QED BY <1>6, <3>1
  <2>4. /\ cut[k] \in Nat /\ cut[k] >= cut[k - 1] + b
        /\ cut[k] + (n - k - 1) * b + 1 <= d
        /\ \E m \in Nat : cut[k] = cut[k - 1] + m * b
    <3> HIDE DEF ends
    <3>1. ends = DocEnds(q) /\ d = Len(DocEnds(q))
      BY DEF ends, d
    <3> DEFINE x == NearestCut(q, b, n, k, cut[k - 1])
    <3>2. /\ x \in Nat /\ x >= cut[k - 1] + b /\ \E m \in Nat : x = cut[k - 1] + m * b
          /\ x + (n - k - 1) * b + 1 <= d
      BY <1>0, <1>1, <2>3, <3>1, NearestShape
    <3> HIDE DEF x
    <3>3. cut[k] = x
      BY <2>2 DEF x
    <3> QED BY <3>2, <3>3
  <2>5. \E m \in Nat : cut[k] = m * b
    <3>1. PICK m \in Nat : cut[k] = cut[k - 1] + m * b
      BY <2>4
    <3>2. PICK l \in Nat : cut[k - 1] = l * b
      BY <1>6
    <3>3. l + m \in Nat /\ (l + m) * b = l * b + m * b
      BY <1>0
    <3> QED BY <3>1, <3>2, <3>3
  <2> QED BY <2>4, <2>5
<1> HIDE DEF Good
<1>7. Bad = {}
  <2> SUFFICES ASSUME Bad # {} PROVE FALSE
    OBVIOUS
  <2>1. Bad \subseteq Nat
    BY <1>1
  <2>2. \E k \in Bad : \A l \in Bad : k <= l
    BY <2>1, Minimum
  <2>3. PICK k \in Bad : \A l \in Bad : k <= l
    BY <2>2
  <2>4. k \in 1..(n - 1) /\ k - 1 \in 0..(n - 1) /\ k \in Nat
    BY <1>1, <1>5
  <2>5. k - 1 \notin Bad
    BY <2>3, <2>4
  <2>6. Good(k - 1)
    BY <2>4, <2>5
  <2> QED BY <1>6, <2>4, <2>6
<1>8. \A k \in 0..(n - 1) : Good(k)
  BY <1>7
<1>9. ASSUME NEW k \in 0..(n - 1)
      PROVE  cut[k] \in Nat /\ cut[k] < d
  <2>1. Good(k) /\ n - k - 1 \in Nat
    BY <1>1, <1>8
  <2>2. (n - k - 1) * b \in Nat
    BY <1>0, <2>1
  <2> QED BY <1>0, <2>1, <2>2 DEF Good
<1>10. ASSUME NEW k \in 1..n
       PROVE  cut[k - 1] < cut[k]
  <2>1. CASE k = n
    <3>1. n - 1 \in 0..(n - 1)
      BY <1>1
    <3> QED BY <1>4, <1>9, <2>1, <3>1
  <2>2. CASE k # n
    <3>1. k \in 0..(n - 1) /\ k > 0 /\ k - 1 \in 0..(n - 1)
      BY <1>1, <2>2
    <3>2. cut[k] >= cut[k - 1] + b
      BY <1>8, <3>1 DEF Good
    <3>3. cut[k] \in Nat /\ cut[k - 1] \in Nat
      BY <1>9, <3>1
    <3> QED BY <1>0, <3>2, <3>3
  <2> QED BY <2>1, <2>2
<1>11. cut \in [0..n -> 0..d]
  <2>1. ASSUME NEW k \in 0..n
        PROVE  cut[k] \in 0..d
    <3>1. CASE k = n
      BY <1>0, <1>4, <3>1
    <3>2. CASE k # n
      <4>1. k \in 0..(n - 1)
        BY <1>1, <3>2
      <4> QED BY <1>0, <1>9, <4>1
    <3> QED BY <3>1, <3>2
  <2>2. DOMAIN cut = 0..n /\ cut = [k \in 0..n |-> cut[k]]
    BY <1>3
  <2> QED BY <2>1, <2>2
<1>12. n \in 1..q.devices
  BY <1>1
<1>13. \A k \in 0..(n - 1) : \E m \in Nat : cut[k] = m * b
  BY <1>8 DEF Good
<1> QED BY <1>4, <1>10, <1>11, <1>12, <1>13 DEF d, cut

(* Document alignment: a sequence of whole documents for each extractor.    *)
(* Its cuts lie at ends, after whole batches of them but for the last.      *)
DocEdges(q, b, n, edge) ==
    /\ Edges(q, n, edge)
    /\ \A k \in 1..n : edge[k] \in Ends
    /\ \A k \in 1..(n - 1) : WholeBatches(q.start, edge[k], b)

LEMMA DocPlanShape ==
    ASSUME Len(Doc) \in Nat, NEW q \in Request, q.limit > 0,
           q.start + q.limit \in Ends, NEW b \in Positive
    PROVE  \E n \in 1..q.devices : \E edge :
              DocEdges(q, b, n, edge) /\ DocPlan(q, b) = Between(n, edge)
<1> DEFINE ends == DocEnds(q)
           d == Len(ends)
           cut == Cuts(q, b)
           at(k) == IF k = 0 THEN q.start ELSE ends[k]
<1>0. q.start \in Nat /\ q.limit \in Nat /\ q.devices \in Nat
  BY DEF Request
<1>1. /\ d \in Nat /\ d >= 1 /\ d \in Positive /\ ends \in [1..d -> Nat]
      /\ \A i \in 1..d : /\ q.start < ends[i] /\ ends[i] \in Ends
                         /\ Cardinality(EndsIn(q.start, ends[i])) = i
      /\ \A i, j \in 1..d : i < j => ends[i] < ends[j]
      /\ ends[d] = q.start + q.limit
  BY DocEndsShape DEF Positive
<1>2. \E n \in 1..q.devices :
         /\ cut \in [0..n -> 0..d] /\ cut[0] = 0 /\ cut[n] = d
         /\ \A k \in 1..n : cut[k - 1] < cut[k]
         /\ \A k \in 0..(n - 1) : \E m \in Nat : cut[k] = m * b
  BY <1>1, CutsShape
<1>3. PICK n \in 1..q.devices :
         /\ cut \in [0..n -> 0..d] /\ cut[0] = 0 /\ cut[n] = d
         /\ \A k \in 1..n : cut[k - 1] < cut[k]
         /\ \A k \in 0..(n - 1) : \E m \in Nat : cut[k] = m * b
  BY <1>2
<1>4. n \in Nat /\ n >= 1
  BY <1>0
<1>5. ASSUME NEW k \in 1..n
      PROVE  /\ k \in 0..n /\ k - 1 \in 0..n /\ cut[k - 1] < cut[k]
             /\ cut[k - 1] \in 0..d /\ cut[k] \in 1..d
  <2>1. k \in 0..n /\ k - 1 \in 0..n /\ cut[k - 1] < cut[k]
    BY <1>3, <1>4
  <2>2. cut[k - 1] \in 0..d /\ cut[k] \in 0..d
    BY <1>3, <2>1
  <2> QED BY <1>1, <2>1, <2>2
<1>6. Cardinality(DOMAIN cut) - 1 = n
  <2>1. DOMAIN cut = 0..n
    BY <1>3
  <2>2. Cardinality(0..n) = n + 1
    BY <1>4, FS_Interval
  <2> QED BY <1>4, <2>1, <2>2
<1>7. ~ \E k \in 1..n : cut[k] = 0
  BY <1>1, <1>5
<1>8. DocPlan(q, b) = [k \in 1..n |-> Piece(at(cut[k - 1]), at(cut[k]))]
  <2>1. DocPlan(q, b)
          = IF \E k \in 1..(Cardinality(DOMAIN cut) - 1) : cut[k] = 0 THEN <<>>
            ELSE [k \in 1..(Cardinality(DOMAIN cut) - 1) |->
                     Piece(at(cut[k - 1]), at(cut[k]))]
    BY DEF DocPlan
  <2> HIDE DEF cut, at, d, ends
  <2> QED BY <1>6, <1>7, <2>1
<1> HIDE DEF cut, d, ends
<1> DEFINE edge == [k \in 0..n |-> at(cut[k])]
<1>9. edge[0] = q.start /\ edge[n] = q.start + q.limit
  <2>1. 0 \in 0..n /\ n \in 0..n
    BY <1>4
  <2> QED BY <1>1, <1>3, <2>1
<1>10. \A i \in 0..d : at(i) \in Nat
  <2> SUFFICES ASSUME NEW i \in 0..d PROVE at(i) \in Nat
    OBVIOUS
  <2>1. CASE i = 0
    BY <1>0, <2>1
  <2>2. CASE i # 0
    <3>1. i \in 1..d
      BY <1>1, <2>2
    <3> QED BY <1>1, <2>2, <3>1
  <2> QED BY <2>1, <2>2
<1>11. edge \in [0..n -> Nat]
  BY <1>3, <1>10
<1>12. ASSUME NEW k \in 1..n
       PROVE  at(cut[k - 1]) < at(cut[k])
  <2>1. cut[k - 1] \in 0..d /\ cut[k] \in 1..d /\ cut[k - 1] < cut[k]
    BY <1>5
  <2>2. at(cut[k]) = ends[cut[k]]
    BY <1>1, <2>1
  <2>3. CASE cut[k - 1] = 0
    BY <1>1, <2>1, <2>2, <2>3
  <2>4. CASE cut[k - 1] # 0
    <3>1. cut[k - 1] \in 1..d
      BY <1>1, <2>1, <2>4
    <3> QED BY <1>1, <2>1, <2>2, <2>4, <3>1
  <2> QED BY <2>3, <2>4
<1>13. ASSUME NEW k \in 1..n
       PROVE  /\ edge[k - 1] < edge[k] /\ edge[k] \in Ends
              /\ Cardinality(EndsIn(q.start, edge[k])) = cut[k]
  <2>1. cut[k] \in 1..d /\ edge[k] = at(cut[k]) /\ edge[k - 1] = at(cut[k - 1])
    BY <1>5
  <2>2. edge[k] = ends[cut[k]]
    BY <1>1, <2>1
  <2> HIDE DEF edge
  <2> QED BY <1>1, <1>12, <2>1, <2>2
<1> HIDE DEF at
<1>14. DocPlan(q, b) = [k \in 1..n |-> Piece(edge[k - 1], edge[k])]
  BY <1>5, <1>8
<1> HIDE DEF edge
<1>15. ASSUME NEW k \in 1..(n - 1)
       PROVE  WholeBatches(q.start, edge[k], b)
  <2>1. k \in 1..n /\ k \in 0..(n - 1)
    BY <1>4
  <2> QED BY <1>3, <1>13, <2>1 DEF WholeBatches
<1>16. DocEdges(q, b, n, edge)
  BY <1>9, <1>11, <1>13, <1>15 DEF DocEdges, Edges
<1> QED BY <1>14, <1>16 DEF Between

LEMMA PlanShape ==
    ASSUME Len(Doc) \in Nat, NEW q \in Request, Acceptable(q)
    PROVE  \E n \in 1..q.devices : \E edge :
              /\ Edges(q, n, edge) /\ ShardPlan(q) = Between(n, edge)
              /\ q.align = "document_batch" => DocEdges(q, q.batch, n, edge)
<1>1. Fits(q) /\ q.limit > 0
  BY DEF Acceptable, Fits
<1>2. CASE q.align = "row"
  <2>1. ShardPlan(q) = RowPlan(q)
    BY <1>1, <1>2 DEF ShardPlan
  <2> QED BY <1>1, <1>2, <2>1, RowPlanShape
<1>3. CASE q.align # "row"
  <2> DEFINE b == IF q.align = "document_batch" THEN q.batch ELSE 1
  <2>1. WholeDocuments(q)
    BY <1>3 DEF Acceptable
  <2>2. ShardPlan(q) = DocPlan(q, b)
    BY <1>1, <1>3, <2>1 DEF ShardPlan
  <2>3. b \in Positive /\ (q.align = "document_batch" => b = q.batch)
    BY DEF Positive, Request
  <2>4. q.start + q.limit \in Ends
    BY <2>1 DEF WholeDocuments
  <2> HIDE DEF b
  <2>5. \E n \in 1..q.devices : \E edge :
           DocEdges(q, b, n, edge) /\ DocPlan(q, b) = Between(n, edge)
    BY <1>1, <2>3, <2>4, DocPlanShape
  <2> QED BY <2>2, <2>3, <2>5 DEF DocEdges
<1> QED BY <1>2, <1>3

LEMMA PlanDivides ==
    ASSUME Len(Doc) \in Nat, NEW q \in Request, Acceptable(q)
    PROVE  Divides(q, ShardPlan(q))
<1>1. PICK n \in 1..q.devices : \E edge :
         Edges(q, n, edge) /\ ShardPlan(q) = Between(n, edge)
  BY PlanShape
<1>2. PICK edge : Edges(q, n, edge) /\ ShardPlan(q) = Between(n, edge)
  BY <1>1
<1> QED BY <1>2, CutsDivide

-----------------------------------------------------------------------------
Launches == Requests \cup {Again(q) : q \in Requests}
PlanInv == req # None => req \in Launches /\ plan = ShardPlan(req)

LEMMA LaunchesShape ==
    /\ Launches \subseteq Request
    /\ \A q \in Launches : Again(q) \in Launches /\ Planned[q] = ShardPlan(q)
<1>1. ASSUME NEW q \in Request
      PROVE  Again(q) \in Request /\ Again(Again(q)) = Again(q)
  BY DEF Again, Request
<1>2. Requests \subseteq Request
  BY Sharding
<1>3. \A q \in Launches : Planned[q] = ShardPlan(q)
  BY DEF Planned, Launches
<1> QED BY <1>1, <1>2, <1>3 DEF Launches

LEMMA PlanInvNext ==
    PlanInv /\ [ShardNext]_shardVars => PlanInv'
<1> SUFFICES ASSUME PlanInv, [ShardNext]_shardVars PROVE PlanInv'
  OBVIOUS
<1>1. ASSUME NEW q \in Launches, Launch(q)
      PROVE  PlanInv'
  <2>1. req' = q /\ plan' = Planned[q]
    BY <1>1 DEF Launch
  <2> QED BY <2>1, LaunchesShape DEF PlanInv
<1>2. CASE NewRequest
  BY <1>1, <1>2 DEF NewRequest, Launches
<1>3. CASE Relaunch
  <2>1. Again(req) \in Launches /\ Launch(Again(req))
    BY <1>3, LaunchesShape DEF Relaunch, PlanInv
  <2> QED BY <1>1, <2>1
<1>4. CASE UNCHANGED <<req, plan>>
  BY <1>4 DEF PlanInv
<1>5. CASE Step
  <2>1. UNCHANGED <<req, plan>>
    BY <1>5 DEF Step, Start, Started, PollFailure,
                PollSuccess, Publish, RefuseMerge, Complete
  <2> QED BY <1>4, <2>1
<1>6. CASE \E s \in Shards : Extract(s) \/ Fail(s)
  <2>1. UNCHANGED <<req, plan>>
    BY <1>6 DEF Extract, Open, Refuse, Close, Side,
                Meta, Fail
  <2> QED BY <1>4, <2>1
<1>7. CASE Kill
  <2>1. UNCHANGED <<req, plan>>
    BY <1>7 DEF Kill
  <2> QED BY <1>4, <2>1
<1>8. CASE UNCHANGED shardVars
  <2>1. UNCHANGED <<req, plan>>
    BY <1>8 DEF shardVars
  <2> QED BY <1>4, <2>1
<1> QED BY <1>2, <1>3, <1>5, <1>6, <1>7, <1>8 DEF ShardNext

(* Whatever the source, the request and the devices: a request that can be  *)
(* planned is, and its ranges are the selection in order, none of them      *)
(* empty; batch alignment never runs out of documents for the ranges that   *)
(* follow a cut.                                                            *)
THEOREM PlansAreWhole == ShardSpec => []PlanIsWhole
<1>1. ShardInit => PlanInv
  BY DEF ShardInit, PlanInv
<1>2. PlanInv => PlanIsWhole
  <2> SUFFICES ASSUME PlanInv, req # None, Acceptable(req)
               PROVE  Divides(req, plan)
    BY DEF PlanIsWhole, Divides
  <2>1. req \in Request /\ plan = ShardPlan(req)
    BY LaunchesShape DEF PlanInv
  <2>2. Len(Doc) \in Nat
    BY Sharding
  <2> QED BY <2>1, <2>2, PlanDivides
<1> QED BY <1>1, <1>2, PlanInvNext, PTL DEF ShardSpec

-----------------------------------------------------------------------------
(* Documents: the rows of one lie together when every document of the       *)
(* source has a single end.                                                 *)
LEMMA RowsShape ==
    /\ SourceRows \subseteq Nat
    /\ \A r \in Nat : r \in SourceRows <=> r < Len(Doc)
    /\ \A e \in Ends : /\ e \in Nat /\ e > 0 /\ e - 1 \in SourceRows
                       /\ e \in SourceRows => DocOf(e) # DocOf(e - 1)
    /\ \A r \in SourceRows :
          r + 1 \notin SourceRows \/ DocOf(r + 1) # DocOf(r) => r + 1 \in Ends
<1>1. SourceRows \subseteq Nat /\ \A r \in Nat : r \in SourceRows <=> r < Len(Doc)
  BY DocAssumption DEF SourceRows
<1>2. ASSUME NEW e \in Ends
      PROVE  /\ e \in Nat /\ e > 0 /\ e - 1 \in SourceRows
             /\ e \in SourceRows => DocOf(e) # DocOf(e - 1)
  <2>1. PICK r \in SourceRows :
           /\ e = r + 1
           /\ r + 1 \notin SourceRows \/ DocOf(r + 1) # DocOf(r)
    BY DEF Ends
  <2>2. r \in Nat /\ e - 1 = r /\ e \in Nat /\ e > 0
    BY <1>1, <2>1
  <2> QED BY <2>1, <2>2
<1>3. ASSUME NEW r \in SourceRows,
             r + 1 \notin SourceRows \/ DocOf(r + 1) # DocOf(r)
      PROVE  r + 1 \in Ends
  BY <1>3 DEF Ends
<1> QED BY <1>1, <1>2, <1>3

LEMMA RunEnd ==
    ASSUME Len(Doc) \in Nat, NEW q \in SourceRows
    PROVE  \E e \in Ends :
              e > q /\ \A t \in q..(e - 1) : t \in SourceRows /\ DocOf(t) = DocOf(q)
<1> DEFINE X == {t \in SourceRows : q < t /\ DocOf(t) # DocOf(q)}
<1>0. q \in Nat /\ q < Len(Doc)
  BY RowsShape
<1>1. X \subseteq Nat
  BY RowsShape
<1>2. CASE X = {}
  <2> DEFINE e == Len(Doc)
  <2>1. \A t \in q..(e - 1) : t \in SourceRows /\ DocOf(t) = DocOf(q)
    <3> SUFFICES ASSUME NEW t \in q..(e - 1)
                 PROVE  t \in SourceRows /\ DocOf(t) = DocOf(q)
      OBVIOUS
    <3>1. t \in Nat /\ t < Len(Doc) /\ (t = q \/ q < t)
      BY <1>0
    <3>2. t \in SourceRows
      BY <3>1, RowsShape
    <3> QED BY <1>2, <3>1, <3>2
  <2>2. e - 1 \in Nat /\ (e - 1) + 1 = e /\ e \in Nat /\ ~(e < Len(Doc)) /\ e - 1 < Len(Doc)
    BY <1>0
  <2>3. e - 1 \in SourceRows /\ e \notin SourceRows
    BY <2>2, RowsShape
  <2>4. e \in Ends
    BY <2>2, <2>3, RowsShape
  <2> QED BY <1>0, <2>1, <2>4
<1>3. CASE X # {}
  <2>1. \E e \in X : \A t \in X : e <= t
    BY <1>1, <1>3, Minimum
  <2>2. PICK e \in X : \A t \in X : e <= t
    BY <2>1
  <2>3. e \in Nat /\ q < e /\ e \in SourceRows /\ DocOf(e) # DocOf(q)
    BY <1>1
  <2>4. \A t \in q..(e - 1) : t \in SourceRows /\ DocOf(t) = DocOf(q)
    <3> SUFFICES ASSUME NEW t \in q..(e - 1)
                 PROVE  t \in SourceRows /\ DocOf(t) = DocOf(q)
      OBVIOUS
    <3>1. t \in Nat /\ t < e /\ (t = q \/ q < t)
      BY <1>0, <2>3
    <3>2. e < Len(Doc)
      BY <2>3, RowsShape
    <3>3. t \in SourceRows
      BY <2>3, <3>1, <3>2, RowsShape
    <3>4. t \notin X
      BY <2>2, <2>3, <3>1
    <3> QED BY <3>1, <3>3, <3>4
  <2>5. e - 1 \in q..(e - 1) /\ (e - 1) + 1 = e
    BY <1>0, <2>3
  <2>6. e - 1 \in SourceRows /\ DocOf(e - 1) = DocOf(q)
    BY <2>4, <2>5
  <2>7. e \in Ends
    BY <2>3, <2>5, <2>6, RowsShape
  <2> QED BY <2>3, <2>4, <2>7
<1> QED BY <1>2, <1>3

LEMMA OneEnd ==
    ASSUME Len(Doc) \in Nat, Contiguous,
           NEW e \in Ends, NEW f \in Ends,
           DocOf(e - 1) = DocOf(f - 1)
    PROVE  e = f
<1> DEFINE D == {DocOf(r) : r \in SourceRows}
           last == [g \in Ends |-> DocOf(g - 1)]
<1>1. last \in [Ends -> D]
  BY RowsShape
<1>2. ASSUME NEW c \in D
      PROVE  \E g \in Ends : last[g] = c
  <2>1. PICK q \in SourceRows : c = DocOf(q)
    OBVIOUS
  <2>2. PICK g \in Ends : g > q /\ \A t \in q..(g - 1) : DocOf(t) = DocOf(q)
    BY RunEnd
  <2>3. g - 1 \in q..(g - 1)
    <3>1. g \in Nat /\ q \in Nat
      BY RowsShape
    <3> QED BY <2>2, <3>1
  <2> QED BY <2>1, <2>2, <2>3
<1>3. IsFiniteSet(Ends) /\ Cardinality(Ends) = Cardinality(D)
  BY EndsShape DEF Contiguous
<1> HIDE DEF D, last
<1>4. last \in Surjection(Ends, D)
  BY <1>1, <1>2 DEF Surjection
<1>5. last \in Injection(Ends, D)
  BY <1>3, <1>4, FS_Surjection
<1>6. last[e] = last[f] => e = f
  BY <1>5 DEF Injection, IsInjective
<1> QED BY <1>6 DEF last

LEMMA SameDoc ==
    ASSUME Len(Doc) \in Nat, Contiguous,
           NEW q \in SourceRows, NEW t \in SourceRows, NEW r \in SourceRows,
           q <= t, t <= r, DocOf(q) = DocOf(r)
    PROVE  DocOf(t) = DocOf(q)
<1>1. PICK e \in Ends : e > q /\ \A u \in q..(e - 1) : DocOf(u) = DocOf(q)
  BY RunEnd
<1>2. PICK f \in Ends : f > r /\ \A u \in r..(f - 1) : DocOf(u) = DocOf(r)
  BY RunEnd
<1>3. e \in Nat /\ f \in Nat /\ q \in Nat /\ r \in Nat /\ t \in Nat
  BY RowsShape
<1>4. e - 1 \in q..(e - 1) /\ f - 1 \in r..(f - 1)
  BY <1>1, <1>2, <1>3
<1>5. e = f
  BY <1>1, <1>2, <1>4, OneEnd
<1>6. t \in q..(e - 1)
  BY <1>2, <1>3, <1>5
<1> QED BY <1>1, <1>6

-----------------------------------------------------------------------------
(* What an extractor makes of a range: its rows in order, each among those  *)
(* of its batch; the group of a row is counted by the ends before it.       *)
LEMMA EndsInFinite ==
    ASSUME Len(Doc) \in Nat, NEW from, NEW r
    PROVE  IsFiniteSet(EndsIn(from, r)) /\ Cardinality(EndsIn(from, r)) \in Nat
<1>1. EndsIn(from, r) \subseteq Ends
  BY DEF EndsIn
<1>2. IsFiniteSet(EndsIn(from, r))
  BY <1>1, EndsShape, FS_Subset
<1> QED BY <1>2, FS_CardinalityType

LEMMA GroupShape ==
    ASSUME Len(Doc) \in Nat, Contiguous, NEW from \in Nat, NEW count \in Nat,
           from + count <= Len(Doc), NEW r \in Span(from, count)
    PROVE  GroupOf(Span(from, count), r) = Cardinality(EndsIn(from, r)) + 1
<1> DEFINE S == Span(from, count)
           A == {p \in S : \A t \in S : DocOf(t) = DocOf(r) => p < t}
           D == {DocOf(q) : q \in A}
           E == EndsIn(from, r)
           last == [g \in E |-> DocOf(g - 1)]
<1>1. \A p : p \in S <=> p \in Nat /\ from <= p /\ p < from + count
  BY DEF Span
<1>2. \A p \in S : p \in Nat /\ p \in SourceRows
  BY <1>1, RowsShape
<1>3. r \in S
  OBVIOUS
<1>4. \A e : e \in E <=> e \in Ends /\ from < e /\ e <= r
  BY DEF EndsIn
<1>5. GroupOf(S, r) = Cardinality(D) + 1
  BY DEF GroupOf
<1>6. IsFiniteSet(E)
  BY EndsInFinite
<1> HIDE DEF S, E
<1>7. ASSUME NEW e \in E
      PROVE  e - 1 \in A /\ e \in Ends
  <2>1. /\ e \in Ends /\ e \in Nat /\ e > 0 /\ from < e /\ e <= r
        /\ e - 1 \in SourceRows
    BY <1>4, RowsShape
  <2>2. r \in Nat /\ r < from + count /\ r \in SourceRows /\ from <= r
    BY <1>1, <1>2, <1>3
  <2>3. e - 1 \in S
    BY <1>1, <2>1, <2>2
  <2>4. e \in SourceRows /\ DocOf(e) # DocOf(e - 1)
    <3>1. e < Len(Doc)
      BY <2>1, <2>2
    <3> QED BY <2>1, <3>1, RowsShape
  <2>5. ASSUME NEW t \in S, DocOf(t) = DocOf(r), ~(e - 1 < t)
        PROVE  FALSE
    <3>1. t \in Nat /\ t \in SourceRows /\ t <= e - 1 /\ t <= e /\ e - 1 <= r
      BY <1>2, <2>1, <2>2, <2>5
    <3>2. DocOf(e - 1) = DocOf(t)
      BY <2>1, <2>2, <2>5, <3>1, SameDoc
    <3>3. DocOf(e) = DocOf(t)
      BY <2>1, <2>2, <2>4, <2>5, <3>1, SameDoc
    <3> QED BY <2>4, <3>2, <3>3
  <2> QED BY <2>1, <2>3, <2>5
<1>8. ASSUME NEW q \in A
      PROVE  \E e \in E : last[e] = DocOf(q)
  <2>1. q \in S /\ q \in SourceRows /\ q \in Nat /\ q < r /\ from <= q
    BY <1>1, <1>2, <1>3
  <2>2. PICK e \in Ends : e > q /\ \A t \in q..(e - 1) : DocOf(t) = DocOf(q)
    BY <2>1, RunEnd
  <2>3. e \in Nat /\ r \in Nat
    BY <1>2, <1>3, RowsShape
  <2>4. e <= r
    <3> SUFFICES ASSUME r < e PROVE FALSE
      BY <2>3
    <3>1. r \in q..(e - 1)
      BY <2>1, <2>3
    <3>2. DocOf(q) = DocOf(r)
      BY <2>2, <3>1
    <3>3. q < q
      BY <2>1, <3>2
    <3> QED BY <2>1, <3>3
  <2>5. e \in E
    BY <1>4, <2>1, <2>2, <2>3, <2>4
  <2>6. e - 1 \in q..(e - 1)
    BY <2>1, <2>2, <2>3
  <2> QED BY <2>2, <2>5, <2>6
<1>9. last \in [E -> D]
  BY <1>7
<1>10. \A c \in D : \E e \in E : last[e] = c
  BY <1>8
<1>11. \A e, f \in E : last[e] = last[f] => e = f
  BY <1>7, OneEnd
<1> HIDE DEF D, last, A
<1>12. last \in Surjection(E, D) /\ last \in Injection(E, D)
  BY <1>9, <1>10, <1>11 DEF Surjection, Injection, IsInjective
<1>13. Cardinality(D) = Cardinality(E)
  BY <1>6, <1>12, FS_Surjection
<1> QED BY <1>5, <1>13 DEF S, E

ExtractedRow(from, count, b, r) ==
    [row |-> r,
     among |-> {q \in Span(from, count) :
                   BatchOf(Span(from, count), b, q)
                      = BatchOf(Span(from, count), b, r)}]

LEMMA SpanShape ==
    ASSUME NEW from \in Nat, NEW count \in Nat
    PROVE  /\ \A r : r \in Span(from, count) <=> r \in Nat /\ from <= r /\ r < from + count
           /\ Cardinality(Span(from, count)) = count
           /\ \A r \in Span(from, count) :
                 Cardinality({q \in Span(from, count) : q < r}) = r - from
<1>1. \A r : r \in Span(from, count) <=> r \in Nat /\ from <= r /\ r < from + count
  BY DEF Span
<1>2. \A m \in Nat : Cardinality(from..(from + m - 1)) = m
  <2> SUFFICES ASSUME NEW m \in Nat PROVE Cardinality(from..(from + m - 1)) = m
    OBVIOUS
  <2>1. from \in Int /\ from + m - 1 \in Int
    OBVIOUS
  <2>2. Cardinality(from..(from + m - 1))
          = IF from > from + m - 1 THEN 0 ELSE (from + m - 1) - from + 1
    BY <2>1, FS_Interval
  <2> QED BY <2>2
<1>3. ASSUME NEW r \in Span(from, count)
      PROVE  Cardinality({q \in Span(from, count) : q < r}) = r - from
  <2>1. r \in Nat /\ r - from \in Nat /\ from + (r - from) - 1 = r - 1 /\ r < from + count
    BY <1>1
  <2>2. {q \in Span(from, count) : q < r} = from..(r - 1)
    BY <1>1, <2>1
  <2>3. Cardinality(from..(from + (r - from) - 1)) = r - from
    BY <1>2, <2>1
  <2> QED BY <2>1, <2>2, <2>3
<1> QED BY <1>1, <1>2, <1>3 DEF Span

LEMMA GroupOrder ==
    ASSUME Len(Doc) \in Nat, Contiguous, NEW from \in Nat, NEW count \in Nat,
           from + count <= Len(Doc), NEW q \in Span(from, count),
           NEW r \in Span(from, count), q <= r
    PROVE  /\ GroupOf(Span(from, count), q) \in Nat
           /\ GroupOf(Span(from, count), r) \in Nat
           /\ GroupOf(Span(from, count), q)
                 <= GroupOf(Span(from, count), r)
<1>1. q \in Nat /\ r \in Nat
  BY SpanShape
<1>2. EndsIn(from, q) \subseteq EndsIn(from, r)
  <2> SUFFICES ASSUME NEW e \in EndsIn(from, q) PROVE e \in EndsIn(from, r)
    OBVIOUS
  <2>1. e \in Ends /\ from < e /\ e <= q /\ e \in Nat
    BY EndsShape DEF EndsIn
  <2> QED BY <1>1, <2>1 DEF EndsIn
<1>3. IsFiniteSet(EndsIn(from, r)) /\ Cardinality(EndsIn(from, r)) \in Nat
      /\ Cardinality(EndsIn(from, q)) \in Nat
  BY EndsInFinite
<1>4. Cardinality(EndsIn(from, q)) <= Cardinality(EndsIn(from, r))
  BY <1>2, <1>3, FS_Subset
<1>5. /\ GroupOf(Span(from, count), q) = Cardinality(EndsIn(from, q)) + 1
      /\ GroupOf(Span(from, count), r) = Cardinality(EndsIn(from, r)) + 1
  BY GroupShape
<1> QED BY <1>3, <1>4, <1>5

LEMMA ExtractedShape ==
    ASSUME Len(Doc) \in Nat, Contiguous, NEW from \in Nat, NEW count \in Nat,
           from + count <= Len(Doc), NEW b
    PROVE  Extracted(Span(from, count), b)
              = [i \in 1..count |-> ExtractedRow(from, count, b, from + i - 1)]
<1> DEFINE S == Span(from, count)
           G(r) == GroupOf(S, r)
           before(q, r) == G(q) < G(r) \/ (G(q) = G(r) /\ q < r)
           n == Cardinality(S)
           order == [i \in 1..n |->
                        CHOOSE r \in S : Cardinality({q \in S : before(q, r)}) = i - 1]
<1>1. Extracted(S, b)
        = [i \in 1..n |->
              [row |-> order[i],
               among |-> {q \in S : BatchOf(S, b, q) = BatchOf(S, b, order[i])}]]
  BY DEF Extracted
<1>2. n = count
  BY SpanShape
<1>3. \A r \in S : r \in Nat /\ from <= r /\ r < from + count
  BY SpanShape
<1>4. \A q, r \in S : q <= r => G(q) \in Nat /\ G(r) \in Nat /\ G(q) <= G(r)
  BY GroupOrder
<1>5. ASSUME NEW r \in S
      PROVE  Cardinality({q \in S : before(q, r)}) = r - from
  <2>1. ASSUME NEW q \in S
        PROVE  before(q, r) <=> q < r
    <3>1. q \in Nat /\ r \in Nat
      BY <1>3
    <3>2. q <= r => G(q) \in Nat /\ G(r) \in Nat /\ G(q) <= G(r)
      BY <1>4
    <3>3. r <= q => G(q) \in Nat /\ G(r) \in Nat /\ G(r) <= G(q)
      BY <1>4
    <3> HIDE DEF G
    <3> QED BY <3>1, <3>2, <3>3
  <2>2. {q \in S : before(q, r)} = {q \in S : q < r}
    BY <2>1
  <2>3. Cardinality({q \in S : q < r}) = r - from
    BY SpanShape
  <2> QED BY <2>2, <2>3
<1> HIDE DEF G, before
<1>6. ASSUME NEW i \in 1..count
      PROVE  order[i] = from + i - 1
  <2>1. from + i - 1 \in S /\ (from + i - 1) - from = i - 1
    BY SpanShape
  <2>2. ASSUME NEW r \in S
        PROVE  Cardinality({q \in S : before(q, r)}) = i - 1 <=> r = from + i - 1
    <3>1. r \in Nat /\ i \in Nat
      BY <1>3
    <3>2. r - from = i - 1 <=> r = from + i - 1
      BY <3>1
    <3> QED BY <1>5, <3>2
  <2>3. order[i] = CHOOSE r \in S : Cardinality({q \in S : before(q, r)}) = i - 1
    BY <1>2
  <2> HIDE DEF order, S
  <2> QED BY <2>1, <2>2, <2>3
<1> HIDE DEF order, n
<1>7. \A i \in 1..count :
         [row |-> order[i],
          among |-> {q \in S : BatchOf(S, b, q) = BatchOf(S, b, order[i])}]
            = ExtractedRow(from, count, b, from + i - 1)
  BY <1>6 DEF ExtractedRow
<1> QED BY <1>1, <1>2, <1>7

(* Groups of a range that follows whole batches are those of the selection, *)
(* so many batches further.                                                 *)
LEMMA DivShift ==
    ASSUME NEW b \in Positive, NEW m \in Nat, NEW x \in Nat
    PROVE  (m * b + x) \div b = m + (x \div b) /\ x \div b \in Nat
<1>1. x \div b \in Nat /\ x % b \in 0..(b - 1) /\ x = b * (x \div b) + (x % b)
  BY DivMod
<1> DEFINE c == x \div b
           r == x % b
<1> HIDE DEF c, r
<1>2. c \in Nat /\ r \in 0..(b - 1) /\ x = b * c + r
  BY <1>1 DEF c, r
<1>3. b \in Nat /\ m * b + x = b * (m + c) + r /\ m + c \in Nat
  BY <1>2 DEF Positive
<1>4. (b * (m + c) + r) \div b = m + c
  BY <1>2, <1>3, MulMod
<1> QED BY <1>1, <1>3, <1>4 DEF c

LEMMA DivOrder ==
    ASSUME NEW b \in Positive, NEW m \in Nat, NEW x \in Nat
    PROVE  /\ x < m * b => x \div b < m
           /\ x >= m * b => x \div b >= m
<1>1. x \div b \in Nat /\ x % b \in 0..(b - 1) /\ x = b * (x \div b) + (x % b)
  BY DivMod
<1> DEFINE c == x \div b
           r == x % b
<1> HIDE DEF c, r
<1>2. c \in Nat /\ r \in Nat /\ r < b /\ x = b * c + r /\ b \in Nat /\ b > 0
  BY <1>1 DEF c, r, Positive
<1>3. c >= m => b * c >= m * b
  BY <1>2
<1>4. c + 1 <= m => b * c + b <= m * b
  BY <1>2
<1>5. c >= m \/ c + 1 <= m
  BY <1>2
<1>6. b * c \in Nat /\ m * b \in Nat
  BY <1>2
<1> QED BY <1>2, <1>3, <1>4, <1>5, <1>6 DEF c

LEMMA EndsAdd ==
    ASSUME Len(Doc) \in Nat, NEW start \in Nat, NEW from \in Nat, NEW r \in Nat,
           start <= from, from <= r
    PROVE  Cardinality(EndsIn(start, r)) = Cardinality(EndsIn(start, from)) + Cardinality(EndsIn(from, r))
<1>1. \A e \in Ends : e \in Nat
  BY EndsShape
<1>2. EndsIn(start, r) = EndsIn(start, from) \cup EndsIn(from, r)
  BY <1>1 DEF EndsIn
<1>3. EndsIn(start, from) \cap EndsIn(from, r) = {}
  BY <1>1 DEF EndsIn
<1>4. IsFiniteSet(EndsIn(start, from)) /\ IsFiniteSet(EndsIn(from, r))
  BY EndsInFinite
<1>5. /\ Cardinality(EndsIn(start, from)) \in Nat /\ Cardinality(EndsIn(from, r)) \in Nat
      /\ Cardinality({}) = 0
  BY EndsInFinite, FS_EmptySet
<1>6. Cardinality(EndsIn(start, from) \cup EndsIn(from, r))
        = Cardinality(EndsIn(start, from)) + Cardinality(EndsIn(from, r))
            - Cardinality(EndsIn(start, from) \cap EndsIn(from, r))
  BY <1>4, FS_Union
<1> DEFINE x == Cardinality(EndsIn(start, from))
           y == Cardinality(EndsIn(from, r))
<1>7. x \in Nat /\ y \in Nat /\ Cardinality(EndsIn(start, r)) = x + y - 0
  BY <1>2, <1>3, <1>5, <1>6
<1> HIDE DEF x, y
<1>8. x + y - 0 = x + y
  BY <1>7
<1> QED BY <1>7, <1>8 DEF x, y

(* A range between whole batches is extracted as in the selection.          *)
LEMMA BatchesKept ==
    ASSUME Len(Doc) \in Nat, Contiguous, NEW start \in Nat, NEW limit \in Nat,
           start + limit <= Len(Doc), NEW b \in Positive, NEW from \in Nat, NEW to \in Nat,
           start <= from, from < to, to <= start + limit,
           from = start \/ from \in Ends,
           WholeBatches(start, from, b),
           to = start + limit \/ WholeBatches(start, to, b),
           to \in Ends,
           NEW r \in Span(from, to - from)
    PROVE  ExtractedRow(from, to - from, b, r) = ExtractedRow(start, limit, b, r)
<1> DEFINE S == Span(start, limit)
           P == Span(from, to - from)
           N(q) == Cardinality(EndsIn(start, q))
           M(q) == Cardinality(EndsIn(from, q))
<1>1. /\ to - from \in Nat /\ from + (to - from) = to /\ to <= Len(Doc)
      /\ \A q : q \in S <=> q \in Nat /\ start <= q /\ q < start + limit
      /\ \A q : q \in P <=> q \in Nat /\ from <= q /\ q < to
  <2>1. to - from \in Nat /\ from + (to - from) = to /\ to <= Len(Doc)
    OBVIOUS
  <2> QED BY <2>1, SpanShape
<1>2. P \subseteq S /\ r \in P /\ r \in S
  BY <1>1
<1>3. PICK m \in Nat : N(from) = m * b
  BY DEF WholeBatches
<1>4. \A q : N(q) \in Nat /\ M(q) \in Nat
  BY EndsInFinite
<1>5. ASSUME NEW q \in P
      PROVE  /\ BatchOf(P, b, q) = M(q) \div b
             /\ BatchOf(S, b, q) = m + (M(q) \div b)
             /\ M(q) \div b \in Nat
  <2>1. GroupOf(P, q) = M(q) + 1
    BY <1>1, GroupShape
  <2>2. GroupOf(S, q) = N(q) + 1
    BY <1>2, GroupShape
  <2>3. N(q) = m * b + M(q)
    <3>1. q \in Nat /\ from <= q
      BY <1>1
    <3>2. N(q) = N(from) + M(q)
      BY <3>1, EndsAdd
    <3> QED BY <1>3, <3>2
  <2>4. (M(q) + 1) - 1 = M(q) /\ (N(q) + 1) - 1 = N(q)
    BY <1>4
  <2>5. (m * b + M(q)) \div b = m + (M(q) \div b) /\ M(q) \div b \in Nat
    BY <1>4, DivShift
  <2> HIDE DEF P, S, M, N
  <2>6. BatchOf(P, b, q) = M(q) \div b
    BY <2>1, <2>4 DEF BatchOf
  <2>7. BatchOf(S, b, q) = N(q) \div b
    BY <2>2, <2>4 DEF BatchOf
  <2> QED BY <2>3, <2>5, <2>6, <2>7
<1>6. ASSUME NEW q \in S, q \notin P
      PROVE  BatchOf(S, b, q) # BatchOf(S, b, r)
  <2>a. (N(q) + 1) - 1 = N(q) /\ (N(r) + 1) - 1 = N(r)
    <3>1. N(q) \in Nat /\ N(r) \in Nat
      BY <1>4
    <3> HIDE DEF N
    <3> QED BY <3>1
  <2>b. GroupOf(S, q) = N(q) + 1
    BY <1>6, GroupShape
  <2>c. GroupOf(S, r) = N(r) + 1
    BY <1>2, GroupShape
  <2>1. GroupOf(S, q) = N(q) + 1 /\ (N(q) + 1) - 1 = N(q)
        /\ GroupOf(S, r) = N(r) + 1 /\ (N(r) + 1) - 1 = N(r)
    BY <2>a, <2>b, <2>c
  <2>2. BatchOf(S, b, q) = N(q) \div b /\ BatchOf(S, b, r) = N(r) \div b
    <3> HIDE DEF S, N
    <3> QED BY <2>1 DEF BatchOf
  <2>3. /\ q \in Nat /\ r \in Nat /\ from <= r /\ r < to /\ start <= q /\ q < start + limit
        /\ (q < from \/ q >= to) /\ start <= r
    BY <1>1, <1>2, <1>6
  <2>4. N(q) \in Nat /\ N(r) \in Nat /\ N(q) \div b \in Nat /\ N(r) \div b \in Nat
    BY <1>4, DivMod
  <2>5. CASE q < from
    <3>1. from \in Ends
      BY <2>3, <2>5
    <3>2. N(from) = N(q) + Cardinality(EndsIn(q, from))
      BY <2>3, <2>5, EndsAdd
    <3>3. from \in EndsIn(q, from)
      BY <2>5, <3>1 DEF EndsIn
    <3>4. Cardinality(EndsIn(q, from)) # 0 /\ Cardinality(EndsIn(q, from)) \in Nat
      BY <3>3, EndsInFinite, FS_EmptySet
    <3>5. N(q) < m * b
      BY <1>3, <2>4, <3>2, <3>4
    <3>6. N(q) \div b < m
      BY <2>4, <3>5, DivOrder
    <3>7. N(r) \div b >= m
      BY <1>2, <1>5, <2>2, <2>4
    <3> HIDE DEF N
    <3> QED BY <2>2, <2>4, <3>6, <3>7
  <2>6. CASE q >= to
    <3>1. PICK l \in Nat : N(to) = l * b
      BY <2>3, <2>6 DEF WholeBatches
    <3>2. N(q) = N(to) + Cardinality(EndsIn(to, q)) /\ Cardinality(EndsIn(to, q)) \in Nat
      BY <2>3, <2>6, EndsAdd, EndsInFinite
    <3>3. N(to) = N(r) + Cardinality(EndsIn(r, to))
      BY <2>3, EndsAdd
    <3>4. to \in EndsIn(r, to)
      BY <2>3 DEF EndsIn
    <3>5. Cardinality(EndsIn(r, to)) # 0 /\ Cardinality(EndsIn(r, to)) \in Nat
      BY <3>4, EndsInFinite, FS_EmptySet
    <3>6. N(r) < l * b /\ N(q) >= l * b
      <4> DEFINE u == Cardinality(EndsIn(r, to))
                 w == Cardinality(EndsIn(to, q))
      <4>1. /\ N(to) \in Nat /\ N(r) \in Nat /\ u \in Nat /\ w \in Nat /\ u # 0
            /\ N(to) = l * b /\ N(q) = N(to) + w /\ N(to) = N(r) + u
        BY <1>4, <3>1, <3>2, <3>3, <3>5
      <4> HIDE DEF N, u, w
      <4> QED BY <4>1
    <3>7. N(r) \div b < l /\ N(q) \div b >= l
      BY <2>4, <3>6, DivOrder
    <3> HIDE DEF N
    <3> QED BY <2>2, <2>4, <3>7
  <2> QED BY <2>3, <2>5, <2>6
<1>7. ASSUME NEW q \in P
      PROVE  BatchOf(P, b, q) = BatchOf(P, b, r)
                <=> BatchOf(S, b, q) = BatchOf(S, b, r)
  BY <1>2, <1>5
<1> HIDE DEF S, P
<1>8. {q \in P : BatchOf(P, b, q) = BatchOf(P, b, r)}
        = {q \in S : BatchOf(S, b, q) = BatchOf(S, b, r)}
  BY <1>2, <1>6, <1>7
<1> QED BY <1>8 DEF ExtractedRow, S, P

-----------------------------------------------------------------------------
(* Joining pieces.  Flattening and summing are defined by recursion over    *)
(* the pieces; what they yield is checked piece by piece.                   *)
LEMMA EdgesOrder ==
    ASSUME NEW q, NEW n \in Nat, NEW edge, Edges(q, n, edge),
           NEW i \in 0..n, NEW j \in 0..n, i <= j
    PROVE  edge[i] <= edge[j] /\ edge[i] \in Nat /\ edge[j] \in Nat
<1> DEFINE X == {k \in i..n : edge[k] < edge[i]}
<1>1. \A k \in 0..n : edge[k] \in Nat
  BY DEF Edges
<1>2. X = {}
  <2> SUFFICES ASSUME X # {} PROVE FALSE
    OBVIOUS
  <2>1. X \subseteq Nat
    OBVIOUS
  <2>2. \E k \in X : \A l \in X : k <= l
    BY <2>1, Minimum
  <2>3. PICK k \in X : \A l \in X : k <= l
    BY <2>2
  <2>4. k \in 0..n /\ k # i /\ edge[k] < edge[i]
    BY <1>1
  <2>5. k - 1 \in i..n /\ k \in 1..n /\ k - 1 \in 0..n /\ ~(k <= k - 1)
    BY <2>4
  <2>6. ~(edge[k - 1] < edge[i])
    BY <2>3, <2>5
  <2>7. edge[k - 1] < edge[k]
    BY <2>5 DEF Edges
  <2>8. edge[k - 1] \in Nat /\ edge[k] \in Nat /\ edge[i] \in Nat
    BY <1>1, <2>4, <2>5
  <2> QED BY <2>4, <2>6, <2>7, <2>8
<1>3. ~(edge[j] < edge[i])
  BY <1>2
<1> QED BY <1>1, <1>3

(* The cut pieces of a sequence make up the sequence.                       *)
Slice(H, a, c) == [j \in 1..(c - a) |-> H[a + j]]
Beginning(H, m) == [j \in 1..m |-> H[j]]
Cut(H, n, at) == [k \in 1..n |-> Slice(H, at[k - 1], at[k])]

LEMMA JoinNext ==
    ASSUME NEW T, NEW a \in Nat, NEW c \in Nat, a <= c, NEW H \in [1..c -> T]
    PROVE  Beginning(H, a) \o Slice(H, a, c) = Beginning(H, c)
<1> DEFINE s == Beginning(H, a)
           t == Slice(H, a, c)
           u == Beginning(H, c)
<1>1. c - a \in Nat
  OBVIOUS
<1>2. s \in [1..a -> T] /\ t \in [1..(c - a) -> T] /\ u \in [1..c -> T]
  BY DEF Beginning, Slice
<1>3. \A i \in 1..c : u[i] = H[i] /\ (i <= a => s[i] = H[i]) /\ (~(i <= a) => t[i - a] = H[i])
  <2> SUFFICES ASSUME NEW i \in 1..c
               PROVE  u[i] = H[i] /\ (i <= a => s[i] = H[i]) /\ (~(i <= a) => t[i - a] = H[i])
    OBVIOUS
  <2>1. ~(i <= a) => i - a \in 1..(c - a) /\ a + (i - a) = i
    OBVIOUS
  <2> QED BY <2>1 DEF Beginning, Slice
<1> HIDE DEF s, t, u
<1>4. s \in Seq(T) /\ Len(s) = a /\ t \in Seq(T) /\ Len(t) = c - a
  BY <1>1, <1>2, LengthIs
<1>5. /\ s \o t \in Seq(T) /\ Len(s \o t) = Len(s) + Len(t)
      /\ \A i \in 1..(Len(s) + Len(t)) : (s \o t)[i] = IF i <= Len(s) THEN s[i] ELSE t[i - Len(s)]
  BY <1>4, ConcatProperties
<1>6. Len(s) + Len(t) = c
  BY <1>4
<1>7. \A i \in 1..c : (s \o t)[i] = u[i]
  BY <1>3, <1>4, <1>5, <1>6
<1>8. DOMAIN (s \o t) = 1..c /\ s \o t = [i \in 1..c |-> (s \o t)[i]]
  <2>1. s \o t \in [1..Len(s \o t) -> T]
    BY <1>5, LenProperties
  <2> QED BY <1>5, <1>6, <2>1
<1>9. u = [i \in 1..c |-> u[i]]
  BY <1>2
<1>10. s \o t = u
  BY <1>7, <1>8, <1>9
<1> QED BY <1>10 DEF s, t, u

JoinsTo(f, P) == f = [i \in 1..Len(P) |-> IF i = 1 THEN P[i] ELSE f[i - 1] \o P[i]]

LEMMA FlattenCut ==
    ASSUME NEW T, NEW n \in Nat, n >= 1, NEW q, NEW at, Edges(q, n, at), at[0] = 0,
           NEW H \in [1..at[n] -> T]
    PROVE  FlattenSeq(Cut(H, n, at)) = H
<1> DEFINE P == Cut(H, n, at)
           f == CHOOSE f : JoinsTo(f, P)
           g == [k \in 1..n |-> Beginning(H, at[k])]
           U == [1..n -> Seq(T)]
<1>0. \A k \in 1..n : /\ k \in 0..n /\ k - 1 \in 0..n /\ at[k - 1] \in Nat /\ at[k] \in Nat
                      /\ at[k - 1] < at[k] /\ at[k] <= at[n]
  <2> SUFFICES ASSUME NEW k \in 1..n
               PROVE  /\ k \in 0..n /\ k - 1 \in 0..n /\ at[k - 1] \in Nat /\ at[k] \in Nat
                      /\ at[k - 1] < at[k] /\ at[k] <= at[n]
    OBVIOUS
  <2>1. k \in 0..n /\ k - 1 \in 0..n /\ n \in 0..n /\ k <= n
    OBVIOUS
  <2> QED BY <2>1, EdgesOrder DEF Edges
<1>1. \A k \in 1..n : P[k] = Slice(H, at[k - 1], at[k])
  BY DEF Cut
<1>2. Len(P) = n /\ DOMAIN P = 1..n
  <2>1. P \in [1..n -> {P[k] : k \in 1..n}]
    BY DEF Cut
  <2> QED BY <2>1, LengthIs
<1>3. at[n] \in Nat
  BY <1>0
<1>4. ASSUME NEW k \in 1..n
      PROVE  g[k] = IF k = 1 THEN P[k] ELSE g[k - 1] \o P[k]
  <2>1. CASE k = 1
    <3>1. at[1] - at[0] = at[1] /\ \A j \in 1..at[1] : at[0] + j = j
      BY <1>0, <2>1
    <3>2. P[1] = [j \in 1..(at[1] - at[0]) |-> H[at[0] + j]]
      BY <1>1, <2>1 DEF Slice
    <3>3. P[1] = Beginning(H, at[1])
      BY <3>1, <3>2 DEF Beginning
    <3> QED BY <2>1, <3>3
  <2>2. CASE k # 1
    <3>1. k - 1 \in 1..n /\ g[k - 1] = Beginning(H, at[k - 1]) /\ g[k] = Beginning(H, at[k])
      BY <2>2
    <3> DEFINE h == Beginning(H, at[k])
    <3>2. h \in [1..at[k] -> T]
      BY <1>0, <1>3 DEF Beginning
    <3>3. Beginning(h, at[k - 1]) \o Slice(h, at[k - 1], at[k]) = Beginning(h, at[k])
      <4>1. at[k - 1] \in Nat /\ at[k] \in Nat /\ at[k - 1] <= at[k]
        BY <1>0
      <4> HIDE DEF h
      <4> QED BY <3>2, <4>1, JoinNext
    <3>4. Beginning(h, at[k - 1]) = Beginning(H, at[k - 1]) /\ Beginning(h, at[k]) = Beginning(H, at[k])
      BY <1>0 DEF Beginning
    <3>5. Slice(h, at[k - 1], at[k]) = Slice(H, at[k - 1], at[k])
      BY <1>0 DEF Beginning, Slice
    <3>6. Slice(h, at[k - 1], at[k]) = P[k]
      BY <1>1, <3>5
    <3> HIDE DEF g, P, h
    <3> QED BY <2>2, <3>1, <3>3, <3>4, <3>6
  <2> QED BY <2>1, <2>2
<1>5. g = [k \in 1..n |-> g[k]]
  OBVIOUS
<1> HIDE DEF g, P
<1>6. g = [k \in 1..n |-> IF k = 1 THEN P[k] ELSE g[k - 1] \o P[k]]
  BY <1>4, <1>5
<1>7. JoinsTo(g, P)
  BY <1>2, <1>6 DEF JoinsTo
<1>8. JoinsTo(f, P)
  BY <1>7
<1> HIDE DEF f
<1>9. \A k \in 1..n : f[k] = IF k = 1 THEN P[k] ELSE f[k - 1] \o P[k]
  BY <1>2, <1>8 DEF JoinsTo
<1> DEFINE X == {k \in 1..n : f[k] # g[k]}
<1>10. X = {}
  <2> SUFFICES ASSUME X # {} PROVE FALSE
    OBVIOUS
  <2>1. X \subseteq Nat
    OBVIOUS
  <2>2. \E k \in X : \A l \in X : k <= l
    BY <2>1, Minimum
  <2>3. PICK k \in X : \A l \in X : k <= l
    BY <2>2
  <2>4. k \in 1..n /\ k # 1 /\ f[k] # g[k]
    BY <1>4, <1>9
  <2>5. k - 1 \in 1..n /\ ~(k <= k - 1)
    BY <2>4
  <2>6. f[k - 1] = g[k - 1]
    BY <2>3, <2>5
  <2> QED BY <1>4, <1>9, <2>4, <2>6
<1>11. f[n] = g[n]
  BY <1>10
<1>12. g[n] = H
  BY <1>3 DEF g, Beginning
<1>13. FlattenSeq(P) = f[n]
  <2>1. FlattenSeq(P) = IF Len(P) = 0 THEN P ELSE f[Len(P)]
    BY DEF FlattenSeq, f, JoinsTo
  <2> QED BY <1>2, <2>1
<1> QED BY <1>11, <1>12, <1>13 DEF P

(* The number of rows the merge expects is that of the selection.           *)
TotalsTo(f, p) == f = [s \in 0..Len(p) |-> IF s = 0 THEN 0 ELSE f[s - 1] + p[s].count]

LEMMA ExpectedIs ==
    ASSUME NEW n \in Nat, NEW q, NEW edge, Edges(q, n, edge), q.start \in Nat, q.limit \in Nat,
           plan = Between(n, edge), Len(plan) = n
    PROVE  ExpectedRows = q.limit
<1> DEFINE f == CHOOSE f : TotalsTo(f, plan)
           g == [s \in 0..n |-> edge[s] - q.start]
<1>1. \A s \in 0..n : edge[s] \in Nat
  BY DEF Edges
<1>2. ASSUME NEW s \in 0..n
      PROVE  g[s] = IF s = 0 THEN 0 ELSE g[s - 1] + plan[s].count
  <2>1. CASE s = 0
    BY <2>1 DEF Edges
  <2>2. CASE s # 0
    <3>1. s \in 1..n /\ s - 1 \in 0..n /\ edge[s] \in Nat /\ edge[s - 1] \in Nat
      BY <1>1, <2>2
    <3>2. plan[s].count = edge[s] - edge[s - 1]
      BY <3>1 DEF Between, Piece
    <3> QED BY <2>2, <3>1, <3>2
  <2> QED BY <2>1, <2>2
<1>3. g = [s \in 0..n |-> g[s]]
  OBVIOUS
<1> HIDE DEF g
<1>4. TotalsTo(g, plan)
  BY <1>2, <1>3 DEF TotalsTo
<1>5. TotalsTo(f, plan)
  BY <1>4
<1> HIDE DEF f
<1>6. \A s \in 0..n : f[s] = IF s = 0 THEN 0 ELSE f[s - 1] + plan[s].count
  BY <1>5 DEF TotalsTo
<1> DEFINE X == {s \in 0..n : f[s] # g[s]}
<1>7. X = {}
  <2> SUFFICES ASSUME X # {} PROVE FALSE
    OBVIOUS
  <2>1. X \subseteq Nat
    OBVIOUS
  <2>2. \E k \in X : \A l \in X : k <= l
    BY <2>1, Minimum
  <2>3. PICK k \in X : \A l \in X : k <= l
    BY <2>2
  <2>4. k \in 0..n /\ k # 0 /\ f[k] # g[k]
    BY <1>2, <1>6
  <2>5. k - 1 \in 0..n /\ ~(k <= k - 1)
    BY <2>4
  <2>6. f[k - 1] = g[k - 1]
    BY <2>3, <2>5
  <2> QED BY <1>2, <1>6, <2>4, <2>6
<1>8. f[n] = g[n] /\ g[n] = q.limit
  <2>1. edge[n] = q.start + q.limit /\ n \in 0..n
    BY DEF Edges
  <2>2. g[n] = edge[n] - q.start
    BY <2>1 DEF g
  <2>3. f[n] = g[n]
    BY <1>7, <2>1
  <2> QED BY <2>1, <2>2, <2>3
<1>9. ExpectedRows = f[n]
  BY DEF ExpectedRows, f, TotalsTo
<1> QED BY <1>8, <1>9

(* Every row of the selection lies in one range.                            *)
LEMMA HolderShape ==
    ASSUME NEW n \in Nat, n >= 1, NEW q, q.start \in Nat, q.limit \in Nat, NEW edge, Edges(q, n, edge),
           NEW r \in Nat, q.start <= r, r < q.start + q.limit
    PROVE  /\ \E k \in 1..n : edge[k - 1] <= r /\ r < edge[k]
           /\ \A k, l \in 1..n :
                 edge[k - 1] <= r /\ r < edge[k] /\ edge[l - 1] <= r /\ r < edge[l] => k = l
<1> DEFINE X == {k \in 0..n : r < edge[k]}
<1>1. /\ \A k \in 0..n : edge[k] \in Nat
      /\ edge[0] = q.start /\ edge[n] = q.start + q.limit
  BY DEF Edges
<1>2. n \in X /\ X \subseteq Nat
  BY <1>1
<1>3. \E k \in X : \A l \in X : k <= l
  BY <1>2, Minimum
<1>4. PICK k \in X : \A l \in X : k <= l
  BY <1>3
<1>5. k \in 0..n /\ r < edge[k] /\ k # 0
  BY <1>1
<1>6. k \in 1..n /\ k - 1 \in 0..n /\ ~(k <= k - 1)
  BY <1>5
<1>7. edge[k - 1] <= r
  <2>1. ~(r < edge[k - 1])
    BY <1>4, <1>6
  <2> QED BY <1>1, <1>6, <2>1
<1>8. ASSUME NEW i \in 1..n, NEW j \in 1..n, edge[i - 1] <= r, r < edge[i], edge[j - 1] <= r, r < edge[j],
             i < j
      PROVE  FALSE
  <2>1. i \in 0..n /\ j - 1 \in 0..n /\ i <= j - 1
    BY <1>8
  <2>2. edge[i] <= edge[j - 1] /\ edge[i] \in Nat /\ edge[j - 1] \in Nat
    BY <2>1, EdgesOrder
  <2> QED BY <1>8, <2>2
<1>9. \A i, j \in 1..n : i < j \/ j < i \/ i = j
  OBVIOUS
<1>10. \A i, j \in 1..n :
          edge[i - 1] <= r /\ r < edge[i] /\ edge[j - 1] <= r /\ r < edge[j] => i = j
  <2> SUFFICES ASSUME NEW i \in 1..n, NEW j \in 1..n, edge[i - 1] <= r, r < edge[i],
                      edge[j - 1] <= r, r < edge[j]
               PROVE  i = j
    OBVIOUS
  <2>1. ~(i < j)
    BY <1>8
  <2>2. ~(j < i)
    BY <1>8
  <2> QED BY <1>9, <2>1, <2>2
<1> QED BY <1>5, <1>6, <1>7, <1>10

(* Sequences laid end to end have the length of their cuts.                 *)
LEMMA FromZero ==
    ASSUME NEW n \in Nat, n >= 1, NEW q, q.start \in Nat, q.limit \in Nat, NEW edge, Edges(q, n, edge),
           NEW at, at = [k \in 0..n |-> edge[k] - q.start]
    PROVE  /\ Edges([start |-> 0, limit |-> q.limit], n, at)
           /\ \A k \in 1..n : at[k] - at[k - 1] = edge[k] - edge[k - 1]
<1>1. /\ edge[0] = q.start /\ edge[n] = q.start + q.limit /\ 0 \in 0..n /\ n \in 0..n
      /\ \A k \in 0..n : edge[k] \in Nat /\ q.start <= edge[k]
  <2>1. ASSUME NEW k \in 0..n PROVE edge[k] \in Nat /\ edge[0] <= edge[k]
    <3>1. 0 \in 0..n /\ 0 <= k
      OBVIOUS
    <3> QED BY <3>1, EdgesOrder
  <2> QED BY <2>1 DEF Edges
<1>2. \A k \in 0..n : at[k] \in Nat /\ at[k] = edge[k] - q.start
  BY <1>1
<1>3. at[0] = 0 /\ at[n] = q.limit
  BY <1>1, <1>2
<1>4. ASSUME NEW k \in 1..n
      PROVE  at[k - 1] < at[k] /\ at[k] - at[k - 1] = edge[k] - edge[k - 1]
  <2>1. /\ k \in 0..n /\ k - 1 \in 0..n /\ edge[k - 1] \in Nat /\ edge[k] \in Nat
        /\ edge[k - 1] < edge[k]
    BY <1>1 DEF Edges
  <2>2. at[k - 1] = edge[k - 1] - q.start /\ at[k] = edge[k] - q.start
    BY <1>2, <2>1
  <2> QED BY <2>1, <2>2
<1>5. at \in [0..n -> Nat]
  <2>1. at = [k \in 0..n |-> at[k]]
    OBVIOUS
  <2> QED BY <1>2, <2>1
<1> DEFINE z == [start |-> 0, limit |-> q.limit]
<1>6. z.start = 0 /\ z.start + z.limit = q.limit
  OBVIOUS
<1> HIDE DEF z
<1>7. Edges(z, n, at)
  BY <1>3, <1>4, <1>5, <1>6 DEF Edges
<1> QED BY <1>4, <1>7 DEF z

LaidOut(P, n, at) ==
    /\ P = [k \in 1..n |-> P[k]]
    /\ \A k \in 1..n : P[k] = [j \in 1..(at[k] - at[k - 1]) |-> P[k][j]]

LEMMA FlattenLength ==
    ASSUME NEW n \in Nat, n >= 1, NEW L \in Nat, NEW at, Edges([start |-> 0, limit |-> L], n, at),
           NEW P, LaidOut(P, n, at)
    PROVE  Len(FlattenSeq(P)) = L
<1> DEFINE Holder(r) == CHOOSE k \in 1..n : at[k - 1] <= r /\ r < at[k]
           H == [i \in 1..L |-> P[Holder(i - 1)][i - at[Holder(i - 1) - 1]]]
           T == {H[i] : i \in 1..L}
<1>1. at[0] = 0 /\ at[n] = L
  BY DEF Edges
<1>2. ASSUME NEW r \in Nat, r < L, NEW k \in 1..n, at[k - 1] <= r, r < at[k]
      PROVE  Holder(r) = k
  <2>1. \A i, j \in 1..n : at[i - 1] <= r /\ r < at[i] /\ at[j - 1] <= r /\ r < at[j] => i = j
    <3> DEFINE q == [start |-> 0, limit |-> L]
    <3>1. q.start \in Nat /\ q.limit \in Nat /\ q.start <= r /\ r < q.start + q.limit
      BY <1>2
    <3>2. Edges(q, n, at)
      OBVIOUS
    <3> HIDE DEF q
    <3> QED BY <3>1, <3>2, HolderShape
  <2>2. Holder(r) \in 1..n /\ at[Holder(r) - 1] <= r /\ r < at[Holder(r)]
    BY <1>2
  <2> HIDE DEF Holder
  <2> QED BY <1>2, <2>1, <2>2
<1>3. ASSUME NEW k \in 1..n PROVE P[k] = Slice(H, at[k - 1], at[k])
  <2>1. /\ at[k - 1] \in Nat /\ at[k] \in Nat /\ at[k - 1] < at[k] /\ at[k] <= L
    <3>1. k \in 0..n /\ k - 1 \in 0..n /\ n \in 0..n /\ k <= n
      OBVIOUS
    <3> QED BY <1>1, <3>1, EdgesOrder DEF Edges
  <2>2. ASSUME NEW j \in 1..(at[k] - at[k - 1])
        PROVE  H[at[k - 1] + j] = P[k][j]
    <3> DEFINE u == at[k - 1]
               v == at[k]
    <3>1. /\ u + j \in 1..L /\ (u + j) - 1 \in Nat /\ (u + j) - 1 < L
          /\ u <= (u + j) - 1 /\ (u + j) - 1 < v /\ (u + j) - u = j
      <4>1. u \in Nat /\ v \in Nat /\ u < v /\ v <= L /\ j \in 1..(v - u)
        BY <2>1
      <4> HIDE DEF u, v
      <4> QED BY <4>1
    <3>2. Holder((u + j) - 1) = k
      BY <1>2, <3>1
    <3>3. H[u + j] = P[Holder((u + j) - 1)][(u + j) - at[Holder((u + j) - 1) - 1]]
      BY <3>1
    <3> HIDE DEF H, Holder
    <3> QED BY <3>1, <3>2, <3>3
  <2> HIDE DEF H
  <2> QED BY <2>2 DEF Slice, LaidOut
<1>4. P = Cut(H, n, at)
  <2> HIDE DEF H
  <2> QED BY <1>3 DEF Cut, LaidOut
<1>5. H \in [1..at[n] -> T]
  BY <1>1
<1> HIDE DEF H, T
<1>6. FlattenSeq(P) = H
  BY <1>1, <1>4, <1>5, FlattenCut
<1> QED BY <1>1, <1>5, <1>6, LengthIs

RangeOf(q, p, s) == [start |-> p[s].start, count |-> p[s].count, batch |-> q.batch]
Joined(q, p) == FlattenSeq([s \in DOMAIN p |-> Contents[RangeOf(q, p, s)]])

(* The ranges of the launches made, and what is extracted of them.          *)
LEMMA PlannedAcceptable ==
    ASSUME NEW q, ShardPlan(q) # <<>>
    PROVE  Acceptable(q)
BY DEF ShardPlan, Acceptable

LEMMA BetweenShape ==
    ASSUME NEW q \in Launches, Acceptable(q), NEW n \in 1..q.devices,
           NEW edge, Edges(q, n, edge), NEW k \in 1..n
    PROVE  /\ k \in 0..n /\ k - 1 \in 0..n /\ n \in Nat
           /\ edge[k - 1] \in Nat /\ edge[k] \in Nat /\ edge[k] - edge[k - 1] \in Nat
           /\ edge[k - 1] < edge[k] /\ q.start <= edge[k - 1] /\ edge[k] <= q.start + q.limit
           /\ edge[k - 1] + (edge[k] - edge[k - 1]) = edge[k] /\ edge[k] <= Len(Doc)
           /\ RangeOf(q, Between(n, edge), k)
                 = [start |-> edge[k - 1], count |-> edge[k] - edge[k - 1], batch |-> q.batch]
<1>1. q \in Request
  BY LaunchesShape
<1>2. n \in Nat /\ q.start \in Nat /\ q.limit \in Nat /\ Len(Doc) \in Nat
  BY <1>1, Sharding DEF Request
<1>3. k \in 0..n /\ k - 1 \in 0..n /\ 0 \in 0..n /\ n \in 0..n /\ 0 <= k - 1 /\ k <= n
  BY <1>2
<1>4. /\ edge[k - 1] \in Nat /\ edge[k] \in Nat /\ edge[0] = q.start /\ edge[n] = q.start + q.limit
      /\ edge[k - 1] < edge[k]
  BY <1>3 DEF Edges
<1>5. q.start <= edge[k - 1]
  BY <1>2, <1>3, <1>4, EdgesOrder
<1>6. edge[k] <= q.start + q.limit
  BY <1>2, <1>3, <1>4, EdgesOrder
<1>7. q.start + q.limit <= Len(Doc)
  BY DEF Acceptable, Fits
<1>8. RangeOf(q, Between(n, edge), k)
        = [start |-> edge[k - 1], count |-> edge[k] - edge[k - 1], batch |-> q.batch]
  BY DEF RangeOf, Between, Piece
<1>9. edge[k] - edge[k - 1] \in Nat /\ edge[k - 1] + (edge[k] - edge[k - 1]) = edge[k] /\ edge[k] <= Len(Doc)
  BY <1>2, <1>4, <1>6, <1>7
<1> QED BY <1>2, <1>3, <1>4, <1>5, <1>6, <1>8, <1>9

LEMMA ContentsShape ==
    ASSUME Contiguous, NEW r \in Ranges
    PROVE  /\ r.start \in Nat /\ r.count \in Nat /\ r.count > 0
           /\ \E q \in Launches : r.batch = q.batch
           /\ r = [start |-> r.start, count |-> r.count, batch |-> r.batch]
           /\ Contents[r]
                 = [j \in 1..r.count |-> ExtractedRow(r.start, r.count, r.batch, r.start + j - 1)]
           /\ Len(Contents[r]) = r.count
<1>1. PICK q \in Launches : \E i \in DOMAIN Planned[q] :
         r = RangeOf(q, Planned[q], i)
  BY DEF Ranges, RangeOf, Planned, Launches
<1>2. PICK i \in DOMAIN ShardPlan(q) : r = RangeOf(q, ShardPlan(q), i)
  BY <1>1, LaunchesShape
<1>3. q \in Request /\ Len(Doc) \in Nat
  BY LaunchesShape, Sharding
<1>4. Acceptable(q)
  <2>1. ShardPlan(q) # <<>>
    BY <1>2
  <2> QED BY <2>1, PlannedAcceptable
<1>5. \E n \in 1..q.devices : \E edge :
              /\ Edges(q, n, edge) /\ ShardPlan(q) = Between(n, edge)
  BY <1>3, <1>4, PlanShape
<1>6. PICK n \in 1..q.devices : \E edge : Edges(q, n, edge) /\ ShardPlan(q) = Between(n, edge)
  BY <1>5
<1>7. PICK edge : Edges(q, n, edge) /\ ShardPlan(q) = Between(n, edge)
  BY <1>6
<1>8. i \in 1..n
  BY <1>2, <1>7 DEF Between
<1> DEFINE from == edge[i - 1]
           count == edge[i] - edge[i - 1]
<1>9. /\ from \in Nat /\ count \in Nat /\ count > 0 /\ from + count <= Len(Doc)
      /\ r = [start |-> from, count |-> count, batch |-> q.batch]
  BY <1>2, <1>4, <1>7, <1>8, BetweenShape
<1> HIDE DEF from, count
<1>10. Contents[r] = Extracted(Span(r.start, r.count), r.batch)
  BY DEF Contents
<1>11. Contents[r] = [j \in 1..count |-> ExtractedRow(from, count, q.batch, from + j - 1)]
  BY <1>3, <1>9, <1>10, ExtractedShape
<1>12. Len(Contents[r]) = count
  <2> DEFINE T == {ExtractedRow(from, count, q.batch, from + j - 1) : j \in 1..count}
  <2>1. Contents[r] \in [1..count -> T]
    BY <1>11
  <2> HIDE DEF T
  <2> QED BY <1>9, <2>1, LengthIs
<1> QED BY <1>9, <1>11, <1>12

(* The pieces of a plan joined: the rows of the selection in order and, if  *)
(* batches are kept, what one extractor would have made of the selection.   *)
LEMMA JoinedShape ==
    ASSUME Contiguous, NEW q \in Launches, Acceptable(q)
    PROVE  LET rows == Joined(q, ShardPlan(q))
           IN  /\ [i \in DOMAIN rows |-> rows[i].row] = [i \in 1..q.limit |-> q.start + i - 1]
               /\ q.align = "document_batch" => rows = Extracted(Selected(q), q.batch)
<1>1. q \in Request /\ Len(Doc) \in Nat
  BY LaunchesShape, Sharding
<1>2. /\ q.start \in Nat /\ q.limit \in Nat /\ q.start + q.limit <= Len(Doc) /\ q.limit > 0
      /\ q.batch \in Positive
  BY <1>1 DEF Request, Acceptable, Fits, Positive
<1>3. PICK n \in 1..q.devices : \E edge :
              /\ Edges(q, n, edge) /\ ShardPlan(q) = Between(n, edge)
              /\ q.align = "document_batch" => DocEdges(q, q.batch, n, edge)
  BY <1>1, PlanShape
<1>4. PICK edge : /\ Edges(q, n, edge) /\ ShardPlan(q) = Between(n, edge)
                  /\ q.align = "document_batch" => DocEdges(q, q.batch, n, edge)
  BY <1>3
<1>5. n \in Nat /\ n >= 1
  BY <1>1 DEF Request
<1> DEFINE Row(k, r) == ExtractedRow(edge[k - 1], edge[k] - edge[k - 1], q.batch, r)
           Holder(r) == CHOOSE k \in 1..n : edge[k - 1] <= r /\ r < edge[k]
           H == [i \in 1..q.limit |-> Row(Holder(q.start + i - 1), q.start + i - 1)]
           T == {H[i] : i \in 1..q.limit}
           at == [k \in 0..n |-> edge[k] - q.start]
<1>6. ASSUME NEW k \in 1..n
      PROVE  /\ edge[k - 1] \in Nat /\ edge[k] \in Nat /\ edge[k - 1] < edge[k]
             /\ q.start <= edge[k - 1] /\ edge[k] <= q.start + q.limit
             /\ at[k - 1] = edge[k - 1] - q.start /\ at[k] = edge[k] - q.start
             /\ k \in 0..n /\ k - 1 \in 0..n
  BY <1>4, BetweenShape
<1>7. ASSUME NEW r \in Nat, q.start <= r, r < q.start + q.limit
      PROVE  /\ Holder(r) \in 1..n /\ edge[Holder(r) - 1] <= r /\ r < edge[Holder(r)]
             /\ \A k \in 1..n : edge[k - 1] <= r /\ r < edge[k] => Holder(r) = k
  <2>1. /\ \E k \in 1..n : edge[k - 1] <= r /\ r < edge[k]
        /\ \A k, l \in 1..n :
              edge[k - 1] <= r /\ r < edge[k] /\ edge[l - 1] <= r /\ r < edge[l] => k = l
    BY <1>2, <1>4, <1>5, <1>7, HolderShape
  <2>2. Holder(r) \in 1..n /\ edge[Holder(r) - 1] <= r /\ r < edge[Holder(r)]
    BY <2>1
  <2> HIDE DEF Holder
  <2> QED BY <2>1, <2>2
<1> HIDE DEF Holder
<1>8. at[0] = 0 /\ at[n] = q.limit /\ Edges([start |-> 0, limit |-> q.limit], n, at)
  <2>1. /\ edge[0] = q.start /\ edge[n] = q.start + q.limit /\ 0 \in 0..n /\ n \in 0..n
        /\ \A k \in 0..n : edge[k] \in Nat
    BY <1>4, <1>5 DEF Edges
  <2>2. at[0] = 0 /\ at[n] = q.limit
    BY <1>2, <2>1
  <2>3. ASSUME NEW k \in 1..n PROVE at[k - 1] < at[k]
    <3> DEFINE u == edge[k - 1]
               v == edge[k]
    <3>1. u \in Nat /\ v \in Nat /\ u < v /\ at[k - 1] = u - q.start /\ at[k] = v - q.start
      BY <1>6
    <3> HIDE DEF at, u, v
    <3> QED BY <1>2, <3>1
  <2>4. at \in [0..n -> Nat]
    <3> SUFFICES ASSUME NEW k \in 0..n PROVE edge[k] - q.start \in Nat
      OBVIOUS
    <3>1. q.start <= edge[k]
      BY <1>5, <2>1, <1>4, EdgesOrder
    <3> QED BY <1>2, <2>1, <3>1
  <2> HIDE DEF at
  <2> QED BY <2>2, <2>3, <2>4 DEF Edges
<1>9. ASSUME NEW k \in 1..n
      PROVE  Contents[RangeOf(q, ShardPlan(q), k)] = Slice(H, at[k - 1], at[k])
  <2> DEFINE r == RangeOf(q, ShardPlan(q), k)
  <2>1. r = [start |-> edge[k - 1], count |-> edge[k] - edge[k - 1], batch |-> q.batch]
    BY <1>4, BetweenShape
  <2>2. r \in Ranges
    <3>1. k \in DOMAIN ShardPlan(q)
      BY <1>4 DEF Between
    <3>2. Planned[q] = ShardPlan(q) /\ q \in DOMAIN Planned
      BY LaunchesShape DEF Planned, Launches
    <3> QED BY <3>1, <3>2 DEF Ranges, RangeOf
  <2>3. Contents[r]
          = [j \in 1..(edge[k] - edge[k - 1]) |-> Row(k, edge[k - 1] + j - 1)]
    BY <2>1, <2>2, ContentsShape
  <2> DEFINE u == edge[k - 1]
             v == edge[k]
  <2>a. /\ u \in Nat /\ v \in Nat /\ u < v /\ at[k - 1] = u - q.start /\ at[k] = v - q.start
        /\ q.start <= u /\ v <= q.start + q.limit
    BY <1>6
  <2>4. at[k] - at[k - 1] = edge[k] - edge[k - 1]
    <3>1. at[k] - at[k - 1] = v - u
      <4> HIDE DEF at, u, v
      <4> QED BY <1>2, <2>a
    <3> QED BY <3>1
  <2>5. ASSUME NEW j \in 1..(edge[k] - edge[k - 1])
        PROVE  H[at[k - 1] + j] = Row(k, edge[k - 1] + j - 1)
    <3>1. /\ at[k - 1] + j \in 1..q.limit
          /\ q.start + (at[k - 1] + j) - 1 = edge[k - 1] + j - 1
          /\ edge[k - 1] + j - 1 \in Nat
          /\ edge[k - 1] <= edge[k - 1] + j - 1 /\ edge[k - 1] + j - 1 < edge[k]
          /\ q.start <= edge[k - 1] + j - 1 /\ edge[k - 1] + j - 1 < q.start + q.limit
      <4>1. j \in 1..(v - u)
        OBVIOUS
      <4>2. /\ at[k - 1] + j \in 1..q.limit
            /\ q.start + (at[k - 1] + j) - 1 = u + j - 1
            /\ u + j - 1 \in Nat
            /\ u <= u + j - 1 /\ u + j - 1 < v
            /\ q.start <= u + j - 1 /\ u + j - 1 < q.start + q.limit
        <5> HIDE DEF at, u, v
        <5> QED BY <1>2, <2>a, <4>1
      <4> QED BY <4>2
    <3>2. Holder(edge[k - 1] + j - 1) = k
      BY <1>7, <3>1
    <3> HIDE DEF Row, at
    <3> QED BY <3>1, <3>2
  <2> HIDE DEF H, Row, at, r
  <2>6. Slice(H, at[k - 1], at[k]) = [j \in 1..(edge[k] - edge[k - 1]) |-> H[at[k - 1] + j]]
    BY <2>4 DEF Slice
  <2> QED BY <2>3, <2>5, <2>6 DEF r
<1>10. Joined(q, ShardPlan(q)) = H
  <2>1. DOMAIN ShardPlan(q) = 1..n
    BY <1>4 DEF Between
  <2>2. H \in [1..at[n] -> T]
    <3> HIDE DEF Row, at
    <3> QED BY <1>8
  <2> HIDE DEF H, T, at, Row
  <2>3. [s \in DOMAIN ShardPlan(q) |-> Contents[RangeOf(q, ShardPlan(q), s)]]
          = Cut(H, n, at)
    BY <1>9, <2>1 DEF Cut
  <2>4. FlattenSeq(Cut(H, n, at)) = H
    BY <1>5, <1>8, <2>2, FlattenCut
  <2> QED BY <2>3, <2>4 DEF Joined
<1>11. [i \in DOMAIN H |-> H[i].row] = [i \in 1..q.limit |-> q.start + i - 1]
  <2>1. \A i \in 1..q.limit : H[i].row = q.start + i - 1
    BY DEF ExtractedRow
  <2>2. DOMAIN H = 1..q.limit
    OBVIOUS
  <2> HIDE DEF H
  <2> QED BY <2>1, <2>2
<1>12. ASSUME q.align = "document_batch"
       PROVE  H = Extracted(Selected(q), q.batch)
  <2>1. DocEdges(q, q.batch, n, edge)
    BY <1>4, <1>12
  <2>2. ASSUME NEW i \in 1..q.limit
        PROVE  H[i] = ExtractedRow(q.start, q.limit, q.batch, q.start + i - 1)
    <3> DEFINE r == q.start + i - 1
               k == Holder(r)
               from == edge[k - 1]
               to == edge[k]
    <3>1. r \in Nat /\ q.start <= r /\ r < q.start + q.limit
      BY <1>2
    <3>2. k \in 1..n /\ from <= r /\ r < to
      BY <1>7, <3>1
    <3>3. /\ from \in Nat /\ to \in Nat /\ from < to /\ q.start <= from /\ to <= q.start + q.limit
          /\ to - from \in Nat /\ from + (to - from) = to
      <4>1. from \in Nat /\ to \in Nat /\ from < to /\ q.start <= from /\ to <= q.start + q.limit
        BY <1>6, <3>2
      <4> HIDE DEF from, to
      <4> QED BY <4>1
    <3>4. r \in Span(from, to - from)
      <4> HIDE DEF from, to, r
      <4> QED BY <3>1, <3>2, <3>3, SpanShape
    <3>5. to \in Ends
      BY <2>1, <3>2 DEF DocEdges
    <3>6. to = q.start + q.limit \/ WholeBatches(q.start, to, q.batch)
      <4>1. CASE k = n
        BY <1>4, <4>1 DEF Edges
      <4>2. CASE k # n
        <5>1. k \in 1..(n - 1)
          BY <1>5, <3>2, <4>2
        <5> QED BY <2>1, <5>1 DEF DocEdges
      <4> QED BY <4>1, <4>2
    <3>7. /\ from = q.start \/ from \in Ends
          /\ WholeBatches(q.start, from, q.batch)
      <4>1. CASE k = 1
        <5>1. from = q.start
          BY <1>4, <4>1 DEF Edges
        <5>2. \A e \in Ends : e \in Nat
          BY <1>1, EndsShape
        <5>3. EndsIn(q.start, q.start) = {}
          BY <1>2, <5>2 DEF EndsIn
        <5>4. 0 * q.batch = 0 /\ Cardinality(EndsIn(q.start, from)) = 0
          BY <1>2, <5>1, <5>3, FS_EmptySet DEF Positive
        <5> QED BY <5>1, <5>4 DEF WholeBatches
      <4>2. CASE k # 1
        <5>1. k - 1 \in 1..(n - 1) /\ k - 1 \in 1..n
          BY <1>5, <3>2, <4>2
        <5> QED BY <2>1, <5>1 DEF DocEdges
      <4> QED BY <4>1, <4>2
    <3> HIDE DEF from, to, r
    <3>8. ExtractedRow(from, to - from, q.batch, r) = ExtractedRow(q.start, q.limit, q.batch, r)
      BY <1>1, <1>2, <3>3, <3>4, <3>5, <3>6, <3>7, BatchesKept
    <3>9. H[i] = ExtractedRow(from, to - from, q.batch, r)
      BY DEF from, to, r
    <3> QED BY <3>8, <3>9 DEF r
  <2>3. Extracted(Span(q.start, q.limit), q.batch)
          = [i \in 1..q.limit |-> ExtractedRow(q.start, q.limit, q.batch, q.start + i - 1)]
    BY <1>1, <1>2, ExtractedShape
  <2>4. H = [i \in 1..q.limit |-> H[i]]
    OBVIOUS
  <2> HIDE DEF H
  <2> QED BY <2>2, <2>3, <2>4 DEF Selected
<1> HIDE DEF H
<1> QED BY <1>10, <1>11, <1>12

-----------------------------------------------------------------------------
(* What the files of a shard hold.  An extractor that works on them has     *)
(* begun them all and finished those before its layer; whoever else reads   *)
(* them finds either a parquet without rows or, in all layers, one range    *)
(* that was launched for the shard, with its sidecars but for the last      *)
(* layer's, which may be an older one.                                      *)
FileParts == {"rows", "side", "meta"}
Sidecar(r) == [start |-> r.start, count |-> r.count]
Written(f, r) == f.rows = Contents[r] /\ f.side = Sidecar(r)
AllHold(f, r) ==
    /\ \A l \in LayerSet : f[l].rows = Contents[r]
    /\ \A l \in LayerSet : l < Layers => f[l].side = Sidecar(r)
From(A, s, r) == \E x \in A : r = RangeOf(x, x.plan, s)
Settled(A, s, f) ==
    (\A l \in LayerSet : f[l].rows # None /\ f[l].rows # Begun)
       => \E r \in Ranges : AllHold(f, r) /\ From(A, s, r)
Prepared(s, count) == \E r \in Ranges : /\ r.count = count /\ AllHold(file[s], r)
                                        /\ From(asked, s, r)

AtWork == {"close", "side", "meta"}
Working(e, f, r) ==
    /\ \A l \in LayerSet : l < e.at => Written(f[l], r)
    /\ \A l \in LayerSet : e.at < l => f[l].rows = Begun
    /\ e.pc = "close" => f[e.at].rows = Begun
    /\ e.pc # "close" => f[e.at].rows = Contents[r]
    /\ e.pc = "meta" => f[e.at].side = Sidecar(r)

(* Whatever an extractor at work leaves behind is settled.                  *)
LEMMA WorkSettles ==
    ASSUME NEW A, NEW s, NEW e, NEW f, NEW r \in Ranges,
           e.at \in LayerSet, Working(e, f, r), From(A, s, r)
    PROVE  Settled(A, s, f)
<1> SUFFICES ASSUME \A l \in LayerSet : f[l].rows # Begun
             PROVE  AllHold(f, r)
  BY DEF Settled
<1>1. e.pc # "close"
  BY DEF Working
<1>2. \A l \in LayerSet : ~(e.at < l)
  BY DEF Working
<1>3. e.at = Layers /\ Layers \in Nat
  BY <1>2, Sharding DEF LayerSet
<1>4. \A l \in LayerSet : l < Layers \/ l = Layers
  BY <1>3 DEF LayerSet
<1>5. \A l \in LayerSet : l < Layers => Written(f[l], r)
  BY <1>3 DEF Working
<1> QED BY <1>1, <1>3, <1>4, <1>5 DEF Working, AllHold, Written

-----------------------------------------------------------------------------
(* The invariant of the launches.                                           *)
ShardTypes ==
    /\ pc \in {"off", "start", "watch", "merge"}
    /\ ext \in [Shards -> [pc : {"off", "load", "close", "side", "meta", "ok", "bad"},
                                    at : LayerSet]]
    /\ DOMAIN file = Shards
    /\ \A s \in Shards :
          /\ DOMAIN file[s] = LayerSet
          /\ \A l \in LayerSet : DOMAIN file[s][l] = FileParts
    /\ DOMAIN out = LayerSet
    /\ \A l \in LayerSet : DOMAIN out[l] = FileParts
    /\ merged \in (1..(Layers + 1)) \X (0..2)

(* A launch that got past its plan has the plan of its request.             *)
Asked == /\ req \in Launches /\ plan = ShardPlan(req)
         /\ Acceptable(req)
         /\ [plan |-> plan, batch |-> req.batch] \in asked
AskedInv == /\ pc # "off" => Asked /\ status # "completed"
            /\ status # "none" => req \in Launches /\ plan = ShardPlan(req)
IdleInv == pc \in {"off", "merge"} => ext = NoExtractor

ExtractorOK(s) ==
    /\ ext[s].pc # "off" => s \in DOMAIN plan /\ pc \in {"start", "watch"}
    /\ ext[s].pc = "load" => ext[s].at = 1
    /\ ext[s].pc \in AtWork => Working(ext[s], file[s], RangeOf(req, plan, s))
    /\ ext[s].pc = "ok" => \A l \in LayerSet : Written(file[s][l], RangeOf(req, plan, s))
FilesInv == \A s \in Shards : Settled(asked, s, file[s]) /\ ExtractorOK(s)

(* A shard without an extractor has been found complete.                    *)
Provided(s) == s \in todo \/ ext[s].pc # "off" \/ Prepared(s, plan[s].count)
LaunchInv == /\ pc \in {"start", "watch"} => \A s \in DOMAIN plan : Provided(s)
             /\ pc = "start" => todo \subseteq DOMAIN plan
             /\ pc = "watch" => todo = {}

(* Once the sidecars of the first layer have been compared with the plan,   *)
(* all layers are known to hold it, if what was launched in the directory   *)
(* allows to tell.                                                          *)
OutSide(q) == [start |-> q.start, count |-> q.limit]
OutOK(q, p, o, told) == /\ Len(o.rows) = q.limit /\ (told => o.rows = Joined(q, p))
                        /\ o.side = OutSide(q) /\ o.meta = q.limit
MergeInv == pc = "merge" =>
    /\ \A s \in DOMAIN plan : Prepared(s, plan[s].count)
    /\ merged # <<1, 0>> /\ Told => \A s \in DOMAIN plan : AllHold(file[s], RangeOf(req, plan, s))
    /\ \A l \in LayerSet : l < merged[1] => OutOK(req, plan, out[l], Told)
    /\ merged[2] >= 1 => merged[1] \in LayerSet /\ out[merged[1]].side = OutSide(req)
    /\ merged[2] = 2 => out[merged[1]].meta = req.limit
DoneInv == status = "completed" /\ Acceptable(req)
              => \A l \in LayerSet : OutOK(req, plan, out[l], Told)

ShardInv == PlanInv /\ AskedInv /\ ShardTypes /\ IdleInv /\ FilesInv /\ LaunchInv /\ MergeInv /\ DoneInv

(* The ranges of a launch are shards, and ranges whose contents are known.  *)
LEMMA PlanRanges ==
    ASSUME Contiguous, NEW q \in Launches, Acceptable(q),
           NEW p, p = ShardPlan(q)
    PROVE  /\ DOMAIN p \subseteq Shards /\ 1 \in DOMAIN p /\ p # <<>>
           /\ p[1].start = q.start
           /\ plan = p => ExpectedRows = q.limit
           /\ \A s \in DOMAIN p :
                 /\ RangeOf(q, p, s) \in Ranges
                 /\ p[s] = Sidecar(RangeOf(q, p, s))
                 /\ Len(Contents[RangeOf(q, p, s)]) = p[s].count
<1>1. q \in Request /\ Len(Doc) \in Nat
  BY LaunchesShape, Sharding
<1>2. PICK n \in 1..q.devices : \E edge : Edges(q, n, edge) /\ p = Between(n, edge)
  BY <1>1, PlanShape
<1>3. PICK edge : Edges(q, n, edge) /\ p = Between(n, edge)
  BY <1>2
<1>4. n \in Nat /\ n >= 1 /\ q.devices \in Nat /\ q.start \in Nat /\ q.limit \in Nat
  BY <1>1 DEF Request
<1>5. DOMAIN p = 1..n
  BY <1>3 DEF Between
<1>6. 1..n \subseteq Shards
  <2>1. \E o \in Requests : o.devices = q.devices
    BY <1>1, Sharding DEF Launches, Again, Request
  <2>2. 1..n \subseteq 1..q.devices
    BY <1>4
  <2> QED BY <2>1, <2>2 DEF Shards
<1>7. Len(p) = n
  BY <1>1, <1>3, CutsDivide
<1>8. plan = p => ExpectedRows = q.limit
  BY <1>3, <1>4, <1>7, ExpectedIs
<1>9. p[1].start = q.start /\ 1 \in 1..n
  <2>1. 1 \in 1..n /\ 1 - 1 = 0
    BY <1>4
  <2>2. p[1] = Piece(edge[0], edge[1]) /\ edge[0] = q.start
    BY <1>3, <2>1 DEF Between, Edges
  <2> QED BY <2>1, <2>2 DEF Piece
<1>10. ASSUME NEW s \in 1..n
       PROVE  /\ RangeOf(q, p, s) \in Ranges
              /\ p[s] = Sidecar(RangeOf(q, p, s))
              /\ Len(Contents[RangeOf(q, p, s)]) = p[s].count
  <2>1. Planned[q] = p /\ q \in DOMAIN Planned
    BY LaunchesShape DEF Planned, Launches
  <2>2. RangeOf(q, p, s) \in Ranges
    BY <1>5, <2>1 DEF Ranges, RangeOf
  <2>3. p[s] = Sidecar(RangeOf(q, p, s))
    BY <1>3 DEF Between, Piece, Sidecar, RangeOf
  <2>4. RangeOf(q, p, s).count = p[s].count
    BY DEF RangeOf
  <2> QED BY <2>2, <2>3, <2>4, ContentsShape
<1>11. p # <<>>
  BY <1>4, <1>5, <1>9
<1> QED BY <1>5, <1>6, <1>8, <1>9, <1>10, <1>11

(* What a launch extracts was launched.                                     *)
LEMMA AskedFrom ==
    ASSUME Asked, NEW s
    PROVE  From(asked, s, RangeOf(req, plan, s))
<1> DEFINE y == [plan |-> plan, batch |-> req.batch]
<1>1. y \in asked /\ RangeOf(req, plan, s) = RangeOf(y, y.plan, s)
  BY DEF Asked, RangeOf
<1> HIDE DEF y
<1> QED BY <1>1 DEF From

(* A complete shard holds a range with the planned number of rows.          *)
LEMMA CompleteIsPrepared ==
    ASSUME Contiguous, NEW s, NEW count,
           Settled(asked, s, file[s]), IsComplete(s, count)
    PROVE  Prepared(s, count)
<1>1. PICK r \in Ranges : AllHold(file[s], r) /\ From(asked, s, r)
  BY DEF Settled, IsComplete, Readable
<1>2. 1 \in LayerSet
  BY Sharding DEF LayerSet
<1>3. Len(Contents[r]) = count
  BY <1>1, <1>2 DEF AllHold, IsComplete
<1> QED BY <1>1, <1>3, ContentsShape DEF Prepared

-----------------------------------------------------------------------------
(* The steps of the launcher.                                               *)
LEMMA Idle ==
    ASSUME ShardInv, pc \in {"off", "merge"}, NEW s \in Shards
    PROVE  ext[s].pc = "off"
BY DEF ShardInv, IdleInv, NoExtractor, Gone

LEMMA LaunchStep ==
    ASSUME Contiguous, ShardInv, NEW q \in Launches, Launch(q)
    PROVE  ShardInv'
<1>1. /\ pc = "off" /\ req' = q /\ plan' = ShardPlan(q)
      /\ UNCHANGED <<ext, file, out, merged>>
  BY LaunchesShape DEF Launch
<1>a. asked \subseteq asked'
  BY DEF Launch
<1>2. \A s \in Shards : ext[s].pc = "off"
  BY <1>1, Idle
<1>3. PlanInv'
  BY <1>1 DEF PlanInv
<1>4. FilesInv'
  <2>1. \A s \in Shards : Settled(asked', s, file[s])
    BY <1>a DEF ShardInv, FilesInv, Settled, From
  <2>2. \A s \in Shards : ExtractorOK(s)'
    BY <1>1, <1>2 DEF ExtractorOK, AtWork
  <2> QED BY <1>1, <2>1, <2>2 DEF FilesInv
<1>5. CASE ShardPlan(q) = <<>>
  <2>1. pc' = "off" /\ status' = status
    BY <1>1, <1>5, LaunchesShape DEF Launch
  <2>2. ~Acceptable(q)
    BY <1>5, PlanRanges
  <2>3. AskedInv' /\ IdleInv'
    BY <1>1, <2>1 DEF AskedInv, IdleInv, ShardInv
  <2>4. LaunchInv' /\ MergeInv' /\ DoneInv'
    BY <1>1, <2>1, <2>2 DEF LaunchInv, MergeInv, DoneInv
  <2>5. ShardTypes'
    BY <1>1, <2>1 DEF ShardInv, ShardTypes
  <2> QED BY <1>3, <1>4, <2>3, <2>4, <2>5 DEF ShardInv
<1>6. CASE ShardPlan(q) # <<>>
  <2>1. /\ pc' = "start" /\ status' = "starting"
        /\ asked' = asked \cup {[plan |-> ShardPlan(q), batch |-> q.batch]}
        /\ todo' = {s \in DOMAIN ShardPlan(q) :
                       ~(q.resume /\ IsComplete(s, ShardPlan(q)[s].count))}
    BY <1>1, <1>6, LaunchesShape DEF Launch
  <2>2. Acceptable(q)
    BY <1>6, PlannedAcceptable
  <2>3. AskedInv' /\ IdleInv'
    BY <1>1, <2>1, <2>2 DEF AskedInv, Asked, IdleInv
  <2>4. ShardTypes'
    BY <1>1, <2>1 DEF ShardInv, ShardTypes
  <2>5. ASSUME NEW s \in DOMAIN plan', s \notin todo'
        PROVE  Prepared(s, ShardPlan(q)[s].count)'
    <3>1. s \in Shards
      BY <1>1, <2>2, <2>5, PlanRanges
    <3>2. Settled(asked, s, file[s])
      BY <3>1 DEF ShardInv, FilesInv
    <3>3. IsComplete(s, ShardPlan(q)[s].count)
      BY <1>1, <2>1, <2>5
    <3>4. Prepared(s, ShardPlan(q)[s].count)
      BY <3>2, <3>3, CompleteIsPrepared
    <3> QED BY <1>1, <1>a, <3>4 DEF Prepared, From
  <2>6. LaunchInv'
    BY <1>1, <2>1, <2>5 DEF LaunchInv, Provided
  <2>7. MergeInv' /\ DoneInv'
    BY <2>1 DEF MergeInv, DoneInv
  <2> QED BY <1>3, <1>4, <2>3, <2>4, <2>6, <2>7 DEF ShardInv
<1> QED BY <1>5, <1>6

LEMMA StartStep ==
    ASSUME Contiguous, ShardInv, Start
    PROVE  ShardInv'
<1>1. PICK s \in todo : /\ ext' = [ext EXCEPT ![s] = [Gone EXCEPT !.pc = "load"]]
                        /\ todo' = todo \ {s}
  BY DEF Start
<1>2. /\ pc = "start" /\ status' = "extracting"
      /\ UNCHANGED <<req, plan, pc, file, out, merged, launches, asked, faults>>
  BY DEF Start
<1>3. Asked /\ status # "completed"
  BY <1>2 DEF ShardInv, AskedInv
<1>4. s \in DOMAIN plan /\ s \in Shards
  BY <1>2, <1>3, PlanRanges DEF ShardInv, LaunchInv, Asked
<1>5. /\ ext'[s] = [pc |-> "load", at |-> 1]
      /\ \A t \in Shards : t # s => ext'[t] = ext[t]
      /\ DOMAIN ext = Shards
  BY <1>1, <1>4 DEF ShardInv, ShardTypes, Gone
<1>6. 1 \in LayerSet
  BY Sharding DEF LayerSet
<1>7. ShardTypes'
  <2>1. ext' \in [Shards -> [pc : {"off", "load", "close", "side", "meta", "ok", "bad"},
                                      at : LayerSet]]
    BY <1>1, <1>4, <1>6 DEF ShardInv, ShardTypes, Gone
  <2> QED BY <1>2, <2>1 DEF ShardInv, ShardTypes
<1>8. PlanInv' /\ AskedInv' /\ IdleInv'
  BY <1>2, <1>3 DEF ShardInv, PlanInv, AskedInv, Asked, IdleInv
<1>9. FilesInv'
  <2> SUFFICES ASSUME NEW t \in Shards PROVE ExtractorOK(t)'
    BY <1>2 DEF ShardInv, FilesInv
  <2>1. CASE t = s
    BY <1>2, <1>4, <1>5, <2>1 DEF ExtractorOK, AtWork
  <2>2. CASE t # s
    BY <1>2, <1>5, <2>2 DEF ShardInv, FilesInv, ExtractorOK
  <2> QED BY <2>1, <2>2
<1>10. LaunchInv'
  <2>1. todo' \subseteq DOMAIN plan
    BY <1>1, <1>2 DEF ShardInv, LaunchInv
  <2>2. ASSUME NEW t \in DOMAIN plan PROVE Provided(t)'
    <3>1. t \in Shards /\ Provided(t)
      BY <1>2, <1>3, PlanRanges DEF ShardInv, LaunchInv, Asked
    <3>2. CASE t = s
      BY <1>5, <3>2 DEF Provided
    <3>3. CASE t # s
      BY <1>1, <1>2, <1>5, <3>1, <3>3 DEF Provided, Prepared
    <3> QED BY <3>2, <3>3
  <2> QED BY <1>2, <2>1, <2>2 DEF LaunchInv
<1>11. MergeInv' /\ DoneInv'
  BY <1>2 DEF MergeInv, DoneInv
<1> QED BY <1>7, <1>8, <1>9, <1>10, <1>11 DEF ShardInv

LEMMA StartedStep ==
    ASSUME ShardInv, Started
    PROVE  ShardInv'
<1>1. /\ pc = "start" /\ todo = {} /\ pc' = "watch"
      /\ UNCHANGED <<req, plan, todo, ext, file, out, merged, status, launches, asked, faults>>
  BY DEF Started
<1>2. PlanInv' /\ AskedInv' /\ IdleInv'
  BY <1>1 DEF ShardInv, PlanInv, AskedInv, Asked, IdleInv
<1>3. ShardTypes'
  BY <1>1 DEF ShardInv, ShardTypes
<1>4. FilesInv'
  <2>1. ASSUME NEW s \in Shards PROVE ExtractorOK(s)'
    BY <1>1 DEF ShardInv, FilesInv, ExtractorOK
  <2> QED BY <1>1, <2>1 DEF ShardInv, FilesInv
<1>5. LaunchInv'
  BY <1>1 DEF ShardInv, LaunchInv, Provided, Prepared
<1>6. MergeInv' /\ DoneInv'
  BY <1>1 DEF ShardInv, AskedInv, MergeInv, DoneInv
<1> QED BY <1>2, <1>3, <1>4, <1>5, <1>6 DEF ShardInv

(* A step to "off" that leaves requests, plan, files and output alone.      *)
LEMMA StopStep ==
    ASSUME ShardInv, pc # "off", pc' = "off", UNCHANGED <<req, plan, todo, file, out, merged, asked>>,
           ext' = NoExtractor, status' = status \/ status' = "failed"
    PROVE  ShardInv'
<1>1. 1 \in LayerSet
  BY Sharding DEF LayerSet
<1>2. ShardTypes'
  BY <1>1 DEF ShardInv, ShardTypes, NoExtractor, Gone
<1>3. PlanInv' /\ IdleInv'
  BY DEF ShardInv, PlanInv, IdleInv
<1>4. AskedInv' /\ status' # "completed"
  BY DEF ShardInv, AskedInv, Asked
<1>5. FilesInv'
  <2>1. ASSUME NEW s \in Shards PROVE ExtractorOK(s)'
    BY DEF ExtractorOK, AtWork, NoExtractor, Gone
  <2> QED BY <2>1 DEF ShardInv, FilesInv
<1>6. LaunchInv' /\ MergeInv' /\ DoneInv'
  BY <1>4 DEF LaunchInv, MergeInv, DoneInv
<1> QED BY <1>2, <1>3, <1>4, <1>5, <1>6 DEF ShardInv

LEMMA PollSuccessStep ==
    ASSUME Contiguous, ShardInv, PollSuccess
    PROVE  ShardInv'
<1>1. /\ pc = "watch" /\ \A s \in Shards : ext[s].pc \in {"off", "ok"}
      /\ ext' = NoExtractor /\ pc' = "merge" /\ merged' = <<1, 0>> /\ status' = "merging"
      /\ UNCHANGED <<req, plan, todo, file, out, launches, asked, faults>>
  BY DEF PollSuccess
<1>2. Asked
  BY <1>1 DEF ShardInv, AskedInv
<1>3. 1 \in LayerSet /\ Layers \in Nat /\ Layers >= 1
  BY Sharding DEF LayerSet
<1>4. ShardTypes'
  <2>1. merged' \in (1..(Layers + 1)) \X (0..2)
    BY <1>1, <1>3
  <2> QED BY <1>1, <1>3, <2>1 DEF ShardInv, ShardTypes, NoExtractor, Gone
<1>5. PlanInv' /\ AskedInv' /\ IdleInv'
  BY <1>1, <1>2 DEF ShardInv, PlanInv, AskedInv, Asked, IdleInv
<1>6. FilesInv'
  <2>1. ASSUME NEW s \in Shards PROVE ExtractorOK(s)'
    BY <1>1 DEF ExtractorOK, AtWork, NoExtractor, Gone
  <2> QED BY <1>1, <2>1 DEF ShardInv, FilesInv
<1>7. ASSUME NEW s \in DOMAIN plan
      PROVE  Prepared(s, plan[s].count)
  <2>1. /\ s \in Shards /\ RangeOf(req, plan, s) \in Ranges
        /\ RangeOf(req, plan, s).count = plan[s].count
    BY <1>2, PlanRanges DEF Asked, RangeOf
  <2>2. Provided(s) /\ s \notin todo
    BY <1>1 DEF ShardInv, LaunchInv
  <2>3. CASE ext[s].pc = "ok"
    <3>1. \A l \in LayerSet : Written(file[s][l], RangeOf(req, plan, s))
      BY <2>1, <2>3 DEF ShardInv, FilesInv, ExtractorOK
    <3>2. From(asked, s, RangeOf(req, plan, s))
      BY <1>2, AskedFrom
    <3> QED BY <2>1, <3>1, <3>2 DEF Written, AllHold, Prepared
  <2>4. CASE ext[s].pc = "off"
    BY <2>2, <2>4 DEF Provided
  <2> QED BY <1>1, <2>1, <2>3, <2>4
<1>8. MergeInv'
  <2>1. merged' = <<1, 0>> /\ merged'[1] = 1 /\ merged'[2] = 0
    BY <1>1
  <2>2. \A l \in LayerSet : ~(l < 1)
    BY DEF LayerSet
  <2> QED BY <1>1, <1>7, <2>1, <2>2 DEF MergeInv, Prepared
<1>9. LaunchInv' /\ DoneInv'
  BY <1>1 DEF LaunchInv, DoneInv
<1> QED BY <1>4, <1>5, <1>6, <1>8, <1>9 DEF ShardInv

(* With the sidecar of the first layer the merge has seen which range a     *)
(* shard holds: its number of rows and its first row are the planned ones.  *)
LEMMA FirstLayerTells ==
    ASSUME Told, Asked, NEW s \in DOMAIN plan, Prepared(s, plan[s].count),
           file[s][1].side.start = plan[s].start
    PROVE  AllHold(file[s], RangeOf(req, plan, s))
<1>1. PICK r \in Ranges : /\ r.count = plan[s].count /\ AllHold(file[s], r)
                          /\ From(asked, s, r)
  BY DEF Prepared
<1>2. PICK x \in asked : r = RangeOf(x, x.plan, s)
  BY <1>1 DEF From
<1> DEFINE y == [plan |-> plan, batch |-> req.batch]
<1>3. y \in asked /\ y.plan = plan /\ y.batch = req.batch
  BY DEF Asked
<1> HIDE DEF y
<1>4. CASE OnePlan
  <2>1. x = y
    BY <1>2, <1>3, <1>4 DEF OnePlan
  <2> QED BY <1>1, <1>2, <1>3, <2>1 DEF RangeOf
<1>5. CASE Layers >= 2 /\ \A u, v \in asked : u.batch = v.batch
  <2>1. 1 \in LayerSet /\ 1 < Layers
    BY <1>5, Sharding DEF LayerSet
  <2>2. r.start = plan[s].start
    BY <1>1, <2>1 DEF AllHold, Sidecar
  <2>3. x.batch = req.batch
    BY <1>2, <1>3, <1>5
  <2>4. r = [start |-> r.start, count |-> r.count, batch |-> req.batch]
    BY <1>2, <2>3 DEF RangeOf
  <2>5. r = RangeOf(req, plan, s)
    BY <1>1, <2>2, <2>4 DEF RangeOf
  <2> QED BY <1>1, <2>5
<1> QED BY <1>4, <1>5 DEF Told

(* Whatever the shards hold, they have the planned numbers of rows.         *)
LEMMA JoinedLength ==
    ASSUME Contiguous, NEW q \in Launches, Acceptable(q), NEW l \in LayerSet,
           plan = ShardPlan(q), \A s \in DOMAIN plan : Prepared(s, plan[s].count)
    PROVE  Len(JoinedRows(l)) = q.limit
<1>1. q \in Request /\ Len(Doc) \in Nat
  BY LaunchesShape, Sharding
<1>2. q.start \in Nat /\ q.limit \in Nat
  BY <1>1 DEF Request
<1>3. PICK n \in 1..q.devices : \E edge : Edges(q, n, edge) /\ plan = Between(n, edge)
  BY <1>1, PlanShape
<1>4. PICK edge : Edges(q, n, edge) /\ plan = Between(n, edge)
  BY <1>3
<1>5. n \in Nat /\ n >= 1 /\ DOMAIN plan = 1..n
  BY <1>1, <1>4 DEF Request, Between
<1> DEFINE P == [s \in DOMAIN plan |-> file[s][l].rows]
           at == [k \in 0..n |-> edge[k] - q.start]
<1>6. /\ Edges([start |-> 0, limit |-> q.limit], n, at)
      /\ \A k \in 1..n : at[k] - at[k - 1] = edge[k] - edge[k - 1]
  <2>1. at = [k \in 0..n |-> edge[k] - q.start]
    OBVIOUS
  <2> HIDE DEF at
  <2> QED BY <1>2, <1>4, <1>5, <2>1, FromZero
<1> HIDE DEF at
<1>7. ASSUME NEW k \in 1..n PROVE P[k] = [j \in 1..(at[k] - at[k - 1]) |-> P[k][j]]
  <2>1. PICK r \in Ranges : r.count = plan[k].count /\ AllHold(file[k], r)
    BY <1>5 DEF Prepared
  <2>2. P[k] = Contents[r]
    BY <1>5, <2>1 DEF AllHold
  <2>3. plan[k].count = edge[k] - edge[k - 1]
    BY <1>4 DEF Between, Piece
  <2>4. r.count = at[k] - at[k - 1]
    BY <1>6, <2>1, <2>3
  <2>5. Contents[r] = [j \in 1..r.count |-> Contents[r][j]]
    BY ContentsShape
  <2> HIDE DEF P
  <2> QED BY <2>2, <2>4, <2>5
<1>8. P = [k \in 1..n |-> P[k]]
  BY <1>5
<1>9. JoinedRows(l) = FlattenSeq(P)
  BY DEF JoinedRows
<1> HIDE DEF P
<1>10. Len(FlattenSeq(P)) = q.limit
  <2>1. LaidOut(P, n, at)
    BY <1>7, <1>8 DEF LaidOut
  <2> QED BY <1>2, <1>5, <1>6, <2>1, FlattenLength
<1> QED BY <1>9, <1>10

LEMMA PublishStep ==
    ASSUME Contiguous, ShardInv, Publish
    PROVE  ShardInv'
<1> DEFINE l == merged[1]
           m == merged[2]
<1>1. /\ pc = "merge" /\ l <= Layers /\ (m = 0 => Mergeable(l))
      /\ out' = [out EXCEPT ![l] =
             CASE m = 0 -> [@ EXCEPT !.side = JoinedSide(l)]
               [] m = 1 -> [@ EXCEPT !.meta = ExpectedRows]
               [] m = 2 -> [@ EXCEPT !.rows = JoinedRows(l)]]
      /\ merged' = IF m = 2 THEN <<l + 1, 0>> ELSE <<l, m + 1>>
      /\ UNCHANGED <<req, plan, pc, todo, ext, file, status, launches, asked, faults>>
  BY DEF Publish
<1>2. Asked /\ status # "completed"
  BY <1>1 DEF ShardInv, AskedInv
<1>3. /\ merged = <<l, m>> /\ l \in LayerSet /\ l \in Nat /\ l >= 1 /\ Layers \in Nat
      /\ m \in {0, 1, 2}
  BY <1>1, Sharding DEF ShardInv, ShardTypes, LayerSet
<1>4. /\ \A s \in DOMAIN plan : Prepared(s, plan[s].count)
      /\ merged # <<1, 0>> /\ Told => \A s \in DOMAIN plan : AllHold(file[s], RangeOf(req, plan, s))
      /\ \A k \in LayerSet : k < l => OutOK(req, plan, out[k], Told)
      /\ m >= 1 => out[l].side = OutSide(req)
      /\ m = 2 => out[l].meta = req.limit
  BY <1>1 DEF ShardInv, MergeInv
<1> HIDE DEF l, m
<1>5. ASSUME Told, NEW s \in DOMAIN plan PROVE AllHold(file[s], RangeOf(req, plan, s))
  <2>1. CASE merged # <<1, 0>>
    BY <1>4, <1>5, <2>1
  <2>2. CASE merged = <<1, 0>>
    <3>1. l = 1 /\ m = 0
      BY <2>2 DEF l, m
    <3>2. file[s][1].side.start = plan[s].start
      BY <1>1, <3>1 DEF Mergeable
    <3> QED BY <1>2, <1>4, <1>5, <3>2, FirstLayerTells
  <2> QED BY <2>1, <2>2
<1>6. /\ plan = ShardPlan(req) /\ req \in Launches /\ Acceptable(req)
      /\ ExpectedRows = req.limit /\ 1 \in DOMAIN plan /\ plan[1].start = req.start
  BY <1>2, PlanRanges DEF Asked
<1>7. /\ DOMAIN out = LayerSet
      /\ \A k \in LayerSet : DOMAIN out[k] = FileParts
  BY DEF ShardInv, ShardTypes
<1>8. /\ DOMAIN out' = LayerSet
      /\ \A k \in LayerSet : k # l => out'[k] = out[k]
      /\ m = 0 => out'[l] = [out[l] EXCEPT !.side = JoinedSide(l)]
      /\ m = 1 => out'[l] = [out[l] EXCEPT !.meta = ExpectedRows]
      /\ m = 2 => out'[l] = [out[l] EXCEPT !.rows = JoinedRows(l)]
  BY <1>1, <1>3, <1>7
<1>9. /\ DOMAIN out'[l] = FileParts
      /\ m = 0 => out'[l].side = JoinedSide(l)
      /\ m = 1 => out'[l].side = out[l].side /\ out'[l].meta = ExpectedRows
      /\ m = 2 => /\ out'[l].side = out[l].side /\ out'[l].meta = out[l].meta
                  /\ out'[l].rows = JoinedRows(l)
  BY <1>3, <1>7, <1>8 DEF FileParts
<1>10. m = 0 => JoinedSide(l) = OutSide(req)
  BY <1>1, <1>6 DEF Mergeable, JoinedSide, OutSide
<1>11. Len(JoinedRows(l)) = req.limit /\ (Told => JoinedRows(l) = Joined(req, plan))
  <2>a. Len(JoinedRows(l)) = req.limit
    BY <1>3, <1>4, <1>6, JoinedLength
  <2> SUFFICES ASSUME Told PROVE JoinedRows(l) = Joined(req, plan)
    BY <2>a
  <2>1. \A s \in DOMAIN plan : file[s][l].rows = Contents[RangeOf(req, plan, s)]
    BY <1>3, <1>5 DEF AllHold
  <2> QED BY <2>1 DEF JoinedRows, Joined
<1>12. /\ m = 2 => merged' = <<l + 1, 0>>
       /\ m = 0 => merged' = <<l, 1>>
       /\ m = 1 => merged' = <<l, 2>>
  BY <1>1
<1>13. /\ merged' # <<1, 0>> /\ merged' \in (1..(Layers + 1)) \X (0..2)
       /\ m = 2 => merged'[1] = l + 1 /\ merged'[2] = 0
       /\ m = 0 => merged'[1] = l /\ merged'[2] = 1
       /\ m = 1 => merged'[1] = l /\ merged'[2] = 2
  <2>1. l + 1 # 1 /\ l \in 1..(Layers + 1) /\ l + 1 \in 1..(Layers + 1)
    BY <1>1, <1>3
  <2> QED BY <1>3, <1>12, <2>1
<1>14. MergeInv'
  <2>a. Told' = Told
    BY <1>1 DEF Told, OnePlan
  <2>b. \A s \in DOMAIN plan' : Prepared(s, plan[s].count)'
    BY <1>1, <1>4 DEF Prepared
  <2>c. Told' => \A s \in DOMAIN plan' : AllHold(file[s], RangeOf(req, plan, s))'
    BY <1>1, <1>5, <2>a
  <2>1. \A k \in LayerSet : k < l => OutOK(req, plan, out'[k], Told)
    BY <1>3, <1>4, <1>8 DEF LayerSet
  <2>2. CASE m = 2
    <3>1. OutOK(req, plan, out'[l], Told)
      BY <1>4, <1>9, <1>11, <2>2 DEF OutOK
    <3>2. \A k \in LayerSet : k < l + 1 => k < l \/ k = l
      BY <1>3 DEF LayerSet
    <3>3. \A k \in LayerSet : k < merged'[1] => OutOK(req, plan, out'[k], Told)
      BY <1>13, <2>1, <2>2, <3>1, <3>2
    <3> QED BY <1>1, <1>13, <2>a, <2>b, <2>c, <2>2, <3>3 DEF MergeInv
  <2>3. CASE m = 0
    BY <1>1, <1>3, <1>9, <1>10, <1>13, <2>a, <2>b, <2>c, <2>1, <2>3 DEF MergeInv
  <2>4. CASE m = 1
    BY <1>1, <1>3, <1>4, <1>6, <1>9, <1>13, <2>a, <2>b, <2>c, <2>1, <2>4 DEF MergeInv
  <2> QED BY <1>3, <2>2, <2>3, <2>4
<1>15. ShardTypes'
  <2>1. \A k \in LayerSet : DOMAIN out'[k] = FileParts
    BY <1>7, <1>8, <1>9
  <2> QED BY <1>1, <1>8, <1>13, <2>1 DEF ShardInv, ShardTypes
<1>16. PlanInv' /\ AskedInv' /\ IdleInv'
  BY <1>1, <1>2 DEF ShardInv, PlanInv, AskedInv, Asked, IdleInv
<1>17. FilesInv'
  <2>1. ASSUME NEW s \in Shards PROVE ExtractorOK(s)'
    BY <1>1 DEF ShardInv, FilesInv, ExtractorOK
  <2> QED BY <1>1, <2>1 DEF ShardInv, FilesInv
<1>18. LaunchInv' /\ DoneInv'
  BY <1>1, <1>2 DEF LaunchInv, DoneInv
<1> QED BY <1>14, <1>15, <1>16, <1>17, <1>18 DEF ShardInv

LEMMA CompleteStep ==
    ASSUME ShardInv, Complete
    PROVE  ShardInv'
<1>1. /\ pc = "merge" /\ merged[1] > Layers /\ pc' = "off" /\ status' = "completed"
      /\ UNCHANGED <<req, plan, todo, ext, file, out, merged, launches, asked, faults>>
  BY DEF Complete
<1>2. Asked
  BY <1>1 DEF ShardInv, AskedInv
<1>3. ShardTypes'
  BY <1>1 DEF ShardInv, ShardTypes
<1>4. PlanInv' /\ AskedInv' /\ IdleInv'
  BY <1>1, <1>2 DEF ShardInv, PlanInv, AskedInv, Asked, IdleInv
<1>5. FilesInv'
  <2>1. ASSUME NEW s \in Shards PROVE ExtractorOK(s)'
    BY <1>1, Idle DEF ExtractorOK, AtWork
  <2> QED BY <1>1, <2>1 DEF ShardInv, FilesInv
<1>6. DoneInv'
  <2>1. merged[1] \in Nat /\ Layers \in Nat
    BY Sharding DEF ShardInv, ShardTypes
  <2>2. \A l \in LayerSet : l < merged[1]
    BY <1>1, <2>1 DEF LayerSet
  <2>3. Told' = Told
    BY <1>1 DEF Told, OnePlan
  <2> QED BY <1>1, <2>2, <2>3 DEF ShardInv, MergeInv, DoneInv
<1>7. LaunchInv' /\ MergeInv'
  BY <1>1 DEF LaunchInv, MergeInv
<1> QED BY <1>3, <1>4, <1>5, <1>6, <1>7 DEF ShardInv

-----------------------------------------------------------------------------
(* The steps of an extractor: what they leave alone, and what they make of  *)
(* its shard.                                                               *)
LEMMA ExtractorStep ==
    ASSUME ShardInv, NEW s \in Shards, ext[s].pc # "off", DOMAIN plan \subseteq Shards,
           UNCHANGED <<req, plan, pc, todo, out, merged, status, asked>>,
           NEW e \in [pc : {"load", "close", "side", "meta", "ok", "bad"}, at : LayerSet],
           ext' = [ext EXCEPT ![s] = e],
           DOMAIN file' = Shards,
           \A t \in Shards : t # s => file'[t] = file[t],
           DOMAIN file'[s] = LayerSet,
           \A l \in LayerSet : DOMAIN file'[s][l] = FileParts,
           Settled(asked, s, file'[s]), e.pc # "load",
           e.pc \in AtWork => Working(e, file'[s], RangeOf(req, plan, s)),
           e.pc = "ok" => \A l \in LayerSet : Written(file'[s][l], RangeOf(req, plan, s))
    PROVE  ShardInv'
<1>1. s \in DOMAIN plan /\ pc \in {"start", "watch"}
  BY DEF ShardInv, FilesInv, ExtractorOK
<1>2. ext'[s] = e /\ (\A t \in Shards : t # s => ext'[t] = ext[t]) /\ e.pc # "off"
  BY DEF ShardInv, ShardTypes
<1>3. ShardTypes'
  <2>1. ext' \in [Shards -> [pc : {"off", "load", "close", "side", "meta", "ok", "bad"},
                                      at : LayerSet]]
    BY DEF ShardInv, ShardTypes
  <2>2. \A t \in Shards :
           /\ DOMAIN file'[t] = LayerSet
           /\ \A l \in LayerSet : DOMAIN file'[t][l] = FileParts
    BY DEF ShardInv, ShardTypes
  <2> QED BY <2>1, <2>2 DEF ShardInv, ShardTypes
<1>4. PlanInv' /\ AskedInv'
  BY DEF ShardInv, PlanInv, AskedInv, Asked
<1>5. IdleInv' /\ MergeInv'
  BY <1>1 DEF IdleInv, MergeInv
<1>6. FilesInv'
  <2>1. Settled(asked, s, file'[s]) /\ ExtractorOK(s)'
    BY <1>1, <1>2 DEF ExtractorOK
  <2>2. ASSUME NEW t \in Shards, t # s PROVE Settled(asked, t, file'[t]) /\ ExtractorOK(t)'
    BY <1>2, <2>2 DEF ShardInv, FilesInv, ExtractorOK
  <2> QED BY <2>1, <2>2 DEF FilesInv
<1>7. LaunchInv'
  <2>1. ASSUME NEW t \in DOMAIN plan PROVE Provided(t)'
    <3>1. CASE t = s
      BY <1>2, <3>1 DEF Provided
    <3>2. CASE t # s
      <4>1. t \in Shards /\ Provided(t)
        BY <1>1 DEF ShardInv, LaunchInv
      <4> QED BY <1>2, <3>2, <4>1 DEF Provided, Prepared
    <3> QED BY <3>1, <3>2
  <2> QED BY <2>1 DEF ShardInv, LaunchInv
<1>8. DoneInv'
  BY DEF ShardInv, DoneInv, Told, OnePlan
<1> QED BY <1>3, <1>4, <1>5, <1>6, <1>7, <1>8 DEF ShardInv

LEMMA Turned ==
    ASSUME ShardTypes, NEW s \in Shards, NEW x
    PROVE  [ext EXCEPT ![s].pc = x] = [ext EXCEPT ![s] = [pc |-> x, at |-> ext[s].at]]
<1>1. ext[s] = [pc |-> ext[s].pc, at |-> ext[s].at]
  BY DEF ShardTypes
<1>2. [ext[s] EXCEPT !.pc = x] = [pc |-> x, at |-> ext[s].at]
  BY <1>1
<1> QED BY <1>2

(* An extractor that gives up leaves its files as they are.                 *)
LEMMA BadStep ==
    ASSUME ShardInv, NEW s \in Shards, ext[s].pc # "off", DOMAIN plan \subseteq Shards,
           UNCHANGED <<req, plan, pc, todo, file, out, merged, status, asked>>,
           ext' = [ext EXCEPT ![s].pc = "bad"]
    PROVE  ShardInv'
<1> DEFINE e == [pc |-> "bad", at |-> ext[s].at]
<1>1. ext[s].at \in LayerSet
  BY DEF ShardInv, ShardTypes
<1>2. ShardTypes
  BY DEF ShardInv
<1>3. ext' = [ext EXCEPT ![s] = e]
  BY <1>2, Turned
<1>4. e \in [pc : {"load", "close", "side", "meta", "ok", "bad"}, at : LayerSet]
  BY <1>1
<1>5. e.pc = "bad"
  OBVIOUS
<1> HIDE DEF e
<1>6. /\ DOMAIN file = Shards /\ DOMAIN file[s] = LayerSet
      /\ \A l \in LayerSet : DOMAIN file[s][l] = FileParts
      /\ Settled(asked, s, file[s])
  BY DEF ShardInv, ShardTypes, FilesInv
<1> QED BY <1>3, <1>4, <1>5, <1>6, ExtractorStep DEF AtWork

(* What an extractor at work changes: one part of one layer of its shard.   *)
LEMMA OnePart ==
    ASSUME ShardTypes, NEW s \in Shards, NEW a \in LayerSet, NEW part \in FileParts, NEW x,
           file' = [file EXCEPT ![s] = [file[s] EXCEPT ![a] = [file[s][a] EXCEPT ![part] = x]]]
    PROVE  /\ DOMAIN file' = Shards
           /\ \A t \in Shards : t # s => file'[t] = file[t]
           /\ DOMAIN file'[s] = LayerSet
           /\ \A l \in LayerSet : DOMAIN file'[s][l] = FileParts
           /\ \A l \in LayerSet : l # a => file'[s][l] = file[s][l]
           /\ \A other \in FileParts : other # part => file'[s][a][other] = file[s][a][other]
           /\ file'[s][a][part] = x
<1>1. /\ DOMAIN file = Shards /\ DOMAIN file[s] = LayerSet
      /\ \A l \in LayerSet : DOMAIN file[s][l] = FileParts
  BY DEF ShardTypes
<1> DEFINE g == [file[s][a] EXCEPT ![part] = x]
           h == [file[s] EXCEPT ![a] = g]
<1>2. /\ DOMAIN g = FileParts /\ g[part] = x
      /\ \A other \in FileParts : other # part => g[other] = file[s][a][other]
  BY <1>1
<1> HIDE DEF g
<1>3. /\ DOMAIN h = LayerSet /\ h[a] = g
      /\ \A l \in LayerSet : l # a => h[l] = file[s][l]
  BY <1>1
<1>4. file' = [file EXCEPT ![s] = h]
  BY DEF h, g
<1> HIDE DEF h
<1>5. /\ DOMAIN file' = Shards /\ file'[s] = h
      /\ \A t \in Shards : t # s => file'[t] = file[t]
  BY <1>1, <1>4
<1>6. \A l \in LayerSet : DOMAIN h[l] = FileParts
  BY <1>1, <1>2, <1>3
<1> QED BY <1>2, <1>3, <1>5, <1>6

LEMMA AtWorkShape ==
    ASSUME Contiguous, ShardInv, NEW s \in Shards, ext[s].pc # "off"
    PROVE  /\ s \in DOMAIN plan /\ RangeOf(req, plan, s) \in Ranges
           /\ DOMAIN plan \subseteq Shards
           /\ plan[s] = Sidecar(RangeOf(req, plan, s))
           /\ ext[s] = [pc |-> ext[s].pc, at |-> ext[s].at]
           /\ ext[s].at \in LayerSet /\ ext[s].at \in Nat /\ ShardTypes
           /\ ext[s].pc \in AtWork => Working(ext[s], file[s], RangeOf(req, plan, s))
           /\ ext[s].pc = "load" => ext[s].at = 1
           /\ Settled(asked, s, file[s]) /\ From(asked, s, RangeOf(req, plan, s))
<1>1. s \in DOMAIN plan /\ pc \in {"start", "watch"}
  BY DEF ShardInv, FilesInv, ExtractorOK
<1>2. Asked
  BY <1>1 DEF ShardInv, AskedInv
<1>3. /\ RangeOf(req, plan, s) \in Ranges /\ plan[s] = Sidecar(RangeOf(req, plan, s))
      /\ DOMAIN plan \subseteq Shards
  BY <1>1, <1>2, PlanRanges DEF Asked
<1>4. /\ ext[s] = [pc |-> ext[s].pc, at |-> ext[s].at]
      /\ ext[s].at \in LayerSet /\ ext[s].at \in Nat
  BY DEF ShardInv, ShardTypes, LayerSet
<1>5. From(asked, s, RangeOf(req, plan, s))
  BY <1>2, AskedFrom
<1> QED BY <1>1, <1>3, <1>4, <1>5 DEF ShardInv, FilesInv, ExtractorOK

LEMMA OpenStep ==
    ASSUME Contiguous, ShardInv, NEW s \in Shards, Open(s)
    PROVE  ShardInv'
<1> DEFINE r == RangeOf(req, plan, s)
           e == [pc |-> "close", at |-> ext[s].at]
<1>1. /\ ext[s].pc = "load" /\ ext' = [ext EXCEPT ![s].pc = "close"]
      /\ file' = [file EXCEPT ![s] = [l \in LayerSet |-> [file[s][l] EXCEPT !.rows = Begun]]]
      /\ UNCHANGED <<req, plan, pc, todo, out, merged, status, launches, asked, faults>>
  BY DEF Open
<1>2. r \in Ranges /\ ext[s] = [pc |-> "load", at |-> 1] /\ 1 \in LayerSet /\ ShardTypes
  BY <1>1, AtWorkShape
<1>a. From(asked, s, r)
  BY <1>1, AtWorkShape
<1>3. ext' = [ext EXCEPT ![s] = e]
  BY <1>1, <1>2, Turned
<1>4. /\ DOMAIN file' = Shards
      /\ \A t \in Shards : t # s => file'[t] = file[t]
      /\ file'[s] = [l \in LayerSet |-> [file[s][l] EXCEPT !.rows = Begun]]
  BY <1>1, <1>2 DEF ShardTypes
<1>5. /\ DOMAIN file' = Shards
      /\ \A t \in Shards : t # s => file'[t] = file[t]
      /\ DOMAIN file'[s] = LayerSet
  BY <1>4
<1>6. \A l \in LayerSet : DOMAIN file'[s][l] = FileParts /\ file'[s][l].rows = Begun
  BY <1>2, <1>4 DEF ShardTypes, FileParts
<1>7. Working(e, file'[s], r)
  <2>1. \A l \in LayerSet : ~(l < 1)
    BY DEF LayerSet
  <2> QED BY <1>2, <1>6, <2>1 DEF Working
<1>8. /\ e \in [pc : {"load", "close", "side", "meta", "ok", "bad"}, at : LayerSet]
      /\ e.pc = "close" /\ e.at \in LayerSet
  BY <1>2
<1> HIDE DEF e, r
<1>9. Settled(asked, s, file'[s])
  BY <1>2, <1>7, <1>8, <1>a, WorkSettles
<1>10. /\ UNCHANGED <<req, plan, pc, todo, out, merged, status, asked>>
      /\ ext[s].pc # "off" /\ DOMAIN plan \subseteq Shards
  BY <1>1, AtWorkShape
<1> QED BY <1>3, <1>5, <1>6, <1>7, <1>8, <1>9, <1>10, ExtractorStep DEF r

LEMMA CloseStep ==
    ASSUME Contiguous, ShardInv, NEW s \in Shards, Close(s)
    PROVE  ShardInv'
<1> DEFINE r == RangeOf(req, plan, s)
           a == ext[s].at
           e == [pc |-> "side", at |-> a]
<1>1. /\ ext[s].pc = "close" /\ ext' = [ext EXCEPT ![s].pc = "side"]
      /\ file' = [file EXCEPT ![s][a].rows = Contents[r]]
      /\ UNCHANGED <<req, plan, pc, todo, out, merged, status, launches, asked, faults>>
  BY DEF Close, RangeOf
<1>2. /\ r \in Ranges /\ ext[s] = [pc |-> "close", at |-> a] /\ a \in LayerSet
      /\ ShardTypes /\ Working(ext[s], file[s], r)
  BY <1>1, AtWorkShape DEF AtWork
<1>a. From(asked, s, r)
  BY <1>1, AtWorkShape
<1>3. ext' = [ext EXCEPT ![s] = e]
  BY <1>1, <1>2, Turned
<1>4. file' = [file EXCEPT ![s] = [file[s] EXCEPT ![a] = [file[s][a] EXCEPT !["rows"] = Contents[r]]]]
  BY <1>1
<1> HIDE DEF r, a
<1>5. /\ DOMAIN file' = Shards
      /\ \A t \in Shards : t # s => file'[t] = file[t]
      /\ DOMAIN file'[s] = LayerSet
      /\ \A l \in LayerSet : DOMAIN file'[s][l] = FileParts
      /\ \A l \in LayerSet : l # a => file'[s][l] = file[s][l]
      /\ file'[s][a].rows = Contents[r]
  <2>1. "rows" \in FileParts
    BY DEF FileParts
  <2> QED BY <1>2, <1>4, <2>1, OnePart
<1>6. Working(e, file'[s], r)
  <2>1. \A l \in LayerSet : (l < a => l # a) /\ (a < l => l # a)
    BY <1>2 DEF LayerSet
  <2> QED BY <1>2, <1>5, <2>1 DEF Working
<1>7. /\ e \in [pc : {"load", "close", "side", "meta", "ok", "bad"}, at : LayerSet]
      /\ e.pc = "side" /\ e.at \in LayerSet
  BY <1>2
<1> HIDE DEF e
<1>8. Settled(asked, s, file'[s])
  BY <1>2, <1>6, <1>7, <1>a, WorkSettles
<1>9. /\ UNCHANGED <<req, plan, pc, todo, out, merged, status, asked>>
      /\ ext[s].pc # "off" /\ DOMAIN plan \subseteq Shards
  BY <1>1, AtWorkShape
<1> QED BY <1>3, <1>5, <1>6, <1>7, <1>8, <1>9, ExtractorStep DEF r

LEMMA SideStep ==
    ASSUME Contiguous, ShardInv, NEW s \in Shards, Side(s)
    PROVE  ShardInv'
<1> DEFINE r == RangeOf(req, plan, s)
           a == ext[s].at
           e == [pc |-> "meta", at |-> a]
<1>1. /\ ext[s].pc = "side" /\ ext' = [ext EXCEPT ![s].pc = "meta"]
      /\ file' = [file EXCEPT ![s][a].side = plan[s]]
      /\ UNCHANGED <<req, plan, pc, todo, out, merged, status, launches, asked, faults>>
  BY DEF Side
<1>2. /\ r \in Ranges /\ ext[s] = [pc |-> "side", at |-> a] /\ a \in LayerSet
      /\ ShardTypes /\ Working(ext[s], file[s], r) /\ plan[s] = Sidecar(r)
  BY <1>1, AtWorkShape DEF AtWork
<1>a. From(asked, s, r)
  BY <1>1, AtWorkShape
<1>3. ext' = [ext EXCEPT ![s] = e]
  BY <1>1, <1>2, Turned
<1>4. file' = [file EXCEPT ![s] = [file[s] EXCEPT ![a] = [file[s][a] EXCEPT !["side"] = plan[s]]]]
  BY <1>1
<1> HIDE DEF r, a
<1>5. /\ DOMAIN file' = Shards
      /\ \A t \in Shards : t # s => file'[t] = file[t]
      /\ DOMAIN file'[s] = LayerSet
      /\ \A l \in LayerSet : DOMAIN file'[s][l] = FileParts
      /\ \A l \in LayerSet : l # a => file'[s][l] = file[s][l]
      /\ file'[s][a].side = plan[s] /\ file'[s][a].rows = file[s][a].rows
  <2>1. "side" \in FileParts /\ "rows" \in FileParts
    BY DEF FileParts
  <2>2. /\ DOMAIN file' = Shards
        /\ \A t \in Shards : t # s => file'[t] = file[t]
        /\ DOMAIN file'[s] = LayerSet
        /\ \A l \in LayerSet : DOMAIN file'[s][l] = FileParts
        /\ \A l \in LayerSet : l # a => file'[s][l] = file[s][l]
    BY <1>2, <1>4, <2>1, OnePart
  <2>3. file'[s][a]["side"] = plan[s]
    BY <1>2, <1>4, <2>1, OnePart
  <2>4. \A other \in FileParts : other # "side" => file'[s][a][other] = file[s][a][other]
    BY <1>2, <1>4, <2>1, OnePart
  <2> QED BY <2>1, <2>2, <2>3, <2>4
<1>6. Working(e, file'[s], r)
  <2>1. \A l \in LayerSet : (l < a => l # a) /\ (a < l => l # a)
    BY <1>2 DEF LayerSet
  <2> QED BY <1>2, <1>5, <2>1 DEF Working
<1>7. /\ e \in [pc : {"load", "close", "side", "meta", "ok", "bad"}, at : LayerSet]
      /\ e.pc = "meta" /\ e.at \in LayerSet
  BY <1>2
<1> HIDE DEF e
<1>8. Settled(asked, s, file'[s])
  BY <1>2, <1>6, <1>7, <1>a, WorkSettles
<1>9. /\ UNCHANGED <<req, plan, pc, todo, out, merged, status, asked>>
      /\ ext[s].pc # "off" /\ DOMAIN plan \subseteq Shards
  BY <1>1, AtWorkShape
<1> QED BY <1>3, <1>5, <1>6, <1>7, <1>8, <1>9, ExtractorStep DEF r

LEMMA MetaStep ==
    ASSUME Contiguous, ShardInv, NEW s \in Shards, Meta(s)
    PROVE  ShardInv'
<1> DEFINE r == RangeOf(req, plan, s)
           a == ext[s].at
           e == IF a = Layers THEN [pc |-> "ok", at |-> a] ELSE [pc |-> "close", at |-> a + 1]
<1>1. /\ ext[s].pc = "meta"
      /\ ext' = [ext EXCEPT ![s] = IF ext[s].at = Layers THEN [ext[s] EXCEPT !.pc = "ok"]
                                   ELSE [pc |-> "close", at |-> ext[s].at + 1]]
      /\ file' = [file EXCEPT ![s][a].meta = plan[s].count]
      /\ UNCHANGED <<req, plan, pc, todo, out, merged, status, launches, asked, faults>>
  BY DEF Meta
<1>2. /\ r \in Ranges /\ ext[s] = [pc |-> "meta", at |-> a] /\ a \in LayerSet
      /\ ShardTypes /\ Working(ext[s], file[s], r)
  BY <1>1, AtWorkShape DEF AtWork
<1>a. From(asked, s, r)
  BY <1>1, AtWorkShape
<1>3. ext' = [ext EXCEPT ![s] = e]
  <2>1. [ext[s] EXCEPT !.pc = "ok"] = [pc |-> "ok", at |-> a]
    BY <1>2
  <2> QED BY <1>1, <2>1
<1>4. file' = [file EXCEPT ![s] = [file[s] EXCEPT ![a] = [file[s][a] EXCEPT !["meta"] = plan[s].count]]]
  BY <1>1
<1> HIDE DEF r, a
<1>5. /\ DOMAIN file' = Shards
      /\ \A t \in Shards : t # s => file'[t] = file[t]
      /\ DOMAIN file'[s] = LayerSet
      /\ \A l \in LayerSet : DOMAIN file'[s][l] = FileParts
      /\ \A l \in LayerSet : file'[s][l].rows = file[s][l].rows /\ file'[s][l].side = file[s][l].side
  <2>1. "meta" \in FileParts /\ "side" \in FileParts /\ "rows" \in FileParts
    BY DEF FileParts
  <2>2. /\ file'[s][a].rows = file[s][a].rows /\ file'[s][a].side = file[s][a].side
        /\ \A l \in LayerSet : l # a => file'[s][l] = file[s][l]
    BY <1>2, <1>4, <2>1, OnePart
  <2>3. /\ DOMAIN file' = Shards
        /\ \A t \in Shards : t # s => file'[t] = file[t]
        /\ DOMAIN file'[s] = LayerSet
        /\ \A l \in LayerSet : DOMAIN file'[s][l] = FileParts
    BY <1>2, <1>4, <2>1, OnePart
  <2> QED BY <2>2, <2>3
<1>6. a \in Nat /\ a >= 1 /\ a <= Layers /\ Layers \in Nat
  BY <1>2, Sharding DEF LayerSet
<1>7. \A l \in LayerSet : l < a + 1 => Written(file'[s][l], r)
  <2>1. \A l \in LayerSet : l < a + 1 => l < a \/ l = a
    BY <1>6 DEF LayerSet
  <2> QED BY <1>2, <1>5, <2>1 DEF Working, Written
<1>8. CASE a = Layers
  <2>1. e = [pc |-> "ok", at |-> a]
    BY <1>8
  <2>2. /\ e \in [pc : {"load", "close", "side", "meta", "ok", "bad"}, at : LayerSet]
        /\ e.pc = "ok"
    BY <1>2, <2>1
  <2> HIDE DEF e
  <2>3. \A l \in LayerSet : Written(file'[s][l], r)
    BY <1>6, <1>7, <1>8 DEF LayerSet
  <2>4. Settled(asked, s, file'[s])
    BY <1>2, <1>a, <2>3 DEF Settled, AllHold, Written
  <2>5. /\ UNCHANGED <<req, plan, pc, todo, out, merged, status, asked>>
        /\ ext[s].pc # "off" /\ DOMAIN plan \subseteq Shards
    BY <1>1, AtWorkShape
  <2> QED BY <1>3, <1>5, <2>2, <2>3, <2>4, <2>5, ExtractorStep DEF r, AtWork
<1>9. CASE a # Layers
  <2>1. e = [pc |-> "close", at |-> a + 1]
    BY <1>9
  <2>2. a + 1 \in LayerSet
    BY <1>6, <1>9 DEF LayerSet
  <2>3. /\ e \in [pc : {"load", "close", "side", "meta", "ok", "bad"}, at : LayerSet]
        /\ e.pc = "close" /\ e.at = a + 1
    BY <2>1, <2>2
  <2> HIDE DEF e
  <2>4. Working(e, file'[s], r)
    <3>1. \A l \in LayerSet : (a + 1 < l => a < l) /\ a < a + 1
      BY <1>6 DEF LayerSet
    <3> QED BY <1>2, <1>5, <1>7, <2>2, <2>3, <3>1 DEF Working
  <2>5. Settled(asked, s, file'[s])
    BY <1>2, <1>a, <2>2, <2>3, <2>4, WorkSettles
  <2>6. /\ UNCHANGED <<req, plan, pc, todo, out, merged, status, asked>>
        /\ ext[s].pc # "off" /\ DOMAIN plan \subseteq Shards
    BY <1>1, AtWorkShape
  <2> QED BY <1>3, <1>5, <2>3, <2>4, <2>5, <2>6, ExtractorStep DEF r
<1> QED BY <1>8, <1>9

-----------------------------------------------------------------------------
LEMMA ShardInvNext ==
    ASSUME Contiguous
    PROVE  ShardInv /\ [ShardNext]_shardVars => ShardInv'
<1> SUFFICES ASSUME ShardInv, [ShardNext]_shardVars PROVE ShardInv'
  OBVIOUS
<1>1. CASE NewRequest
  <2>1. PICK q \in Launches : Launch(q)
    BY <1>1 DEF NewRequest, Launches
  <2> QED BY <2>1, LaunchStep
<1>2. CASE Relaunch
  <2>1. Again(req) \in Launches /\ Launch(Again(req))
    BY <1>2, LaunchesShape DEF Relaunch, ShardInv, PlanInv
  <2> QED BY <2>1, LaunchStep
<1>3. CASE Step
  <2>1. CASE PollFailure
    BY <2>1, StopStep DEF PollFailure
  <2>2. CASE RefuseMerge
    <3>1. ext = NoExtractor
      BY <2>2 DEF RefuseMerge, ShardInv, IdleInv
    <3> QED BY <2>2, <3>1, StopStep DEF RefuseMerge
  <2> QED BY <1>3, <2>1, <2>2, StartStep, StartedStep, PollSuccessStep, PublishStep, CompleteStep
          DEF Step
<1>4. CASE Kill
  BY <1>4, StopStep DEF Kill
<1>5. ASSUME NEW s \in Shards, Extract(s) \/ Fail(s)
      PROVE  ShardInv'
  <2>1. CASE Refuse(s)
    BY <2>1, AtWorkShape, BadStep DEF Refuse
  <2>2. CASE Fail(s)
    BY <2>2, AtWorkShape, BadStep DEF Fail
  <2> QED BY <1>5, <2>1, <2>2, OpenStep, CloseStep, SideStep, MetaStep DEF Extract
<1>6. CASE UNCHANGED shardVars
  <2>1. UNCHANGED <<req, plan, pc, todo, ext, file, out, merged, status, asked>>
    BY <1>6 DEF shardVars
  <2>2. PlanInv' /\ AskedInv' /\ IdleInv' /\ LaunchInv' /\ MergeInv' /\ DoneInv'
    BY <2>1 DEF ShardInv, PlanInv, AskedInv, Asked, IdleInv, LaunchInv, Provided,
                 MergeInv, DoneInv, Prepared, Told, OnePlan
  <2>3. FilesInv' /\ ShardTypes'
    BY <2>1 DEF ShardInv, FilesInv, ExtractorOK, ShardTypes
  <2> QED BY <2>2, <2>3 DEF ShardInv
<1> QED BY <1>1, <1>2, <1>3, <1>4, <1>5, <1>6 DEF ShardNext

(* Launches may be killed at any step, repeated, or made for other rows in  *)
(* the same directory: once the report says completed, every layer has the  *)
(* number of rows asked for under a sidecar that says so; and if all that   *)
(* was launched in the directory had one plan (or two layers tell plans     *)
(* apart, with one batch size), they are those rows, in the order of the    *)
(* source, and with kept batches what one extractor would have written.     *)
(* The documents of the source must be contiguous.                          *)
THEOREM CompletedSelections ==
    ASSUME Contiguous
    PROVE  ShardSpec => []CompletedIsSelection
<1>1. ShardInit => ShardInv
  <2> SUFFICES ASSUME ShardInit PROVE ShardInv
    OBVIOUS
  <2>1. /\ req = None /\ pc = "off" /\ ext = NoExtractor
        /\ file = [s \in Shards |-> [l \in LayerSet |-> NoFiles]]
        /\ out = [l \in LayerSet |-> NoFiles]
        /\ merged = <<1, 0>> /\ status = "none"
    BY DEF ShardInit
  <2>2. 1 \in LayerSet /\ Layers \in Nat /\ 1 \in 1..(Layers + 1)
    BY Sharding DEF LayerSet
  <2>3. DOMAIN NoFiles = FileParts
    BY DEF NoFiles, FileParts
  <2>4. ShardTypes
    BY <2>1, <2>2, <2>3 DEF ShardTypes, NoExtractor, Gone
  <2>5. PlanInv /\ AskedInv /\ IdleInv /\ LaunchInv /\ MergeInv /\ DoneInv
    BY <2>1 DEF PlanInv, AskedInv, IdleInv, LaunchInv, MergeInv, DoneInv
  <2>6. FilesInv
    <3> SUFFICES ASSUME NEW s \in Shards PROVE Settled(asked, s, file[s]) /\ ExtractorOK(s)
      BY DEF FilesInv
    <3>1. file[s][1].rows = None
      BY <2>1, <2>2 DEF NoFiles
    <3> QED BY <2>1, <2>2, <3>1 DEF Settled, ExtractorOK, AtWork, NoExtractor, Gone
  <2> QED BY <2>4, <2>5, <2>6 DEF ShardInv
<1>2. ShardInv => CompletedIsSelection
  <2> SUFFICES ASSUME ShardInv, status = "completed", Acceptable(req),
                      NEW l \in LayerSet
               PROVE  /\ Len(out[l].rows) = req.limit /\ out[l].meta = req.limit
                      /\ out[l].side = [start |-> req.start, count |-> req.limit]
                      /\ Told =>
                            /\ [i \in DOMAIN out[l].rows |-> out[l].rows[i].row]
                                  = [i \in 1..req.limit |-> req.start + i - 1]
                            /\ req.align = "document_batch"
                                  => out[l].rows = Extracted(Selected(req), req.batch)
    BY DEF CompletedIsSelection
  <2>1. req \in Launches /\ plan = ShardPlan(req) /\ OutOK(req, plan, out[l], Told)
    BY DEF ShardInv, AskedInv, DoneInv
  <2>2. ASSUME Told
        PROVE  /\ [i \in DOMAIN out[l].rows |-> out[l].rows[i].row]
                     = [i \in 1..req.limit |-> req.start + i - 1]
               /\ req.align = "document_batch" => out[l].rows = Extracted(Selected(req), req.batch)
    <3>1. out[l].rows = Joined(req, ShardPlan(req))
      BY <2>1, <2>2 DEF OutOK
    <3> QED BY <2>1, <3>1, JoinedShape
  <2> QED BY <2>1, <2>2 DEF OutOK, OutSide
<1> QED BY <1>1, <1>2, ShardInvNext, PTL DEF ShardSpec

-----------------------------------------------------------------------------
(* The types of the launches, their bounds included.                        *)
LEMMA PlanTyped ==
    ASSUME NEW q \in Launches
    PROVE  /\ ShardPlan(q) \in Seq([start : SourceRows, count : 1..Len(Doc)])
           /\ DOMAIN ShardPlan(q) \subseteq Shards
<1> DEFINE P == ShardPlan(q)
           T == [start : SourceRows, count : 1..Len(Doc)]
<1>1. q \in Request /\ Len(Doc) \in Nat
  BY LaunchesShape, Sharding
<1>2. CASE ~Acceptable(q)
  <2>1. P = <<>>
    BY <1>1, <1>2 DEF ShardPlan, Acceptable, Request
  <2> HIDE DEF P, T
  <2>2. P \in Seq(T) /\ DOMAIN P = {}
    BY <2>1
  <2> QED BY <2>2 DEF P, T
<1>3. CASE Acceptable(q)
  <2>1. PICK n \in 1..q.devices : \E edge : Edges(q, n, edge) /\ P = Between(n, edge)
    BY <1>1, <1>3, PlanShape
  <2>2. PICK edge : Edges(q, n, edge) /\ P = Between(n, edge)
    BY <2>1
  <2>3. n \in Nat /\ q.devices \in Nat /\ DOMAIN P = 1..n
    BY <1>1, <2>2 DEF Request, Between
  <2>4. ASSUME NEW k \in 1..n PROVE P[k] \in T
    <3> DEFINE u == edge[k - 1]
               c == edge[k] - edge[k - 1]
    <3>1. P[k] = [start |-> u, count |-> c]
      BY <2>2 DEF Between, Piece
    <3>2. u \in Nat /\ c \in Nat /\ c > 0 /\ u + c <= Len(Doc)
      BY <1>3, <2>2, BetweenShape
    <3> HIDE DEF u, c, P
    <3>3. u \in SourceRows /\ c \in 1..Len(Doc)
      BY <1>1, <3>2 DEF SourceRows
    <3> QED BY <3>1, <3>3
  <2>5. P = [k \in 1..n |-> P[k]]
    BY <2>2 DEF Between
  <2> HIDE DEF P, T
  <2>6. P \in [1..n -> T]
    BY <2>4, <2>5
  <2>7. P \in Seq(T)
    BY <2>3, <2>6, LengthIs
  <2>8. 1..n \subseteq Shards
    <3>1. \E o \in Requests : o.devices = q.devices
      BY <1>1, Sharding DEF Launches, Again, Request
    <3>2. 1..n \subseteq 1..q.devices
      BY <2>3
    <3> QED BY <3>1, <3>2 DEF Shards
  <2> QED BY <2>3, <2>7, <2>8 DEF P, T
<1> QED BY <1>2, <1>3

ExtractorType == [pc : {"off", "load", "close", "side", "meta", "ok", "bad"}, at : LayerSet]

(* Whatever is launched, killed and repeated, the state keeps its types and *)
(* the launches and faults their bounds: the launcher's layers end at       *)
(* Layers + 1 and an extractor's at Layers.                                 *)
THEOREM ShardingTypes == ShardSpec => []ShardTypeOK
<1> DEFINE Inv == PlanInv /\ ShardTypeOK
<1>1. /\ 1 \in LayerSet /\ Layers \in Nat /\ Layers >= 1
      /\ NoExtractor \in [Shards -> ExtractorType]
      /\ <<1, 0>> \in (1..(Layers + 1)) \X (0..2)
      /\ MaxLaunches \in Nat /\ MaxFaults \in Nat
  BY Sharding DEF LayerSet, NoExtractor, Gone, ExtractorType
<1>2. ShardInit => Inv
  <2> SUFFICES ASSUME ShardInit PROVE Inv
    OBVIOUS
  <2>1. <<>> \in Seq([start : SourceRows, count : 1..Len(Doc)])
    OBVIOUS
  <2> QED BY <1>1, <2>1 DEF ShardInit, ShardTypeOK, Bounds, PlanInv, ExtractorType
<1>3. Inv /\ [ShardNext]_shardVars => Inv'
  <2> SUFFICES ASSUME Inv, [ShardNext]_shardVars PROVE ShardTypeOK'
    BY PlanInvNext
  <2> USE DEF Bounds
  <2>1. /\ ext \in [Shards -> ExtractorType] /\ merged \in (1..(Layers + 1)) \X (0..2)
        /\ launches \in 0..MaxLaunches /\ faults \in 0..MaxFaults /\ todo \subseteq Shards
        /\ DOMAIN file = Shards /\ DOMAIN out = LayerSet
    BY DEF ShardTypeOK, ExtractorType
  <2>2. ASSUME NEW q \in Launches, Launch(q), launches' \in 0..MaxLaunches
        PROVE  ShardTypeOK'
    <3>1. /\ req' = q /\ q \in Request /\ plan' = ShardPlan(q)
          /\ UNCHANGED <<ext, file, out, merged, faults>>
          /\ pc' \in {"off", "start"} /\ status' \in {status, "starting"}
          /\ todo' = todo \/ todo' \subseteq DOMAIN ShardPlan(q)
      BY <2>2, LaunchesShape DEF Launch
    <3>2. /\ plan' \in Seq([start : SourceRows, count : 1..Len(Doc)])
          /\ todo' \subseteq Shards
      BY <2>1, <3>1, PlanTyped
    <3> QED BY <2>1, <2>2, <3>1, <3>2 DEF ShardTypeOK
  <2>3. CASE NewRequest
    <3>1. PICK q \in Launches : Launch(q)
      BY <2>3 DEF NewRequest, Launches
    <3>2. launches' \in 0..MaxLaunches
      BY <1>1, <2>1, <2>3 DEF NewRequest
    <3> QED BY <2>2, <3>1, <3>2
  <2>4. CASE Relaunch
    <3>1. Again(req) \in Launches /\ Launch(Again(req))
      BY <2>4, LaunchesShape DEF Relaunch, PlanInv
    <3> QED BY <2>1, <2>2, <2>4, <3>1 DEF Relaunch
  <2>5. CASE Step
    <3>1. CASE Start
      <4>1. PICK s \in todo : /\ ext' = [ext EXCEPT ![s] = [Gone EXCEPT !.pc = "load"]]
                              /\ todo' = todo \ {s}
        BY <3>1 DEF Start
      <4>2. [Gone EXCEPT !.pc = "load"] \in ExtractorType
        BY <1>1 DEF Gone, ExtractorType
      <4>3. ext' \in [Shards -> ExtractorType] /\ todo' \subseteq Shards
        BY <2>1, <4>1, <4>2
      <4> QED BY <3>1, <4>3 DEF Start, ShardTypeOK, ExtractorType
    <3>2. CASE Publish
      <4> DEFINE l == merged[1]
                 m == merged[2]
      <4>1. l \in 1..(Layers + 1) /\ m \in 0..2 /\ l <= Layers
        BY <2>1, <3>2 DEF Publish
      <4>2. merged' = IF m = 2 THEN <<l + 1, 0>> ELSE <<l, m + 1>>
        BY <3>2 DEF Publish
      <4> HIDE DEF l, m
      <4>3. merged' \in (1..(Layers + 1)) \X (0..2)
        BY <1>1, <4>1, <4>2
      <4>4. DOMAIN out' = LayerSet
        BY <2>1, <3>2 DEF Publish
      <4> QED BY <3>2, <4>3, <4>4 DEF Publish, ShardTypeOK
    <3>3. CASE Started
      BY <3>3 DEF Started, ShardTypeOK
    <3>4. CASE PollFailure
      BY <1>1, <3>4 DEF PollFailure, ShardTypeOK, ExtractorType
    <3>5. CASE PollSuccess
      BY <1>1, <3>5 DEF PollSuccess, ShardTypeOK, ExtractorType
    <3>6. CASE RefuseMerge
      BY <3>6 DEF RefuseMerge, ShardTypeOK
    <3>7. CASE Complete
      BY <3>7 DEF Complete, ShardTypeOK
    <3> QED BY <2>5, <3>1, <3>2, <3>3, <3>4, <3>5, <3>6, <3>7 DEF Step
  <2>6. CASE Kill
    BY <1>1, <2>1, <2>6 DEF Kill, ShardTypeOK, ExtractorType
  <2>7. ASSUME NEW s \in Shards, Extract(s) \/ Fail(s)
        PROVE  ShardTypeOK'
    <3>1. ext[s] \in ExtractorType /\ ext[s].at \in LayerSet
      BY <2>1 DEF ExtractorType
    <3>2. /\ UNCHANGED <<req, plan, pc, todo, out, merged, status, launches>>
          /\ faults' \in 0..MaxFaults
      BY <1>1, <2>1, <2>7 DEF Extract, Open, Refuse, Close,
                              Side, Meta, Fail
    <3>3. DOMAIN file' = Shards
      BY <2>1, <2>7 DEF Extract, Open, Refuse, Close,
                        Side, Meta, Fail
    <3>4. \A x \in {"close", "side", "meta", "ok", "bad"} :
             [ext[s] EXCEPT !.pc = x] \in ExtractorType
      BY <3>1 DEF ExtractorType
    <3>5. \A e \in ExtractorType : [ext EXCEPT ![s] = e] \in [Shards -> ExtractorType]
      BY <2>1
    <3>6. ext' \in [Shards -> ExtractorType]
      <4>1. CASE Meta(s)
        <5>1. CASE ext[s].at = Layers
          <6>1. ext' = [ext EXCEPT ![s] = [ext[s] EXCEPT !.pc = "ok"]]
            BY <4>1, <5>1 DEF Meta
          <6> QED BY <3>4, <3>5, <6>1
        <5>2. CASE ext[s].at # Layers
          <6>1. ext' = [ext EXCEPT ![s] = [pc |-> "close", at |-> ext[s].at + 1]]
            BY <4>1, <5>2 DEF Meta
          <6>2. ext[s].at + 1 \in LayerSet
            BY <1>1, <3>1, <5>2 DEF LayerSet
          <6>3. [pc |-> "close", at |-> ext[s].at + 1] \in ExtractorType
            BY <6>2 DEF ExtractorType
          <6> QED BY <3>5, <6>1, <6>3
        <5> QED BY <5>1, <5>2
      <4>2. CASE ~Meta(s)
        <5>1. \E x \in {"close", "side", "meta", "ok", "bad"} :
                 ext' = [ext EXCEPT ![s] = [ext[s] EXCEPT !.pc = x]]
          BY <2>7, <4>2 DEF Extract, Open, Refuse, Close,
                            Side, Fail
        <5> QED BY <3>4, <3>5, <5>1
      <4> QED BY <4>1, <4>2
    <3> QED BY <3>2, <3>3, <3>6 DEF ShardTypeOK, ExtractorType
  <2>8. CASE UNCHANGED shardVars
    BY <2>8 DEF shardVars, ShardTypeOK
  <2> QED BY <2>3, <2>4, <2>5, <2>6, <2>7, <2>8 DEF ShardNext
<1>4. Inv => ShardTypeOK
  OBVIOUS
<1> QED BY <1>2, <1>3, <1>4, PTL DEF ShardSpec
===============================================================================
