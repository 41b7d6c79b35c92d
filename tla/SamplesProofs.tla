--------------------------- MODULE SamplesProofs ---------------------------
(* Theorems about internal/ml/features.go: about BuildSamples, for any     *)
(* aggregates, any parameters and any hash, and then, as Features has it,  *)
(* about the vector of one of its cells, for any aggregates and any query. *)
EXTENDS Samples, Features, FiniteSetTheorems, WellFoundedInduction, TLAPS

----------------------------------------------------------------------------
(* Counting.                                                               *)

(* A set that is listed once each by the elements of a finite one. *)
LEMMA OneForEach ==
  ASSUME NEW S, IsFiniteSet(S), NEW T, NEW f \in [S -> T],
         \A x \in T : \E k \in S : f[k] = x
  PROVE  /\ IsFiniteSet(T)
         /\ (\A k, m \in S : f[k] = f[m] => k = m) => Cardinality(T) = Cardinality(S)
<1>1. f \in Surjection(S, T)
  BY DEF Surjection
<1>2. /\ IsFiniteSet(T)
      /\ Cardinality(T) = Cardinality(S) <=> f \in Injection(S, T)
  BY <1>1, FS_Surjection
<1>3. QED  BY <1>2 DEF Injection, IsInjective

(* A finite set without some of its elements. *)
LEMMA Without ==
  ASSUME NEW S, IsFiniteSet(S), NEW T, T \subseteq S
  PROVE  /\ IsFiniteSet(T) /\ IsFiniteSet(S \ T)
         /\ Cardinality(T) \in Nat /\ Cardinality(S \ T) \in Nat
         /\ Cardinality(S) = Cardinality(T) + Cardinality(S \ T)
<1> DEFINE R == S \ T
<1>1. IsFiniteSet(T) /\ IsFiniteSet(R)
  BY FS_Subset
<1>2. S = T \cup R /\ T \cap R = {}
  OBVIOUS
<1> HIDE DEF R
<1>3. /\ Cardinality(T \cup R) = Cardinality(T) + Cardinality(R) - Cardinality(T \cap R)
      /\ Cardinality(T) \in Nat /\ Cardinality(R) \in Nat
  BY <1>1, FS_Union, FS_CardinalityType
<1>4. Cardinality(T \cup R) = Cardinality(S) /\ Cardinality(T \cap R) = 0
  BY <1>2, FS_EmptySet
<1>5. QED  BY <1>1, <1>3, <1>4 DEF R

(* The elements of a set of numbers have different ranks, and so there is  *)
(* one of each rank. *)
LEMMA RankExists ==
  ASSUME NEW S \in SUBSET Int, IsFiniteSet(S), NEW r \in 0 .. Cardinality(S) - 1
  PROVE  \E n \in S : Cardinality({m \in S : m < n}) = r
<1> DEFINE N == Cardinality(S)
           B(x) == {m \in S : m < x}
           Rank == [n \in S |-> Cardinality(B(n))]
           Ranks == 0 .. N - 1
<1>1. N \in Nat /\ \A n \in S : B(n) \subseteq S \ {n} /\ IsFiniteSet(B(n))
  BY FS_Subset, FS_CardinalityType
<1>2. \A n \in S : Cardinality(B(n)) \in Ranks
  <2>1. TAKE n \in S
  <2> DEFINE Others == S \ {n}
             C == B(n)
  <2>2. IsFiniteSet(Others) /\ Cardinality(Others) = N - 1 /\ C \subseteq Others /\ IsFiniteSet(C)
    BY <1>1, FS_RemoveElement
  <2> HIDE DEF Others, C, N
  <2>3. Cardinality(C) <= Cardinality(Others) /\ Cardinality(C) \in Nat
    BY <2>2, FS_Subset, FS_CardinalityType
  <2>4. QED  BY <1>1, <2>2, <2>3 DEF C
<1>3. \A n, p \in S : n < p => Cardinality(B(n)) < Cardinality(B(p))
  <2>1. TAKE n \in S, p \in S
  <2>2. HAVE n < p
  <2>3. B(n) \subseteq B(p) \ {n} /\ n \in B(p)
    <3>1. \A m \in S : m < n => m < p /\ m # n
      <4>1. n \in Int /\ p \in Int
        OBVIOUS
      <4>2. QED  BY <2>2, <4>1
    <3>2. QED  BY <2>2, <3>1
  <2> DEFINE C == B(n)
             D == B(p)
             E == D \ {n}
  <2>4. IsFiniteSet(C) /\ IsFiniteSet(D) /\ C \subseteq E /\ n \in D
    BY <1>1, <2>3
  <2>5. Cardinality(C) \in Int /\ Cardinality(D) \in Int
    BY <1>2
  <2> HIDE DEF C, D
  <2>6. IsFiniteSet(E) /\ Cardinality(E) = Cardinality(D) - 1
    BY <2>4, FS_RemoveElement
  <2> HIDE DEF E
  <2>7. Cardinality(C) <= Cardinality(E)
    BY <2>4, <2>6, FS_Subset
  <2>8. Cardinality(C) < Cardinality(D)
    BY <2>5, <2>6, <2>7
  <2>9. QED  BY <2>8 DEF C, D
<1> HIDE DEF B, N
<1>4. \A n, p \in S : Cardinality(B(n)) = Cardinality(B(p)) => n = p
  <2>1. TAKE n \in S, p \in S
  <2>2. HAVE Cardinality(B(n)) = Cardinality(B(p))
  <2>3. Cardinality(B(n)) \in Int /\ ~(n < p) /\ ~(p < n)
    BY <1>2, <1>3, <2>2
  <2>4. QED  BY <2>3
<1>5. IsFiniteSet(Ranks) /\ Cardinality(Ranks) = N
  BY <1>1, FS_Interval
<1>6. Rank \in Injection(S, Ranks)
  <2>1. Rank \in [S -> Ranks]
    BY <1>2
  <2>2. QED  BY <1>4, <2>1 DEF Injection, IsInjective
<1> HIDE DEF Rank, Ranks
<1>7. Rank \in Surjection(S, Ranks)
  BY <1>5, <1>6, FS_Injection DEF N
<1>8. r \in Ranks
  BY DEF Ranks, N
<1>9. \E n \in S : Rank[n] = r
  BY <1>7, <1>8 DEF Surjection
<1>10. QED  BY <1>9 DEF Rank, B

----------------------------------------------------------------------------
(* The cells of a call, which never changes.                               *)

(* The candidates are finitely many, of weeks of the aggregates. *)
LEMMA CellsType ==
  ASSUME call \in Calls
  PROVE  /\ Weeks \subseteq Nat /\ IsFiniteSet(Candidates)
         /\ \A k \in Candidates :
              k \in [week : Weeks, zone : Zones, slot : Slot] /\ k.week \in Nat
         /\ Positive \subseteq Candidates /\ Positive \subseteq Kept /\ Kept \subseteq Candidates
<1> DEFINE C == call.counted
           weekOf == [k \in C |-> k.week]
           zoneOf == [k \in C |-> k.zone]
           Grid == (Weeks \X Zones) \X Slot
           cellOf == [p \in Grid |-> [week |-> p[1][1], zone |-> p[1][2], slot |-> p[2]]]
           Cube == [week : Weeks, zone : Zones, slot : Slot]
<1>1. IsFiniteSet(C) /\ IsFiniteSet(Slot) /\ \A k \in C : k.week \in Nat
  BY SamplesAssumption
<1>2. Weeks \subseteq Nat
  BY <1>1 DEF Weeks
<1>3. IsFiniteSet(Weeks)
  <2>1. weekOf \in [C -> Weeks] /\ \A w \in Weeks : \E k \in C : weekOf[k] = w
    BY DEF Weeks
  <2> HIDE DEF weekOf, C
  <2>2. QED  BY <1>1, <2>1, OneForEach
<1>4. IsFiniteSet(Zones)
  <2>1. zoneOf \in [C -> Zones] /\ \A z \in Zones : \E k \in C : zoneOf[k] = z
    BY DEF Zones
  <2> HIDE DEF zoneOf, C
  <2>2. QED  BY <1>1, <2>1, OneForEach
<1>5. IsFiniteSet(Grid)
  <2> DEFINE WZ == Weeks \X Zones
  <2>1. IsFiniteSet(WZ)
    BY <1>3, <1>4, FS_Product
  <2> HIDE DEF WZ
  <2>2. IsFiniteSet(WZ \X Slot)
    BY <1>1, <2>1, FS_Product
  <2>3. QED  BY <2>2 DEF WZ
<1>6. IsFiniteSet(Cube)
  <2>1. cellOf \in [Grid -> Cube]
    OBVIOUS
  <2>2. ASSUME NEW k \in Cube
        PROVE  \E p \in Grid : cellOf[p] = k
    <3>1. <<<<k.week, k.zone>>, k.slot>> \in Grid
      OBVIOUS
    <3>2. cellOf[<<<<k.week, k.zone>>, k.slot>>] = k
      BY <3>1
    <3>3. QED  BY <3>1, <3>2
  <2> HIDE DEF cellOf, Grid, Cube
  <2>3. QED  BY <1>5, <2>1, <2>2, OneForEach
<1>7. Candidates \subseteq Cube
  BY DEF Candidates, BaseWeeks
<1>8. IsFiniteSet(Candidates)
  BY <1>6, <1>7, FS_Subset
<1>9. QED  BY <1>2, <1>7, <1>8 DEF Positive, Kept

(* Every cell has an observation of its own, which predicts the next week, *)
(* and which is labelled 1 where that week is positive. *)
LEMMA ObservationsDiffer ==
  ASSUME NEW k, NEW m
  PROVE  /\ SampleOf(k) = SampleOf(m) => k = m
         /\ SampleOf(k).target = k.week + 1
         /\ SampleOf(k).label = 1 <=> k \in Positive
         /\ SampleOf(k).label = 0 <=> k \notin Positive
<1>1. SampleOf(k).cell = k /\ SampleOf(m).cell = m
  BY DEF SampleOf
<1>2. /\ SampleOf(k).target = k.week + 1
      /\ SampleOf(k).label = IF k \in Positive THEN 1 ELSE 0
  BY DEF SampleOf, AddWeeks
<1>3. QED  BY <1>1, <1>2

(* A set of cells has as many observations as cells. *)
LEMMA ObservationsOf ==
  ASSUME NEW S, IsFiniteSet(S)
  PROVE  /\ IsFiniteSet({SampleOf(k) : k \in S})
         /\ Cardinality({SampleOf(k) : k \in S}) = Cardinality(S)
<1> DEFINE T == {SampleOf(k) : k \in S}
           f == [k \in S |-> SampleOf(k)]
<1>1. f \in [S -> T] /\ \A x \in T : \E k \in S : f[k] = x
  OBVIOUS
<1>2. \A k, m \in S : f[k] = f[m] => k = m
  BY ObservationsDiffer
<1> HIDE DEF f, T
<1>3. IsFiniteSet(T) /\ Cardinality(T) = Cardinality(S)
  BY <1>1, <1>2, OneForEach
<1>4. QED  BY <1>3 DEF T

----------------------------------------------------------------------------
(* The inductive invariant.                                                *)

Called == call \in Calls /\ pc \in {"count", "collect", "split", "fit", "done"}

(* Both sets and the standardizer are empty until they are computed. *)
Pending == /\ pc \in {"count", "collect"} => train = {} /\ test = {}
           /\ pc # "done" => fitted = {}

(* The sets hold observations of candidates, and training sees no others. *)
Observed == /\ IsFiniteSet(train \cup test)
            /\ \A s \in train \cup test : \E k \in Candidates : s = SampleOf(k)
            /\ fitted \subseteq train

(* What the first pass counted. *)
FirstPass == /\ pc = "count" => info = [candidate |-> 0, positive |-> 0, negative |-> 0, kept |-> 0]
             /\ pc = "collect" => info = [candidate |-> Cardinality(Candidates),
                                          positive |-> Cardinality(Positive),
                                          negative |-> Cardinality(Candidates \ Positive),
                                          kept |-> 0]

IInv == Called /\ Pending /\ Observed /\ FirstPass /\ TrainBeforeTest /\ NothingDropped
          /\ ResplitIsProper

(* What the initial states establish. *)
LEMMA InvariantInit == Init => IInv
<1> SUFFICES ASSUME Init PROVE IInv
  OBVIOUS
<1>1. Called /\ Pending /\ FirstPass /\ TrainBeforeTest /\ NothingDropped /\ ResplitIsProper
  BY DEF Init, Called, Pending, FirstPass, TrainBeforeTest, NothingDropped, ResplitIsProper
<1>2. Observed
  BY FS_EmptySet DEF Init, Observed
<1>3. QED  BY <1>1, <1>2 DEF IInv

(* The parameters stay, and with them the cells. *)
LEMMA CallStays ==
  ASSUME Next \/ UNCHANGED vars
  PROVE  /\ call' = call /\ Candidates' = Candidates /\ Positive' = Positive
         /\ \A k : SampleOf(k)' = SampleOf(k)
<1>1. call' = call
  BY DEF Next, TooLittle, Count, Collect, Resplit, KeepSplit, Standardize, Done, vars
<1>2. Weeks' = Weeks /\ Zones' = Zones
  BY <1>1 DEF Weeks, Zones
<1>3. BaseWeeks' = BaseWeeks
  BY <1>1, <1>2 DEF BaseWeeks, ValidTarget
<1>4. Candidates' = Candidates
  BY <1>2, <1>3 DEF Candidates
<1>5. Positive' = Positive
  BY <1>1, <1>4 DEF Positive
<1>6. \A k : SampleOf(k)' = SampleOf(k)
  BY <1>2, <1>5 DEF SampleOf, PreviousWeeks
<1>7. QED  BY <1>1, <1>4, <1>5, <1>6

(* The counts of the first pass. *)
LEMMA FirstPassStep == Called /\ FirstPass /\ [Next]_vars => Called' /\ FirstPass'
<1> SUFFICES ASSUME Called, FirstPass, Next \/ UNCHANGED vars PROVE Called' /\ FirstPass'
  OBVIOUS
<1>1. call' = call /\ Candidates' = Candidates /\ Positive' = Positive
  BY CallStays
<1>2. CASE Count
  <2>1. info' = [candidate |-> Cardinality(Candidates), positive |-> Cardinality(Positive),
                 negative |-> Cardinality(Candidates \ Positive), kept |-> 0]
    <3>1. info = [candidate |-> 0, positive |-> 0, negative |-> 0, kept |-> 0]
      BY <1>2 DEF Count, FirstPass
    <3> DEFINE c == Cardinality(Candidates)
               p == Cardinality(Positive)
               n == Cardinality(Candidates \ Positive)
    <3>2. info' = [info EXCEPT !.candidate = c, !.positive = p, !.negative = n]
      BY <1>2 DEF Count
    <3> HIDE DEF c, p, n
    <3>3. info' = [candidate |-> c, positive |-> p, negative |-> n, kept |-> 0]
      BY <3>1, <3>2
    <3>4. QED  BY <3>3 DEF c, p, n
  <2>2. pc' = "collect"
    BY <1>2 DEF Count
  <2>3. QED  BY <1>1, <2>1, <2>2 DEF Called, FirstPass
<1>3. CASE TooLittle \/ Collect \/ Resplit \/ KeepSplit \/ Standardize
  BY <1>1, <1>3 DEF TooLittle, Collect, Resplit, KeepSplit, Standardize, Called, FirstPass
<1>4. CASE Done \/ UNCHANGED vars
  BY <1>1, <1>4 DEF Done, vars, Called, FirstPass
<1>5. QED  BY <1>2, <1>3, <1>4 DEF Next

----------------------------------------------------------------------------
(* The split by year, and the new one by week.                             *)

(* What the split needs to know of an observation. *)
LEMMA TargetsType ==
  ASSUME Called, Observed
  PROVE  /\ \A s \in train \cup test : s.target \in Nat
         /\ IsFiniteSet(Targets) /\ Targets \subseteq Nat
<1>1. \A s \in train \cup test : s.target \in Nat
  BY CellsType, ObservationsDiffer DEF Called, Observed
<1> DEFINE S == train \cup test
           targetOf == [s \in S |-> s.target]
<1>2. IsFiniteSet(S) /\ targetOf \in [S -> Targets]
      /\ \A w \in Targets : \E s \in S : targetOf[s] = w
  BY DEF Observed, Targets
<1> HIDE DEF S, targetOf
<1>3. IsFiniteSet(Targets)
  BY <1>2, OneForEach
<1>4. QED  BY <1>1, <1>3 DEF Targets

(* There is a week to cut at, with the intended number of weeks before it. *)
LEMMA CutWeekExists ==
  ASSUME IsFiniteSet(Targets), Targets \subseteq Nat, Targets # {}
  PROVE  /\ CutWeek \in Targets
         /\ Cardinality(Targets) \in Nat \ {0}
         /\ Cardinality(Targets) > 1 => \E v \in Targets : v < CutWeek
         /\ Cardinality(Targets) = 1 => \A v \in Targets : ~(v < CutWeek)
<1> DEFINE N == Cardinality(Targets)
           Earlier(w) == {v \in Targets : v < w}
<1>1. N \in Nat \ {0}
  BY FS_CardinalityType, FS_EmptySet
<1> HIDE DEF N
<1>2. CutIdx(N) \in 0 .. N - 1 /\ (N > 1 => CutIdx(N) > 0) /\ (N = 1 => CutIdx(N) = 0)
  BY <1>1 DEF CutIdx
<1>3. \E w \in Targets : Cardinality(Earlier(w)) = CutIdx(N)
  BY <1>2, RankExists DEF N
<1>4. CutWeek \in Targets /\ Cardinality(Earlier(CutWeek)) = CutIdx(N)
  BY <1>3 DEF CutWeek, N
<1>5. IsFiniteSet(Earlier(CutWeek))
  BY FS_Subset
<1>6. Cardinality(Earlier(CutWeek)) = 0 <=> Earlier(CutWeek) = {}
  BY <1>5, FS_EmptySet
<1>7. (N > 1 => Earlier(CutWeek) # {}) /\ (N = 1 => Earlier(CutWeek) = {})
  BY <1>2, <1>4, <1>6
<1>8. QED  BY <1>1, <1>4, <1>7 DEF N

(* A year's split never puts a later week into training than into test.    *)
LEMMA SplitByYear ==
  ASSUME Called, NEW k \in Candidates, NEW m \in Candidates,
         InTrain(SampleOf(k)), ~InTrain(SampleOf(m))
  PROVE  SampleOf(k).target < SampleOf(m).target
<1>1. /\ k.week \in Weeks /\ k.week \in Nat /\ m.week \in Weeks /\ m.week \in Nat
      /\ SampleOf(k).target = k.week + 1 /\ SampleOf(m).target = m.week + 1
  BY CellsType, ObservationsDiffer DEF Called
<1>2. call.trainUntil \in Int /\ \A v \in Weeks : YearOf(v + 1) \in Int
  BY SamplesAssumption DEF Called, Weeks
<1>3. m.week < k.week => YearOf(m.week + 1) <= YearOf(k.week + 1)
  BY <1>1, SamplesAssumption DEF Called, Weeks
<1>4. YearOf(k.week + 1) <= call.trainUntil /\ ~(YearOf(m.week + 1) <= call.trainUntil)
  BY <1>1 DEF InTrain
<1>5. k.week # m.week
  BY <1>4
<1>6. ~(m.week < k.week)
  BY <1>1, <1>2, <1>3, <1>4
<1>7. QED  BY <1>1, <1>5, <1>6

(* One step: both sets, and what the standardizer saw. *)
LEMMA SetsStep ==
  ASSUME IInv, [Next]_vars
  PROVE  Pending' /\ Observed' /\ TrainBeforeTest'
<1> USE DEF IInv
<1> SUFFICES ASSUME Next \/ UNCHANGED vars PROVE Pending' /\ Observed' /\ TrainBeforeTest'
  OBVIOUS
<1>1. /\ call' = call /\ Candidates' = Candidates
      /\ \A k : SampleOf(k)' = SampleOf(k)
  BY CallStays
<1>2. CASE Collect
  <2> DEFINE samples == {SampleOf(k) : k \in Kept}
  <2>1. /\ train' = {s \in samples : InTrain(s)} /\ test' = {s \in samples : ~InTrain(s)}
        /\ fitted' = {} /\ pc' = "split"
    BY <1>2 DEF Collect, Pending
  <2>2. Pending'
    BY <2>1 DEF Pending
  <2>3. \A s \in samples : \E k \in Candidates : s = SampleOf(k)
    BY CellsType DEF Called
  <2>4. Observed'
    <3>1. IsFiniteSet(Kept)
      BY CellsType, FS_Subset DEF Called
    <3>2. IsFiniteSet(samples)
      BY <3>1, ObservationsOf
    <3> HIDE DEF samples
    <3>3. train' \cup test' \subseteq samples
      BY <2>1
    <3>4. IsFiniteSet(train' \cup test')
      BY <3>2, <3>3, FS_Subset
    <3>5. \A s \in train' \cup test' : \E k \in Candidates' : s = SampleOf(k)'
      BY <1>1, <2>3, <3>3
    <3>6. QED  BY <2>1, <3>4, <3>5 DEF Observed
  <2>5. ASSUME NEW s \in train', NEW t \in test'
        PROVE  s.target < t.target
    <3>1. s \in samples /\ InTrain(s) /\ t \in samples /\ ~InTrain(t)
      BY <2>1
    <3> HIDE DEF samples
    <3>2. PICK k \in Candidates : s = SampleOf(k)
      BY <2>3, <3>1
    <3>3. PICK m \in Candidates : t = SampleOf(m)
      BY <2>3, <3>1
    <3>4. QED  BY <3>1, <3>2, <3>3, SplitByYear
  <2>6. QED  BY <2>1, <2>2, <2>4, <2>5 DEF TrainBeforeTest
<1>3. CASE Resplit
  <2>1. /\ train' = {s \in train \cup test : s.target < CutWeek}
        /\ test' = {s \in train \cup test : s.target >= CutWeek}
        /\ fitted' = {} /\ pc' = "fit"
    BY <1>3 DEF Resplit, Pending
  <2>2. \A s \in train \cup test : s.target \in Nat
    BY TargetsType
  <2>3. train' \cup test' \subseteq train \cup test
    BY <2>1
  <2>4. IsFiniteSet(train' \cup test')
    BY <2>3, FS_Subset DEF Observed
  <2>5. Observed'
    BY <1>1, <2>1, <2>3, <2>4 DEF Observed
  <2>6. ASSUME NEW s \in train', NEW t \in test'
        PROVE  s.target < t.target
    <3>1. s \in train \cup test /\ t \in train \cup test
      BY <2>1
    <3>2. CutWeek \in Nat
      <4>1. Targets # {}
        BY <3>1 DEF Targets
      <4>2. QED  BY <4>1, TargetsType, CutWeekExists
    <3>3. s.target < CutWeek /\ t.target >= CutWeek /\ s.target \in Nat /\ t.target \in Nat
      BY <2>1, <2>2, <3>1
    <3>4. QED  BY <3>2, <3>3
  <2>7. QED  BY <2>1, <2>5, <2>6 DEF Pending, TrainBeforeTest
<1>4. CASE Standardize
  <2>1. train' = train /\ test' = test /\ fitted' = train /\ pc' = "done"
    BY <1>4 DEF Standardize
  <2>2. QED  BY <1>1, <2>1 DEF Pending, Observed, TrainBeforeTest
<1>5. CASE TooLittle \/ Count \/ KeepSplit \/ Done \/ UNCHANGED vars
  <2>1. /\ train' = train /\ test' = test /\ fitted' = fitted
        /\ pc' = pc \/ pc' \in {"done", "fit"} \/ (pc = "count" /\ pc' = "collect")
        /\ pc # "done" \/ pc' = "done"
    BY <1>5 DEF TooLittle, Count, KeepSplit, Done, vars
  <2>2. QED  BY <1>1, <2>1 DEF Pending, Observed, TrainBeforeTest
<1>6. QED  BY <1>2, <1>3, <1>4, <1>5 DEF Next

----------------------------------------------------------------------------
(* Nothing is dropped.                                                     *)

Labelled(S, l) == {s \in S : s.label = l}

(* What the reported counts say of the observations of both sets. *)
Agrees(S) == /\ Cardinality(Labelled(S, 1)) = info.positive
             /\ Cardinality(Labelled(S, 0)) = info.kept
             /\ info.candidate = info.positive + info.negative
             /\ info.kept <= info.negative
             /\ call.ratio <= 0 => info.kept = info.negative

(* A new split moves observations from one set to the other. *)
LEMMA ResplitMoves ==
  ASSUME Called, Observed, Resplit
  PROVE  train' \cup test' = train \cup test /\ train' \cap test' = {} /\ Targets' = Targets
<1>1. /\ train' = {s \in train \cup test : s.target < CutWeek}
      /\ test' = {s \in train \cup test : s.target >= CutWeek}
  BY DEF Resplit
<1>2. \A s \in train \cup test : s.target \in Nat /\ CutWeek \in Nat
  <2>1. TAKE s \in train \cup test
  <2>2. Targets # {}
    BY DEF Targets
  <2>3. QED  BY <2>2, TargetsType, CutWeekExists
<1>3. train' \cup test' = train \cup test
  BY <1>1, <1>2
<1>4. train' \cap test' = {}
  BY <1>1, <1>2
<1>5. QED  BY <1>3, <1>4 DEF Targets

(* The two sets are collected as the first pass counted them. *)
LEMMA CollectAgrees ==
  ASSUME Called, FirstPass, Collect
  PROVE  train' \cap test' = {} /\ Agrees(train \cup test)'
<1> DEFINE Negative == Kept \ Positive
           P == {SampleOf(k) : k \in Positive}
           N == {SampleOf(k) : k \in Negative}
           S == {SampleOf(k) : k \in Kept}
<1>1. /\ train' = {s \in S : InTrain(s)} /\ test' = {s \in S : ~InTrain(s)}
      /\ call' = call /\ info' = [info EXCEPT !.kept = Cardinality(Negative)] /\ pc = "collect"
  BY DEF Collect
<1>2. train' \cap test' = {} /\ train' \cup test' = S
  BY <1>1
<1>3. /\ IsFiniteSet(Candidates) /\ Positive \subseteq Candidates
      /\ Positive \subseteq Kept /\ Kept \subseteq Candidates
  BY CellsType DEF Called
<1>4. Labelled(S, 1) = P /\ Labelled(S, 0) = N
  BY <1>3, ObservationsDiffer DEF Labelled
<1>5. Cardinality(P) = Cardinality(Positive) /\ Cardinality(N) = Cardinality(Negative)
  <2>1. IsFiniteSet(Positive) /\ IsFiniteSet(Negative)
    BY <1>3, FS_Subset
  <2> HIDE DEF Negative
  <2>2. QED  BY <2>1, ObservationsOf
<1>6. /\ Cardinality(Candidates) = Cardinality(Positive) + Cardinality(Candidates \ Positive)
      /\ Cardinality(Candidates \ Positive) \in Nat /\ IsFiniteSet(Candidates \ Positive)
  BY <1>3, Without
<1>7. Negative \subseteq Candidates \ Positive
      /\ (call.ratio <= 0 => Negative = Candidates \ Positive)
  BY <1>3 DEF Kept, KeepAll
<1>8. /\ Cardinality(Negative) <= Cardinality(Candidates \ Positive)
      /\ call.ratio <= 0 => Cardinality(Negative) = Cardinality(Candidates \ Positive)
  BY <1>6, <1>7, FS_Subset
<1>9. info = [candidate |-> Cardinality(Candidates), positive |-> Cardinality(Positive),
              negative |-> Cardinality(Candidates \ Positive), kept |-> 0]
  BY <1>1 DEF FirstPass
<1>10. /\ info'.candidate = Cardinality(Candidates) /\ info'.positive = Cardinality(Positive)
       /\ info'.negative = Cardinality(Candidates \ Positive)
       /\ info'.kept = Cardinality(Negative)
  <2> HIDE DEF Negative
  <2>1. QED  BY <1>1, <1>9
<1>11. /\ Cardinality(Labelled(train' \cup test', 1)) = info'.positive
       /\ Cardinality(Labelled(train' \cup test', 0)) = info'.kept
  BY <1>2, <1>4, <1>5, <1>10
<1>12. QED  BY <1>1, <1>2, <1>6, <1>8, <1>10, <1>11 DEF Agrees, Labelled

(* One step: the counts and what was sampled. *)
LEMMA NothingDroppedStep == IInv /\ [Next]_vars => NothingDropped'
<1> SUFFICES ASSUME IInv, Next \/ UNCHANGED vars PROVE NothingDropped'
  OBVIOUS
<1> USE DEF IInv
<1>1. NothingDropped <=> (pc \in {"split", "fit", "done"} =>
                            train \cap test = {} /\ Agrees(train \cup test))
  BY DEF NothingDropped, Agrees, Labelled
<1>2. NothingDropped' <=> (pc' \in {"split", "fit", "done"} =>
                             train' \cap test' = {} /\ Agrees(train \cup test)')
  BY DEF NothingDropped, Agrees, Labelled
<1>3. CASE TooLittle
  <2>1. /\ pc = "count" /\ train = {} /\ test = {} /\ train' = {} /\ test' = {}
        /\ info' = [candidate |-> 0, positive |-> 0, negative |-> 0, kept |-> 0]
    BY <1>3 DEF TooLittle, Pending, FirstPass
  <2>2. Labelled(train \cup test, 1)' = {} /\ Labelled(train \cup test, 0)' = {}
    BY <2>1 DEF Labelled
  <2>3. Agrees(train \cup test)'
    BY <2>1, <2>2, FS_EmptySet DEF Agrees
  <2>4. QED  BY <1>2, <2>1, <2>3
<1>4. CASE Count
  BY <1>2, <1>4 DEF Count
<1>5. CASE Collect
  BY <1>2, <1>5, CollectAgrees
<1>6. CASE Resplit
  <2>1. train' \cup test' = train \cup test /\ train' \cap test' = {}
    BY <1>6, ResplitMoves
  <2>2. info' = info /\ call' = call /\ pc = "split"
    BY <1>6 DEF Resplit
  <2>3. QED  BY <1>1, <1>2, <2>1, <2>2 DEF Agrees, Labelled
<1>7. CASE KeepSplit \/ Standardize \/ Done \/ UNCHANGED vars
  <2>1. /\ train' = train /\ test' = test /\ info' = info /\ call' = call
        /\ pc \in {"split", "fit", "done"} \/ pc' = pc
    BY <1>7 DEF KeepSplit, Standardize, Done, vars
  <2>2. QED  BY <1>1, <1>2, <2>1 DEF Agrees, Labelled
<1>8. QED  BY <1>3, <1>4, <1>5, <1>6, <1>7 DEF Next

(* One step: what a new split leaves in each set. *)
LEMMA ResplitStep == IInv /\ [Next]_vars => ResplitIsProper'
<1> SUFFICES ASSUME IInv, Next \/ UNCHANGED vars, pc' = "fit", Total' > 10
             PROVE  \/ train' # {} /\ test' # {}
                    \/ Cardinality(Targets') = 1 /\ train' = {}
  BY DEF ResplitIsProper
<1> USE DEF IInv
<1>1. CASE Resplit
  <2>1. train' \cup test' = train \cup test /\ Targets' = Targets
    BY <1>1, ResplitMoves
  <2>2. /\ train' = {s \in train \cup test : s.target < CutWeek}
        /\ test' = {s \in train \cup test : s.target >= CutWeek}
    BY <1>1 DEF Resplit
  <2>3. train \cup test # {}
    <3>1. SUFFICES ASSUME train' = {} /\ test' = {} PROVE FALSE
      BY <2>1
    <3>2. Total' = 0
      BY <3>1, FS_EmptySet DEF Total
    <3>3. QED  BY <3>2
  <2>4. Targets # {} /\ IsFiniteSet(Targets) /\ Targets \subseteq Nat
    BY <2>3, TargetsType DEF Targets
  <2>5. /\ CutWeek \in Targets /\ Cardinality(Targets) \in Nat \ {0}
        /\ Cardinality(Targets) > 1 => \E v \in Targets : v < CutWeek
        /\ Cardinality(Targets) = 1 => \A v \in Targets : ~(v < CutWeek)
    BY <2>4, CutWeekExists
  <2>6. test' # {}
    <3>1. PICK s \in train \cup test : s.target = CutWeek
      BY <2>5 DEF Targets
    <3>2. s.target >= CutWeek
      BY <2>4, <2>5, <3>1
    <3>3. QED  BY <2>2, <3>2
  <2>7. CASE Cardinality(Targets) > 1
    BY <2>2, <2>5, <2>6, <2>7 DEF Targets
  <2>8. CASE Cardinality(Targets) = 1
    BY <2>1, <2>2, <2>5, <2>8 DEF Targets
  <2>9. QED  BY <2>5, <2>7, <2>8
<1>2. CASE KeepSplit
  <2>1. train' = train /\ test' = test /\ ~Unbalanced
    BY <1>2 DEF KeepSplit
  <2>2. Total > 10
    BY <2>1 DEF Total
  <2>3. IsFiniteSet(train) /\ IsFiniteSet(test)
    <3>1. train \subseteq train \cup test /\ test \subseteq train \cup test
      OBVIOUS
    <3>2. QED  BY <3>1, FS_Subset DEF Observed
  <2>4. Total \in Nat /\ Cardinality(train) \in Nat
    BY <2>3, FS_CardinalityType DEF Total
  <2>5. test # {} /\ ~(Cardinality(train) < Total \div 5)
    BY <2>1, <2>2 DEF Unbalanced
  <2>6. Cardinality(train) # 0
    BY <2>2, <2>4, <2>5
  <2>7. train # {}
    BY <2>6, FS_EmptySet
  <2>8. QED  BY <2>1, <2>5, <2>7
<1>3. CASE TooLittle \/ Count \/ Collect \/ Standardize \/ Done
  BY <1>3 DEF TooLittle, Count, Collect, Standardize, Done, vars
<1>4. CASE UNCHANGED vars
  <2>1. train' = train /\ test' = test /\ pc' = pc /\ Total' = Total /\ Targets' = Targets
    BY <1>4 DEF vars, Total, Targets
  <2>2. QED  BY <2>1 DEF ResplitIsProper
<1>5. QED  BY <1>1, <1>2, <1>3, <1>4 DEF Next

(* The inductive invariant holds. *)
LEMMA SamplesInvariant == Spec => []IInv
<1>1. IInv /\ [Next]_vars => IInv'
  <2> SUFFICES ASSUME IInv, [Next]_vars PROVE IInv'
    OBVIOUS
  <2>1. Pending' /\ Observed' /\ TrainBeforeTest'
    BY SetsStep
  <2>2. QED  BY <2>1, FirstPassStep, NothingDroppedStep, ResplitStep DEF IInv
<1>2. QED  BY <1>1, InvariantInit, PTL DEF Spec

----------------------------------------------------------------------------
(* Nothing that training looks at is as late as what the test predicts,    *)
(* whether the samples were split by year or, where that left too few, by  *)
(* a week: for any calendar in which later weeks are of no earlier year.   *)
THEOREM NoLeakFromTheTest == Spec => []TrainBeforeTest
<1>1. IInv => TrainBeforeTest
  BY DEF IInv
<1>2. QED  BY <1>1, SamplesInvariant, PTL

(* The features of every observation are older than what it predicts, also *)
(* where weeks are missing from the data. *)
THEOREM FeaturesAreKnown == Spec => []NoLookahead
<1>1. IInv => NoLookahead
  <2> SUFFICES ASSUME IInv, NEW s \in train \cup test, NEW w \in s.reads
               PROVE  w < s.target
    BY DEF NoLookahead
  <2>1. PICK k \in Candidates : s = SampleOf(k)
    BY DEF IInv, Observed
  <2>2. k.week \in Nat /\ s.target = k.week + 1
    BY <2>1, CellsType, ObservationsDiffer DEF IInv, Called
  <2>3. w = k.week \/ \E i \in 0 .. 11 : w = k.week + (-i)
    BY <2>1 DEF SampleOf, PreviousWeeks, AddWeeks
  <2>4. QED  BY <2>2, <2>3
<1>2. QED  BY <1>1, SamplesInvariant, PTL

(* Every positive cell and every negative one that was picked is in one of *)
(* the two sets, as the counts report it, whatever the hash picks and      *)
(* however often the sets are split. *)
THEOREM SamplesAddUp == Spec => []NothingDropped
<1>1. IInv => NothingDropped
  BY DEF IInv
<1>2. QED  BY <1>1, SamplesInvariant, PTL

(* A new split leaves observations to learn from and to test with, unless  *)
(* they all predict the same week. *)
THEOREM BothSetsAreUsed == Spec => []ResplitIsProper
<1>1. IInv => ResplitIsProper
  BY DEF IInv
<1>2. QED  BY <1>1, SamplesInvariant, PTL

----------------------------------------------------------------------------
(* Sums.                                                                   *)

(* A set of natural numbers has a least element. *)
LEMMA Least ==
  ASSUME NEW T \in SUBSET Nat, T # {}
  PROVE  \E x \in T : \A y \in T : x <= y
<1>1. PICK x \in T : \A y \in T : ~ (<<y, x>> \in OpToRel(<, Nat))
  BY WFMin, NatLessThanWellFounded
<1>2. \A y \in T : ~(y < x)
  BY <1>1 DEF OpToRel
<1>3. QED  BY <1>2

(* Induction over the subsets of a finite set: what the empty set has, and *)
(* a set gets from those with one element less, all of them have.          *)
LEMMA SubsetsInduction ==
  ASSUME NEW S, IsFiniteSet(S), NEW T, {} \in T,
         \A R \in SUBSET S : R # {} /\ (\A x \in R : R \ {x} \in T) => R \in T
  PROVE  SUBSET S \subseteq T
<1> DEFINE Sizes == {Cardinality(R) : R \in (SUBSET S) \ T}
<1> SUFFICES ASSUME NEW Q \in SUBSET S, Q \notin T  PROVE FALSE
  OBVIOUS
<1>1. \A R \in SUBSET S : IsFiniteSet(R) /\ Cardinality(R) \in Nat
  BY FS_Subset, FS_CardinalityType
<1>2. Sizes \in SUBSET Nat /\ Sizes # {}
  BY <1>1
<1>3. PICK n \in Sizes : \A m \in Sizes : n <= m
  <2> HIDE DEF Sizes
  <2>1. QED  BY <1>2, Least
<1>4. PICK R \in (SUBSET S) \ T : n = Cardinality(R)
  OBVIOUS
<1>5. n \in Nat
  BY <1>2
<1>6. ASSUME NEW x \in R  PROVE R \ {x} \in T
  <2>1. Cardinality(R \ {x}) = n - 1 /\ n \in Nat
    BY <1>1, <1>4, <1>5, FS_RemoveElement
  <2>2. CASE R \ {x} \notin T
    <3>1. Cardinality(R \ {x}) \in Sizes
      BY <2>2
    <3>2. n <= Cardinality(R \ {x})
      BY <1>3, <3>1
    <3>3. QED  BY <2>1, <3>2
  <2>3. QED  BY <2>2
<1>7. R # {}
  BY <1>4
<1>8. QED  BY <1>4, <1>6, <1>7

(* h gives the sum of f over each subset of S, whichever element is taken  *)
(* first. *)
IsSum(h, S, f) ==
  /\ h \in [SUBSET S -> Int]
  /\ h[{}] = 0
  /\ \A s \in SUBSET S : \A x \in s : h[s] = f[x] + h[s \ {x}]

(* Numbers can be added up. *)
LEMMA SumExists ==
  ASSUME NEW S, IsFiniteSet(S), NEW f \in [S -> Int]
  PROVE  \E h : IsSum(h, S, f)
<1> DEFINE T == {R \in SUBSET S : \E h : IsSum(h, R, f)}
<1>1. {} \in T
  <2> DEFINE h == [s \in SUBSET {} |-> 0]
  <2>1. IsSum(h, {}, f)
    BY DEF IsSum
  <2>2. QED  BY <2>1
<1>2. ASSUME NEW R \in SUBSET S, NEW c \in R, R \ {c} \in T
      PROVE  R \in T
  <2>1. PICK h : IsSum(h, R \ {c}, f)
    BY <1>2
  <2> DEFINE g == [s \in SUBSET R |-> IF c \in s THEN f[c] + h[s \ {c}] ELSE h[s]]
  <2>2. f[c] \in Int
    OBVIOUS
  <2>3. g \in [SUBSET R -> Int]
    <3>1. ASSUME NEW s \in SUBSET R, c \in s  PROVE h[s \ {c}] \in Int
      <4>1. s \ {c} \in SUBSET (R \ {c})
        OBVIOUS
      <4>2. QED  BY <2>1, <4>1 DEF IsSum
    <3>2. ASSUME NEW s \in SUBSET R, c \notin s  PROVE h[s] \in Int
      <4>1. s \in SUBSET (R \ {c})
        BY <3>2
      <4>2. QED  BY <2>1, <4>1 DEF IsSum
    <3>3. QED  BY <2>2, <3>1, <3>2
  <2>4. g[{}] = 0
    BY <2>1 DEF IsSum
  <2>5. ASSUME NEW s \in SUBSET R, NEW x \in s
        PROVE  g[s] = f[x] + g[s \ {x}]
    <3>1. CASE c \notin s
      <4>1. s \in SUBSET (R \ {c}) /\ c \notin s \ {x} /\ s \ {x} \in SUBSET R
        BY <3>1
      <4>2. g[s] = h[s] /\ g[s \ {x}] = h[s \ {x}]
        BY <3>1, <4>1
      <4>3. QED  BY <2>1, <4>1, <4>2 DEF IsSum
    <3>2. CASE x = c
      <4>1. s \ {x} \in SUBSET R /\ c \notin s \ {x}
        BY <3>2
      <4>2. QED  BY <3>2, <4>1
    <3>3. CASE c \in s /\ x # c
      <4> DEFINE r == s \ {c}
      <4>1. r \in SUBSET (R \ {c}) /\ x \in r /\ r \ {x} \in SUBSET (R \ {c})
        BY <3>3
      <4>2. h[r] = f[x] + h[r \ {x}] /\ h[r \ {x}] \in Int /\ f[x] \in Int
        BY <2>1, <4>1 DEF IsSum
      <4>3. g[s] = f[c] + h[r]
        BY <3>3
      <4>4. s \ {x} \in SUBSET R /\ c \in s \ {x} /\ (s \ {x}) \ {c} = r \ {x}
        BY <3>3
      <4>5. g[s \ {x}] = f[c] + h[r \ {x}]
        BY <4>4
      <4> HIDE DEF r, g
      <4>6. QED  BY <2>2, <4>2, <4>3, <4>5
    <3>4. QED  BY <3>1, <3>2, <3>3
  <2> HIDE DEF g
  <2>6. IsSum(g, R, f)
    BY <2>3, <2>4, <2>5 DEF IsSum
  <2>7. QED  BY <2>6
<1>3. \A R \in SUBSET S : R # {} /\ (\A x \in R : R \ {x} \in T) => R \in T
  BY <1>2
<1> HIDE DEF T
<1>4. SUBSET S \subseteq T
  BY <1>1, <1>3, SubsetsInduction
<1>5. QED  BY <1>4 DEF T

(* g adds up the numbers of each subset in an order of its own. *)
AddsUp(g, S, f) ==
  /\ g[{}] = 0
  /\ \A s \in SUBSET S : s # {} => \E x \in s : g[s] = f[x] + g[s \ {x}]

(* Whoever adds up the same numbers comes to the same sums, also if each   *)
(* set is taken apart in one way only. *)
LEMMA SumsAgree ==
  ASSUME NEW S, IsFiniteSet(S), NEW f, NEW h, IsSum(h, S, f), NEW g, AddsUp(g, S, f)
  PROVE  \A s \in SUBSET S : g[s] = h[s]
<1> DEFINE T == {s \in SUBSET S : g[s] = h[s]}
<1>1. {} \in T
  BY DEF IsSum, AddsUp
<1>2. ASSUME NEW s \in SUBSET S, s # {}, \A x \in s : s \ {x} \in T
      PROVE  s \in T
  <2>1. PICK x \in s : g[s] = f[x] + g[s \ {x}]
    BY <1>2 DEF AddsUp
  <2>2. g[s \ {x}] = h[s \ {x}] /\ h[s] = f[x] + h[s \ {x}]
    BY <1>2 DEF IsSum
  <2>3. QED  BY <2>1, <2>2
<1> HIDE DEF T
<1>3. SUBSET S \subseteq T
  BY <1>1, <1>2, SubsetsInduction
<1>4. QED  BY <1>3 DEF T

(* SumFunction takes the elements in the order that CHOOSE has for them;   *)
(* the sum is the same. *)
LEMMA SumIs ==
  ASSUME NEW S, IsFiniteSet(S), NEW f \in [S -> Int], NEW h, IsSum(h, S, f)
  PROVE  SumFunction(f) = h[S]
<1> DEFINE Is(g) == g = [s \in SUBSET DOMAIN f |->
                           IF s = {} THEN 0
                           ELSE f[CHOOSE x \in s : TRUE] + g[s \ {CHOOSE x \in s : TRUE}]]
           u == CHOOSE g : Is(g)
<1>1. SumFunction(f) = u[DOMAIN f]
  BY DEF SumFunction, SumFunctionOnSet, FoldFunctionOnSet, MapThenFoldSet
<1>2. \A s \in SUBSET S : s # {} => (CHOOSE x \in s : TRUE) \in s
  OBVIOUS
<1>3. Is(h)
  <2>1. h = [s \in SUBSET S |-> h[s]]
    BY DEF IsSum
  <2>2. ASSUME NEW s \in SUBSET S
        PROVE  h[s] = IF s = {} THEN 0
                      ELSE f[CHOOSE x \in s : TRUE] + h[s \ {CHOOSE x \in s : TRUE}]
    BY <1>2 DEF IsSum
  <2>3. QED  BY <2>1, <2>2
<1>4. Is(u)
  BY <1>3
<1>5. u = [s \in SUBSET S |->
                           IF s = {} THEN 0
                           ELSE f[CHOOSE x \in s : TRUE] + u[s \ {CHOOSE x \in s : TRUE}]]
  BY <1>4
<1> HIDE DEF Is, u
<1>6. u[{}] = 0
  BY <1>5
<1>7. \A s \in SUBSET S : s # {} => \E x \in s : u[s] = f[x] + u[s \ {x}]
  BY <1>2, <1>5
<1>8. AddsUp(u, S, f)
  BY <1>6, <1>7 DEF AddsUp
<1>9. \A s \in SUBSET S : u[s] = h[s]
  BY <1>8, SumsAgree
<1>10. u[S] = h[S] /\ DOMAIN f = S
  BY <1>9
<1>11. QED  BY <1>1, <1>10

(* The sum over part of a domain is the same value of the same sums. *)
LEMMA SumOver ==
  ASSUME NEW S, IsFiniteSet(S), NEW f \in [S -> Int], NEW h, IsSum(h, S, f),
         NEW R \in SUBSET S
  PROVE  SumFunction([x \in R |-> f[x]]) = h[R]
<1> DEFINE e == [x \in R |-> f[x]]
           g == [s \in SUBSET R |-> h[s]]
<1>1. IsFiniteSet(R) /\ e \in [R -> Int]
  BY FS_Subset
<1>2. IsSum(g, R, e)
  <2>1. g \in [SUBSET R -> Int] /\ g[{}] = 0
    BY DEF IsSum
  <2>2. ASSUME NEW s \in SUBSET R, NEW x \in s  PROVE g[s] = e[x] + g[s \ {x}]
    <3>1. s \in SUBSET S /\ s \ {x} \in SUBSET R /\ e[x] = f[x]
      OBVIOUS
    <3>2. h[s] = f[x] + h[s \ {x}]
      BY <3>1 DEF IsSum
    <3>3. QED  BY <3>1, <3>2
  <2> HIDE DEF g, e
  <2>3. QED  BY <2>1, <2>2 DEF IsSum
<1>3. g[R] = h[R]
  OBVIOUS
<1> HIDE DEF g, e
<1>4. SumFunction(e) = g[R]
  BY <1>1, <1>2, SumIs
<1>5. QED  BY <1>3, <1>4 DEF e

(* One more element. *)
LEMMA SumWith ==
  ASSUME NEW S, IsFiniteSet(S), NEW f \in [S -> Int], NEW x \in S
  PROVE  SumFunction(f) = f[x] + SumFunction([y \in S \ {x} |-> f[y]])
<1>1. PICK h : IsSum(h, S, f)
  BY SumExists
<1>2. SumFunction(f) = h[S] /\ h[S] = f[x] + h[S \ {x}]
  BY <1>1, SumIs DEF IsSum
<1>3. SumFunction([y \in S \ {x} |-> f[y]]) = h[S \ {x}]
  BY <1>1, SumOver
<1>4. QED  BY <1>2, <1>3

(* The sum of nothing. *)
LEMMA SumOfNone == ASSUME NEW f \in [{} -> Int]  PROVE SumFunction(f) = 0
<1>1. IsFiniteSet({})
  BY FS_EmptySet
<1>2. PICK h : IsSum(h, {}, f)
  BY <1>1, SumExists
<1>3. QED  BY <1>1, <1>2, SumIs DEF IsSum

(* A sum of natural numbers is one, and zero only when all of them are. *)
LEMMA SumOfNats ==
  ASSUME NEW S, IsFiniteSet(S), NEW f \in [S -> Nat]
  PROVE  /\ SumFunction(f) \in Nat
         /\ SumFunction(f) = 0 <=> \A x \in S : f[x] = 0
<1>1. PICK h : IsSum(h, S, f)
  BY SumExists
<1> DEFINE T == {R \in SUBSET S : h[R] \in Nat /\ (h[R] = 0 <=> \A x \in R : f[x] = 0)}
<1>2. {} \in T
  BY <1>1 DEF IsSum
<1>3. ASSUME NEW R \in SUBSET S, R # {}, \A x \in R : R \ {x} \in T
      PROVE  R \in T
  <2>1. PICK x \in R : TRUE
    BY <1>3
  <2>2. h[R] = f[x] + h[R \ {x}] /\ f[x] \in Nat
    BY <1>1 DEF IsSum
  <2>3. h[R \ {x}] \in Nat /\ (h[R \ {x}] = 0 <=> \A y \in R \ {x} : f[y] = 0)
    BY <1>3
  <2>4. h[R] \in Nat /\ (h[R] = 0 <=> f[x] = 0 /\ h[R \ {x}] = 0)
    BY <2>2, <2>3
  <2>5. (\A y \in R : f[y] = 0) <=> f[x] = 0 /\ (\A y \in R \ {x} : f[y] = 0)
    OBVIOUS
  <2>6. QED  BY <2>3, <2>4, <2>5
<1> HIDE DEF T
<1>4. S \in T
  BY <1>2, <1>3, SubsetsInduction
<1>5. SumFunction(f) = h[S]
  BY <1>1, SumIs
<1>6. QED  BY <1>4, <1>5 DEF T

(* The sum of equal numbers. *)
LEMMA SumOfEquals ==
  ASSUME NEW S, IsFiniteSet(S), NEW c \in Int, NEW f \in [S -> Int], \A x \in S : f[x] = c
  PROVE  SumFunction(f) = c * Cardinality(S)
<1>1. PICK h : IsSum(h, S, f)
  BY SumExists
<1> DEFINE T == {R \in SUBSET S : h[R] = c * Cardinality(R)}
<1>2. {} \in T
  BY <1>1, FS_EmptySet DEF IsSum
<1>3. ASSUME NEW R \in SUBSET S, R # {}, \A x \in R : R \ {x} \in T
      PROVE  R \in T
  <2>1. PICK x \in R : TRUE
    BY <1>3
  <2>2. h[R] = c + h[R \ {x}]
    BY <1>1 DEF IsSum
  <2>3. h[R \ {x}] = c * Cardinality(R \ {x})
    BY <1>3
  <2>4. IsFiniteSet(R) /\ Cardinality(R) \in Nat
    BY FS_Subset, FS_CardinalityType
  <2>5. Cardinality(R \ {x}) = Cardinality(R) - 1
    BY <2>4, FS_RemoveElement
  <2>6. \A n \in Nat : c + c * (n - 1) = c * n
    OBVIOUS
  <2>7. QED  BY <2>2, <2>3, <2>4, <2>5, <2>6
<1> HIDE DEF T
<1>4. S \in T
  BY <1>2, <1>3, SubsetsInduction
<1>5. SumFunction(f) = h[S]
  BY <1>1, SumIs
<1>6. QED  BY <1>4, <1>5 DEF T

----------------------------------------------------------------------------
(* One cell, as Features has it: the invariant.                            *)

(* What the assumption says of the input that was chosen. *)
Given ==
  /\ query.features \in {"none", "fits", "misfits"}
  /\ query.district \in Int /\ query.area \in Int
  /\ query.dow \in Int /\ query.hour \in Int /\ query.week.number \in Int
  /\ query.week.given \in BOOLEAN
  /\ query.week.month \in 1 .. 12 /\ query.week.monday \in 1 .. 12
  /\ IsFiniteSet(DOMAIN aggregates)
  /\ \A k \in DOMAIN aggregates : k \in Cell /\ aggregates[k] \in CrimeCount

(* Both vectors are what was made of the query, the trainer's with all of  *)
(* the map gone through. *)
Computed ==
  /\ todo \subseteq DOMAIN aggregates
  /\ served = NotYet \/ served = BuildFeatures(query)
  /\ trained = NotYet \/ (todo = {} /\ trained = Made(RawFeatures(query)))

(* The counts of a cell and the totals are natural numbers. *)
Totals == \A key \in DOMAIN ctx : ctx[key] \in [Group -> Int]

CellInv == Given /\ Computed /\ Totals /\ ContextIsSum

(* Nothing was added up before the loop begins. *)
LEMMA CellInvInit == CellInit => CellInv
<1> SUFFICES ASSUME CellInit  PROVE CellInv
  OBVIOUS
<1>1. Given
  <2>1. PICK in \in Inputs : query = in.query /\ aggregates = in.aggregates
    BY DEF CellInit
  <2>2. QED  BY <2>1, FeaturesAssumption DEF Given
<1>2. Computed
  BY DEF CellInit, Computed
<1>3. DOMAIN ctx = {} /\ DOMAIN aggregates \ todo = {}
  BY DEF CellInit
<1>4. QED  BY <1>1, <1>2, <1>3 DEF CellInv, Totals, ContextIsSum

(* One turn of the loop adds one entry to its totals, and to no other. *)
LEMMA AddEntryStep ==
  ASSUME Given, todo \subseteq DOMAIN aggregates, Totals, ContextIsSum, AddEntry
  PROVE  Totals' /\ ContextIsSum'
<1>1. PICK k \in todo : todo' = todo \ {k} /\ ctx' = Collected(ctx, k, aggregates[k])
  BY DEF AddEntry
<1>2. aggregates' = aggregates /\ k \in DOMAIN aggregates
  BY <1>1 DEF AddEntry
<1> DEFINE Seen == DOMAIN aggregates \ todo
<1>3. DOMAIN aggregates' \ todo' = Seen \cup {k} /\ k \notin Seen
  BY <1>1, <1>2
<1>4. DOMAIN ctx = UNION {Keys(m) : m \in Seen}
  BY DEF ContextIsSum
<1>5. DOMAIN ctx' = DOMAIN ctx \cup Keys(k)
  BY <1>1 DEF Collected
<1>6. DOMAIN ctx' = UNION {Keys(m) : m \in Seen \cup {k}}
  BY <1>4, <1>5
<1>7. \A m \in DOMAIN aggregates : aggregates[m] \in [Group -> Nat]
  BY DEF Given, CrimeCount
<1>8. \A key : /\ IsFiniteSet(Entries(key))
               /\ Entries(key) \subseteq DOMAIN aggregates /\ k \notin Entries(key)
  BY <1>3, FS_Subset DEF Given, Entries
<1>9. ASSUME NEW key \in DOMAIN ctx', key \notin Keys(k)
      PROVE  /\ ctx'[key] \in [Group -> Int]
             /\ \A g \in Group :
                  ctx'[key][g] = SumFunction([m \in Entries(key)' |-> aggregates'[m][g]])
  <2>1. key \in DOMAIN ctx /\ ctx'[key] = ctx[key]
    BY <1>1, <1>5, <1>9 DEF Collected
  <2>2. Entries(key)' = Entries(key)
    BY <1>3, <1>9 DEF Entries
  <2>3. QED  BY <1>2, <2>1, <2>2 DEF Totals, ContextIsSum
<1>10. ASSUME NEW key \in Keys(k)
       PROVE  /\ ctx'[key] \in [Group -> Int]
              /\ \A g \in Group :
                  ctx'[key][g] = SumFunction([m \in Entries(key)' |-> aggregates'[m][g]])
  <2> DEFINE E == Entries(key)
             v == ValueAt(ctx, key)
  <2>1. Entries(key)' = E \cup {k} /\ k \notin E
    BY <1>2, <1>3, <1>8, <1>10 DEF Entries
  <2>2. v \in [Group -> Int] /\ \A g \in Group : v[g] = SumFunction([m \in E |-> aggregates[m][g]])
    <3>1. CASE key \in DOMAIN ctx
      BY <3>1 DEF ValueAt, Totals, ContextIsSum
    <3>2. CASE key \notin DOMAIN ctx
      <4>1. v = Zero /\ v \in [Group -> Int] /\ \A g \in Group : v[g] = 0
        BY <3>2 DEF ValueAt, Zero
      <4>2. E = {}
        BY <1>4, <3>2 DEF Entries
      <4>3. \A g \in Group : [m \in E |-> aggregates[m][g]] \in [{} -> Int]
        BY <4>2
      <4>4. QED  BY <4>1, <4>3, SumOfNone
    <3>3. QED  BY <3>1, <3>2
  <2>3. ctx'[key] = [g \in Group |-> v[g] + aggregates[k][g]]
    BY <1>1, <1>10 DEF Collected, AddAggregate
  <2> HIDE DEF v
  <2>4. ctx'[key] \in [Group -> Int]
    BY <1>2, <1>7, <2>2, <2>3
  <2>5. ASSUME NEW g \in Group
        PROVE  ctx'[key][g] = SumFunction([m \in Entries(key)' |-> aggregates'[m][g]])
    <3> DEFINE S == E \cup {k}
               f == [m \in S |-> aggregates[m][g]]
    <3>1. IsFiniteSet(S)
      BY <1>8, FS_AddElement
    <3>2. f \in [S -> Int] /\ k \in S /\ f[k] = aggregates[k][g]
      BY <1>2, <1>7, <1>8
    <3>3. [y \in S \ {k} |-> f[y]] = [m \in E |-> aggregates[m][g]]
      BY <2>1
    <3>4. [m \in Entries(key)' |-> aggregates'[m][g]] = f
      BY <1>2, <2>1
    <3> HIDE DEF S, f
    <3>5. SumFunction(f) = f[k] + SumFunction([y \in S \ {k} |-> f[y]])
      BY <3>1, <3>2, SumWith
    <3>6. v[g] = SumFunction([y \in S \ {k} |-> f[y]])
      BY <2>2, <3>3
    <3>7. ctx'[key][g] = v[g] + aggregates[k][g] /\ v[g] \in Int /\ aggregates[k][g] \in Int
      BY <1>2, <1>7, <2>2, <2>3
    <3>8. QED  BY <3>2, <3>4, <3>5, <3>6, <3>7
  <2>6. QED  BY <2>4, <2>5
<1>11. QED  BY <1>3, <1>6, <1>9, <1>10 DEF Totals, ContextIsSum

(* The vectors are made once, the trainer's after the loop. *)
LEMMA CellStep == CellInv /\ [CellNext]_cellVars => CellInv'
<1> SUFFICES ASSUME CellInv, [CellNext]_cellVars  PROVE CellInv'
  OBVIOUS
<1>1. query' = query /\ aggregates' = aggregates
  BY DEF CellNext, Serve, AddEntry, Train, Compared, cellVars
<1>2. Given' /\ BuildFeatures(query)' = BuildFeatures(query)
  BY <1>1 DEF CellInv, Given
<1>3. ASSUME ctx' = ctx, todo' = todo
      PROVE  Totals' /\ ContextIsSum' /\ RawFeatures(query)' = RawFeatures(query)
  <2>1. Totals'
    BY <1>3 DEF CellInv, Totals
  <2>2. ContextIsSum'
    BY <1>1, <1>3 DEF CellInv, ContextIsSum, Entries
  <2>3. RawFeatures(query)' = RawFeatures(query)
    BY <1>1, <1>3 DEF RawFeatures
  <2>4. QED  BY <2>1, <2>2, <2>3
<1>4. CASE Serve
  <2>1. Computed'
    BY <1>1, <1>2, <1>3, <1>4 DEF Serve, CellInv, Computed
  <2>2. QED  BY <1>2, <1>3, <1>4, <2>1 DEF Serve, CellInv
<1>5. CASE AddEntry
  <2>1. trained = NotYet
    BY <1>5 DEF AddEntry, CellInv, Computed
  <2>2. Computed'
    BY <1>1, <1>2, <1>5, <2>1 DEF AddEntry, CellInv, Computed
  <2>3. QED  BY <1>2, <1>5, <2>2, AddEntryStep DEF CellInv, Computed
<1>6. CASE Train
  <2>1. Computed'
    BY <1>1, <1>2, <1>3, <1>6 DEF Train, CellInv, Computed
  <2>2. QED  BY <1>2, <1>3, <1>6, <2>1 DEF Train, CellInv
<1>7. CASE Compared \/ UNCHANGED cellVars
  <2>1. UNCHANGED cellVars
    BY <1>7 DEF Compared
  <2>2. Computed'
    BY <1>1, <1>2, <1>3, <2>1 DEF cellVars, CellInv, Computed
  <2>3. QED  BY <1>2, <1>3, <2>1, <2>2 DEF cellVars, CellInv
<1>8. QED  BY <1>4, <1>5, <1>6, <1>7 DEF CellNext

(* The inductive invariant of a cell. *)
LEMMA CellInvariant == CellSpec => []CellInv
BY CellInvInit, CellStep, PTL DEF CellSpec

(* Each total is the sum of what was seen, in whatever order.              *)
THEOREM TotalsAreSums == CellSpec => []ContextIsSum
<1>1. CellInv => ContextIsSum
  BY DEF CellInv
<1>2. QED  BY <1>1, CellInvariant, PTL

----------------------------------------------------------------------------
(* What is known of the averages.                                          *)

(* Counts of crimes: where there was none, there was none of any group. *)
Counts(v) == /\ v \in [Group -> Nat]
             /\ v["total"] = 0 => \A g \in Group : v[g] = 0

(* An entry of the map, and none, are counts. *)
LEMMA AggregatesCount ==
  ASSUME Given, NEW k
  PROVE  /\ Counts(ValueAt(aggregates, k))
         /\ k \notin DOMAIN aggregates => ValueAt(aggregates, k) = Zero
<1>1. Counts(Zero)
  BY DEF Counts, Zero
<1>2. ASSUME NEW v \in CrimeCount  PROVE Counts(v)
  <2>1. v \in [Group -> Nat] /\ v["relevant"] <= v["total"] /\ v["minor"] <= v["total"]
    BY DEF CrimeCount
  <2>2. QED  BY <2>1 DEF Counts, Group
<1>3. QED  BY <1>1, <1>2 DEF ValueAt, Given

(* So are the totals, and one is zero only if nothing happened in any of   *)
(* its cells. *)
LEMMA TotalsCount ==
  ASSUME CellInv, todo = {}, NEW key
  PROVE  /\ Counts(ValueAt(ctx, key))
         /\ ValueAt(ctx, key)["total"] = 0
            <=> \A k \in DOMAIN aggregates : key \in Keys(k) => aggregates[k].total = 0
<1> DEFINE E == Entries(key)
<1>1. IsFiniteSet(E) /\ E = {k \in DOMAIN aggregates : key \in Keys(k)}
  BY FS_Subset DEF CellInv, Given, Entries
<1>2. CASE key \notin DOMAIN ctx
  <2>1. \A k \in DOMAIN aggregates : key \notin Keys(k)
    BY <1>2 DEF CellInv, ContextIsSum
  <2>2. QED  BY <1>2, <2>1 DEF ValueAt, Zero, Counts, Group
<1>3. CASE key \in DOMAIN ctx
  <2> DEFINE v == ctx[key]
  <2>1. /\ v \in [Group -> Int]
        /\ \A g \in Group : v[g] = SumFunction([k \in E |-> aggregates[k][g]])
    BY <1>3 DEF CellInv, Totals, ContextIsSum
  <2>2. \A k \in E : Counts(aggregates[k])
    BY <1>1, AggregatesCount DEF CellInv, ValueAt
  <2>3. ASSUME NEW g \in Group
        PROVE  v[g] \in Nat /\ (v[g] = 0 <=> \A k \in E : aggregates[k][g] = 0)
    <3> DEFINE f == [k \in E |-> aggregates[k][g]]
    <3>1. f \in [E -> Nat] /\ \A k \in E : f[k] = aggregates[k][g]
      BY <2>2 DEF Counts
    <3> HIDE DEF f
    <3>2. SumFunction(f) \in Nat /\ (SumFunction(f) = 0 <=> \A k \in E : f[k] = 0)
      BY <1>1, <3>1, SumOfNats
    <3>3. v[g] = SumFunction(f)
      BY <2>1 DEF f
    <3>4. QED  BY <3>1, <3>2, <3>3
  <2>4. "total" \in Group
    BY DEF Group
  <2> HIDE DEF v, E
  <2>5. v \in [Group -> Nat]
    BY <2>1, <2>3
  <2>6. v["total"] = 0 <=> \A k \in E : aggregates[k]["total"] = 0
    BY <2>3, <2>4
  <2>7. v["total"] = 0 => \A g \in Group : v[g] = 0
    BY <2>2, <2>3, <2>6 DEF Counts
  <2>8. ValueAt(ctx, key) = v
    BY <1>3 DEF ValueAt, v
  <2>9. QED  BY <1>1, <2>5, <2>6, <2>7, <2>8 DEF Counts
<1>4. QED  BY <1>2, <1>3

Windows == Group \X {1, 2, 4, 8, 12}

NoAverages(which) == [a \in which |-> 0]

(* V gives the counts in each of the weeks W. *)
Weekly(V, W, k) == /\ IsFiniteSet(W) /\ W \subseteq Int /\ DOMAIN V = W
                   /\ \A w \in W : Counts(V[w])
                   /\ k.week \in Int

(* The averages of each level are of these groups and windows. *)
LEMMA TheAverages ==
  /\ OwnAverages \subseteq Windows /\ <<"total", 12>> \in OwnAverages
  /\ ZoneAverages \subseteq Windows /\ \A a \in ZoneAverages : a[2] <= 4
  /\ WideAverages \subseteq Windows /\ \A a \in WideAverages : a[2] <= 4
  /\ <<"total", 4>> \in WideAverages
  /\ \A a \in TrendAverages : a \in OwnAverages /\ a[1] \in Group /\ a[2] \in {2, 4}
                              /\ <<a[1], 12>> \in OwnAverages
BY DEF OwnAverages, ZoneAverages, WideAverages, TrendAverages, Windows, Group

(* The average of a window is a multiple of the sum over its weeks. *)
LEMMA AverageOf ==
  ASSUME NEW W, NEW V, NEW k, Weekly(V, W, k), NEW which, NEW g, NEW n, <<g, n>> \in which
  PROVE  Averages(V, k, which)[<<g, n>>]
           = (24 \div n) * SumFunction([w \in WeeksBack(k, n, W) |-> V[w][g]])
  BY DEF Averages, AvgCount, Mean, Weekly

(* It is zero only if there was nothing in any of its weeks. *)
LEMMA AverageIsZero ==
  ASSUME NEW W, NEW V, NEW k, Weekly(V, W, k), NEW which, NEW a \in which, a \in Windows
  PROVE  Averages(V, k, which)[a] = 0 <=> \A w \in WeeksBack(k, a[2], W) : V[w][a[1]] = 0
<1>1. PICK n \in {1, 2, 4, 8, 12}, g \in Group : a = <<g, n>>
  BY DEF Windows
<1> DEFINE B == WeeksBack(k, n, W)
           f == [w \in B |-> V[w][g]]
<1>2. IsFiniteSet(B) /\ B \subseteq W
  BY FS_Subset DEF WeeksBack, Weekly
<1>3. f \in [B -> Nat] /\ \A w \in B : f[w] = V[w][g]
  BY <1>2 DEF Counts, Weekly
<1>4. a[1] = g /\ a[2] = n
  BY <1>1
<1>5. Averages(V, k, which)[a] = (24 \div n) * SumFunction(f)
  BY <1>1, AverageOf
<1> HIDE DEF B, f
<1>6. SumFunction(f) \in Nat /\ (SumFunction(f) = 0 <=> \A w \in B : f[w] = 0)
  BY <1>2, <1>3, SumOfNats
<1>7. 24 \div n \in {24, 12, 6, 3, 2}
  OBVIOUS
<1>8. (24 \div n) * SumFunction(f) = 0 <=> SumFunction(f) = 0
  BY <1>6, <1>7
<1>9. Averages(V, k, which)[a] = 0 <=> \A w \in B : V[w][g] = 0
  BY <1>3, <1>5, <1>6, <1>8
<1>10. QED  BY <1>4, <1>9 DEF B

(* Where nothing happened in the longest window, all averages are zero. *)
LEMMA NothingToAverage ==
  ASSUME NEW W, NEW V, NEW k, Weekly(V, W, k), NEW which \in SUBSET Windows,
         NEW m \in Int, \A a \in which : a[2] <= m,
         \A w \in WeeksBack(k, m, W) : V[w]["total"] = 0
  PROVE  Averages(V, k, which) = NoAverages(which)
<1>1. ASSUME NEW a \in which  PROVE Averages(V, k, which)[a] = 0
  <2>1. PICK n \in {1, 2, 4, 8, 12}, g \in Group : a = <<g, n>>
    BY DEF Windows
  <2>2. a[1] = g /\ a[2] = n /\ n <= m
    BY <2>1
  <2>3. ASSUME NEW w \in WeeksBack(k, n, W)  PROVE V[w][g] = 0
    <3>1. w \in WeeksBack(k, m, W) /\ w \in W
      BY <2>2 DEF WeeksBack, Weekly
    <3>2. QED  BY <3>1 DEF Counts, Weekly
  <2>4. QED  BY <2>2, <2>3, AverageIsZero
<1>2. Averages(V, k, which) = [a \in which |-> Averages(V, k, which)[a]]
  BY DEF Averages
<1> DEFINE A == Averages(V, k, which)
<1> HIDE DEF A
<1>3. A = [a \in which |-> A[a]] /\ \A a \in which : A[a] = 0
  BY <1>1, <1>2 DEF A
<1>4. A = NoAverages(which)
  BY <1>3 DEF NoAverages
<1>5. QED  BY <1>4 DEF A

(* Where something did, the average of all crimes is not. *)
LEMMA SomethingToAverage ==
  ASSUME NEW W, NEW V, NEW k, Weekly(V, W, k), NEW which \in SUBSET Windows,
         NEW m, <<"total", m>> \in which,
         NEW w \in WeeksBack(k, m, W), V[w]["total"] # 0
  PROVE  Averages(V, k, which) # NoAverages(which)
<1> DEFINE a == <<"total", m>>
<1>1. a[1] = "total" /\ a[2] = m /\ a \in which /\ a \in Windows
  OBVIOUS
<1> HIDE DEF a
<1>2. Averages(V, k, which)[a] # 0
  BY <1>1, AverageIsZero
<1>3. NoAverages(which)[a] = 0
  BY <1>1 DEF NoAverages
<1>4. QED  BY <1>2, <1>3

----------------------------------------------------------------------------
(* What the vector says of the past.                                       *)

AllWeeks == {j.week : j \in DOMAIN aggregates}

(* What there was in each of the weeks, in the cell or in what it is in. *)
Past(map, Key(_), k, weeks) == [w \in weeks |-> ValueAt(map, Key([k EXCEPT !.week = w]))]

OwnPast      == Past(aggregates, Own, CellOf(query), AllWeeks)
ZonePast     == Past(ctx, ZoneKey, CellOf(query), AllWeeks)
DistrictPast == Past(ctx, DistrictKey, CellOf(query), AllWeeks)
DowHourPast  == Past(ctx, DowHourKey, CellOf(query), AllWeeks)

(* The weeks are finitely many, and numbered from 1. *)
LEMMA WeeksType == Given => IsFiniteSet(AllWeeks) /\ AllWeeks \subseteq Nat \ {0}
<1> SUFFICES ASSUME Given  PROVE IsFiniteSet(AllWeeks) /\ AllWeeks \subseteq Nat \ {0}
  OBVIOUS
<1>1. AllWeeks \subseteq Nat \ {0}
  BY DEF Given, AllWeeks, Cell
<1> DEFINE f == [j \in DOMAIN aggregates |-> j.week]
<1>2. /\ f \in [DOMAIN aggregates -> AllWeeks]
      /\ \A w \in AllWeeks : \E j \in DOMAIN aggregates : f[j] = w
  BY DEF AllWeeks
<1> HIDE DEF f
<1>3. IsFiniteSet(AllWeeks)
  BY <1>2, OneForEach DEF Given
<1>4. QED  BY <1>1, <1>3

(* What there was in a week, by what it was looked up with. *)
LEMMA PastIs ==
  ASSUME NEW w \in AllWeeks
  PROVE  /\ OwnPast[w] = ValueAt(aggregates, [CellOf(query) EXCEPT !.week = w])
         /\ ZonePast[w] = ValueAt(ctx, <<"zone", w, CellOf(query).place>>)
         /\ DistrictPast[w] = ValueAt(ctx, <<"district", w, CellOf(query).place.district>>)
         /\ DowHourPast[w] = ValueAt(ctx, <<"dowhour", w, CellOf(query).slot>>)
  BY DEF OwnPast, ZonePast, DistrictPast, DowHourPast, Past, Own, ZoneKey, DistrictKey,
         DowHourKey, CellOf

(* Each level has counts in every week of the data. *)
LEMMA LevelsAreWeekly ==
  ASSUME CellInv, todo = {}
  PROVE  /\ Weekly(OwnPast, AllWeeks, CellOf(query))
         /\ Weekly(ZonePast, AllWeeks, CellOf(query))
         /\ Weekly(DistrictPast, AllWeeks, CellOf(query))
         /\ Weekly(DowHourPast, AllWeeks, CellOf(query))
<1>1. IsFiniteSet(AllWeeks) /\ AllWeeks \subseteq Int
  BY WeeksType DEF CellInv
<1>2. CellOf(query).week \in Int
  BY DEF CellInv, Given, CellOf
<1>3. /\ DOMAIN OwnPast = AllWeeks /\ DOMAIN ZonePast = AllWeeks
      /\ DOMAIN DistrictPast = AllWeeks /\ DOMAIN DowHourPast = AllWeeks
  BY DEF OwnPast, ZonePast, DistrictPast, DowHourPast, Past
<1>4. Given
  BY DEF CellInv
<1>5. \A w \in AllWeeks : Counts(OwnPast[w])
  BY <1>4, PastIs, AggregatesCount
<1>6. \A w \in AllWeeks : Counts(ZonePast[w]) /\ Counts(DistrictPast[w]) /\ Counts(DowHourPast[w])
  BY PastIs, TotalsCount
<1>7. QED  BY <1>1, <1>2, <1>3, <1>5, <1>6 DEF Weekly

HistoryOf == History(aggregates, ctx, CellOf(query))

Level(V, which) == Averages(V, CellOf(query), which)

(* The levels of the history. *)
LEMMA HistoryIs ==
  HistoryOf =
    [own      |-> Level(OwnPast, OwnAverages),
     zone     |-> Level(ZonePast, ZoneAverages),
     district |-> Level(DistrictPast, WideAverages),
     dowhour  |-> Level(DowHourPast, WideAverages),
     trend    |-> [a \in TrendAverages |-> Level(OwnPast, OwnAverages)[a]
                                           - Level(OwnPast, OwnAverages)[<<a[1], 12>>]]]
  BY DEF HistoryOf, Level, History, Past, OwnPast, ZonePast, DistrictPast, DowHourPast, AllWeeks

(* The trend of nothing. *)
LEMMA TrendOfNone ==
  [a \in TrendAverages |-> NoAverages(OwnAverages)[a] - NoAverages(OwnAverages)[<<a[1], 12>>]]
    = NoAverages(TrendAverages)
<1>1. \A a \in TrendAverages : /\ NoAverages(OwnAverages)[a] = 0
                               /\ NoAverages(OwnAverages)[<<a[1], 12>>] = 0
  BY TheAverages DEF NoAverages
<1>2. QED  BY <1>1 DEF NoAverages

(* Without any past all averages are zero. *)
LEMMA NoHistoryIs ==
  NoHistory = [own |-> NoAverages(OwnAverages), zone |-> NoAverages(ZoneAverages),
               district |-> NoAverages(WideAverages), dowhour |-> NoAverages(WideAverages),
               trend |-> NoAverages(TrendAverages)]
<1> DEFINE k == [week |-> 1]
<1>1. {j.week : j \in DOMAIN <<>>} = {}
  OBVIOUS
<1>2. ASSUME NEW U, U = [w \in {} |-> U[w]], NEW which \in SUBSET Windows
      PROVE  Averages(U, k, which) = NoAverages(which)
  <2>1. Weekly(U, {}, k)
    BY <1>2, FS_EmptySet DEF Weekly
  <2>2. \A w \in WeeksBack(k, 12, {}) : U[w]["total"] = 0
    BY DEF WeeksBack
  <2>3. \A a \in which : a[2] <= 12
    BY DEF Windows
  <2>4. QED  BY <2>1, <2>2, <2>3, NothingToAverage
<1>3. /\ Averages(Past(<<>>, Own, k, {}), k, OwnAverages) = NoAverages(OwnAverages)
      /\ Averages(Past(<<>>, ZoneKey, k, {}), k, ZoneAverages) = NoAverages(ZoneAverages)
      /\ Averages(Past(<<>>, DistrictKey, k, {}), k, WideAverages) = NoAverages(WideAverages)
      /\ Averages(Past(<<>>, DowHourKey, k, {}), k, WideAverages) = NoAverages(WideAverages)
  BY <1>2, TheAverages DEF Past
<1>4. QED  BY <1>1, <1>3, TrendOfNone DEF NoHistory, History, Past

(* An entry of the last n weeks with a crime. *)
Event(k, n) == /\ k \in DOMAIN aggregates
               /\ k.week \in CellOf(query).week - (n - 1) .. CellOf(query).week
               /\ aggregates[k].total > 0

(* An eventful cell is one with such an entry. *)
LEMMA EventfulIs ==
  Eventful <=> \/ \E k : /\ Event(k, 12)
                         /\ k.place = CellOf(query).place /\ k.slot = CellOf(query).slot
               \/ \E k : /\ Event(k, 4)
                         /\ \/ k.place.district = CellOf(query).place.district
                            \/ k.slot = CellOf(query).slot
  BY DEF Eventful, Event

(* The weeks of a window. *)
LEMMA LastWeeks ==
  ASSUME Given, NEW n \in {4, 12}, NEW w
  PROVE  w \in WeeksBack(CellOf(query), n, AllWeeks)
         <=> w \in AllWeeks /\ w \in CellOf(query).week - (n - 1) .. CellOf(query).week
<1>1. CellOf(query).week - n + 1 = CellOf(query).week - (n - 1)
  BY DEF Given, CellOf
<1>2. QED  BY <1>1 DEF WeeksBack

(* When nothing happened where the trainer looks, it sees what a node      *)
(* sees. *)
LEMMA NothingHappened ==
  ASSUME CellInv, todo = {}, ~Eventful
  PROVE  HistoryOf = NoHistory
<1> DEFINE cell == CellOf(query)
           B(n) == WeeksBack(cell, n, AllWeeks)
<1>1. \A k \in DOMAIN aggregates : aggregates[k].total \in Nat
  BY DEF CellInv, Given, CrimeCount, Group
<1>2. \A k \in DOMAIN aggregates :
        k.week \in B(12) /\ k.place = cell.place /\ k.slot = cell.slot => aggregates[k].total = 0
  BY <1>1, LastWeeks, EventfulIs DEF Event, CellInv
<1>3. \A k \in DOMAIN aggregates :
        /\ k.week \in B(4)
        /\ k.place.district = cell.place.district \/ k.slot = cell.slot
        => aggregates[k].total = 0
  BY <1>1, LastWeeks, EventfulIs DEF Event, CellInv
<1>4. ASSUME NEW w \in B(12)
      PROVE  OwnPast[w]["total"] = 0
  <2> DEFINE k == [cell EXCEPT !.week = w]
  <2>1. w \in AllWeeks
    BY DEF WeeksBack
  <2>2. OwnPast[w] = ValueAt(aggregates, k)
    BY <2>1, PastIs
  <2>3. k.week = w /\ k.place = cell.place /\ k.slot = cell.slot
    BY DEF CellOf
  <2> HIDE DEF k, cell
  <2>4. CASE k \in DOMAIN aggregates
    <3>1. aggregates[k].total = 0
      BY <1>2, <1>4, <2>3, <2>4
    <3>2. QED  BY <2>2, <2>4, <3>1 DEF ValueAt
  <2>5. CASE k \notin DOMAIN aggregates
    BY <2>2, <2>5 DEF ValueAt, Zero, Group
  <2>6. QED  BY <2>4, <2>5
<1>5. ASSUME NEW w \in B(4)
      PROVE  /\ ZonePast[w]["total"] = 0
             /\ DistrictPast[w]["total"] = 0 /\ DowHourPast[w]["total"] = 0
  <2>1. w \in AllWeeks
    BY DEF WeeksBack
  <2>2. ZonePast[w]["total"] = 0
    <3> DEFINE key == <<"zone", w, cell.place>>
    <3>1. \A k \in DOMAIN aggregates : key \in Keys(k) => aggregates[k].total = 0
      BY <1>3 DEF Keys, ZoneKey, DistrictKey, DowHourKey
    <3>2. ZonePast[w] = ValueAt(ctx, key)
      BY <2>1, PastIs
    <3> HIDE DEF key
    <3>3. QED  BY <3>1, <3>2, TotalsCount
  <2>3. DistrictPast[w]["total"] = 0
    <3> DEFINE key == <<"district", w, cell.place.district>>
    <3>1. \A k \in DOMAIN aggregates : key \in Keys(k) => aggregates[k].total = 0
      BY <1>3 DEF Keys, ZoneKey, DistrictKey, DowHourKey
    <3>2. DistrictPast[w] = ValueAt(ctx, key)
      BY <2>1, PastIs
    <3> HIDE DEF key
    <3>3. QED  BY <3>1, <3>2, TotalsCount
  <2>4. DowHourPast[w]["total"] = 0
    <3> DEFINE key == <<"dowhour", w, cell.slot>>
    <3>1. \A k \in DOMAIN aggregates : key \in Keys(k) => aggregates[k].total = 0
      BY <1>3 DEF Keys, ZoneKey, DistrictKey, DowHourKey
    <3>2. DowHourPast[w] = ValueAt(ctx, key)
      BY <2>1, PastIs
    <3> HIDE DEF key
    <3>3. QED  BY <3>1, <3>2, TotalsCount
  <2>5. QED  BY <2>2, <2>3, <2>4
<1>6. \A a \in OwnAverages : a[2] <= 12
  BY TheAverages DEF Windows
<1> HIDE DEF cell, B
<1>7. Level(OwnPast, OwnAverages) = NoAverages(OwnAverages)
  BY <1>4, <1>6, LevelsAreWeekly, TheAverages, NothingToAverage DEF Level, cell, B
<1>8. /\ Level(ZonePast, ZoneAverages) = NoAverages(ZoneAverages)
      /\ Level(DistrictPast, WideAverages) = NoAverages(WideAverages)
      /\ Level(DowHourPast, WideAverages) = NoAverages(WideAverages)
  BY <1>5, LevelsAreWeekly, TheAverages, NothingToAverage DEF Level, cell, B
<1>9. QED  BY <1>7, <1>8, HistoryIs, NoHistoryIs, TrendOfNone

(* When something did, the average of all crimes of the cell, of its       *)
(* district or of its hour is more than zero. *)
LEMMA SomethingHappened ==
  ASSUME CellInv, todo = {}, Eventful
  PROVE  HistoryOf # NoHistory
<1> DEFINE cell == CellOf(query)
<1>1. \/ \E k : Event(k, 12) /\ k.place = cell.place /\ k.slot = cell.slot
      \/ \E k : Event(k, 4) /\ (k.place.district = cell.place.district \/ k.slot = cell.slot)
  BY EventfulIs
<1>2. ASSUME NEW n \in {4, 12}, NEW k, Event(k, n)
      PROVE  /\ k.week \in AllWeeks /\ k.week \in WeeksBack(cell, n, AllWeeks)
             /\ aggregates[k].total # 0 /\ k \in DOMAIN aggregates
  BY <1>2, LastWeeks DEF CellInv, Event, AllWeeks
<1>3. CASE \E k : Event(k, 12) /\ k.place = cell.place /\ k.slot = cell.slot
  <2>1. PICK k : Event(k, 12) /\ k.place = cell.place /\ k.slot = cell.slot
    BY <1>3
  <2>2. /\ k.week \in AllWeeks /\ k.week \in WeeksBack(cell, 12, AllWeeks)
        /\ aggregates[k].total # 0 /\ k \in DOMAIN aggregates
    BY <1>2, <2>1
  <2>3. k = [cell EXCEPT !.week = k.week]
    BY <2>1, <2>2 DEF CellInv, Given, Cell, CellOf
  <2>4. OwnPast[k.week]["total"] # 0
    BY <2>2, <2>3, PastIs DEF ValueAt
  <2>5. Level(OwnPast, OwnAverages) # NoAverages(OwnAverages)
    BY <2>2, <2>4, LevelsAreWeekly, TheAverages, SomethingToAverage DEF Level
  <2>6. HistoryOf.own # NoHistory.own
    BY <2>5, HistoryIs, NoHistoryIs
  <2>7. QED  BY <2>6
<1>4. ASSUME NEW k, Event(k, 4), k.place.district = cell.place.district
      PROVE  HistoryOf # NoHistory
  <2>1. DistrictPast[k.week]["total"] # 0
    <3> DEFINE key == <<"district", k.week, cell.place.district>>
    <3>1. key \in Keys(k)
      BY <1>4 DEF Keys, ZoneKey, DistrictKey, DowHourKey
    <3>2. DistrictPast[k.week] = ValueAt(ctx, key)
      BY <1>2, <1>4, PastIs
    <3> HIDE DEF key
    <3>3. QED  BY <1>2, <1>4, <3>1, <3>2, TotalsCount
  <2>2. Level(DistrictPast, WideAverages) # NoAverages(WideAverages)
    BY <1>2, <1>4, <2>1, LevelsAreWeekly, TheAverages, SomethingToAverage DEF Level
  <2>3. HistoryOf.district # NoHistory.district
    BY <2>2, HistoryIs, NoHistoryIs
  <2>4. QED  BY <2>3
<1>5. ASSUME NEW k, Event(k, 4), k.slot = cell.slot
      PROVE  HistoryOf # NoHistory
  <2>1. DowHourPast[k.week]["total"] # 0
    <3> DEFINE key == <<"dowhour", k.week, cell.slot>>
    <3>1. key \in Keys(k)
      BY <1>5 DEF Keys, ZoneKey, DistrictKey, DowHourKey
    <3>2. DowHourPast[k.week] = ValueAt(ctx, key)
      BY <1>2, <1>5, PastIs
    <3> HIDE DEF key
    <3>3. QED  BY <1>2, <1>5, <3>1, <3>2, TotalsCount
  <2>2. Level(DowHourPast, WideAverages) # NoAverages(WideAverages)
    BY <1>2, <1>5, <2>1, LevelsAreWeekly, TheAverages, SomethingToAverage DEF Level
  <2>3. HistoryOf.dowhour # NoHistory.dowhour
    BY <2>2, HistoryIs, NoHistoryIs
  <2>4. QED  BY <2>3
<1>6. QED  BY <1>1, <1>3, <1>4, <1>5

----------------------------------------------------------------------------
(* The two vectors of a cell.                                              *)

(* A node makes a vector of a query that it does not refuse, and that does *)
(* not bring one along. *)
LEMMA NodeMakes ==
  ASSUME BuildFeatures(query).made = "vector", Given
  PROVE  /\ BuildFeatures(query) = Made(BaseFeatures(query))
         /\ Fits(query)
<1>1. Echo.made # "vector" /\ Rejected.made # "vector"
  BY DEF Echo, Rejected
<1>2. query.features = "none"
  BY <1>1 DEF BuildFeatures, Given
<1>3. Fits(query)
  BY <1>1, <1>2 DEF BuildFeatures
<1>4. QED  BY <1>2, <1>3 DEF BuildFeatures

Names == {"district", "area", "hour", "day", "month", "is_weekend", "is_night", "is_morning",
          "is_afternoon", "is_evening", "is_friday_saturday_night", "district_onehot",
          "community_area_onehot", "history"}

(* Two vectors of a query differ in what they were made of. *)
LEMMA VectorsDiffer ==
  ASSUME NEW q, NEW m, NEW n, NEW f, NEW h, NEW mm, NEW nn, NEW ff, NEW hh
  PROVE  LET v == Vector(q, m, n, f, h)  vv == Vector(q, mm, nn, ff, hh) IN
         /\ DOMAIN v = Names
         /\ {x \in Names : v[x] # vv[x]} =
              {x \in {"month"} : m # mm} \cup {x \in {"is_night"} : Bit(n) # Bit(nn)}
              \cup {x \in {"is_friday_saturday_night"} : Bit(f) # Bit(ff)}
              \cup {x \in {"history"} : h # hh}
  BY DEF Vector, Names

(* From midnight to 5 h both sides call it night, from 20 h only one; the  *)
(* small hours of a weekend are a night for the trainer until 3 h. *)
LEMMA HoursDiffer ==
  ASSUME Fits(query), Given
  PROVE  /\ Bit(query.hour \in 0 .. 5) # Bit(query.hour >= 20 \/ query.hour <= 5)
            <=> query.hour >= 20
         /\ Bit(query.dow \in {5, 6} /\ query.hour >= 18)
            # Bit(query.dow \in {5, 6} /\ (query.hour >= 18 \/ query.hour <= 3))
            <=> query.dow \in {5, 6} /\ query.hour <= 3
  BY DEF Fits, Given, Bit

(* Trainer and node disagree on these features, there always, and on no    *)
(* others: night hours, the month, and the past where there is one.        *)
THEOREM SkewIsKnown == CellSpec => []KnownSkew
<1>1. CellInv => KnownSkew
  <2> SUFFICES ASSUME CellInv, Both
               PROVE  Skewed =
                 {f \in {"is_night"} : query.hour >= 20}
                 \cup {f \in {"is_friday_saturday_night"} : query.dow \in {5, 6} /\ query.hour <= 3}
                 \cup {f \in {"month"} :
                         query.week.monday # (IF query.week.given THEN query.week.month ELSE 1)}
                 \cup {f \in {"history"} : Eventful}
    BY DEF KnownSkew
  <2>1. Given /\ NotYet.made # "vector"
    BY DEF CellInv, NotYet
  <2>2. served = BuildFeatures(query) /\ todo = {} /\ trained = Made(RawFeatures(query))
    BY <2>1 DEF CellInv, Computed, Both
  <2>3. served = Made(BaseFeatures(query)) /\ Fits(query)
    BY <2>1, <2>2, NodeMakes DEF Both
  <2> DEFINE month == IF query.week.given THEN query.week.month ELSE 1
             night == query.hour \in 0 .. 5
             nights == query.hour >= 20 \/ query.hour <= 5
             friday == query.dow \in {5, 6} /\ query.hour >= 18
             fridays == query.dow \in {5, 6} /\ (query.hour >= 18 \/ query.hour <= 3)
  <2>4. /\ served.of = Vector(query, month, night, friday, NoHistory)
        /\ trained.of = Vector(query, query.week.monday, nights, fridays, HistoryOf)
    BY <2>2, <2>3 DEF Made, BaseFeatures, RawFeatures, HistoryOf
  <2>5. NoHistory # HistoryOf <=> Eventful
    BY <2>2, NothingHappened, SomethingHappened
  <2>6. /\ Bit(night) # Bit(nights) <=> query.hour >= 20
        /\ Bit(friday) # Bit(fridays) <=> query.dow \in {5, 6} /\ query.hour <= 3
    BY <2>1, <2>3, HoursDiffer
  <2> HIDE DEF month, night, nights, friday, fridays
  <2>7. Skewed = {x \in {"month"} : month # query.week.monday}
                 \cup {x \in {"is_night"} : Bit(night) # Bit(nights)}
                 \cup {x \in {"is_friday_saturday_night"} : Bit(friday) # Bit(fridays)}
                 \cup {x \in {"history"} : NoHistory # HistoryOf}
    BY <2>4, VectorsDiffer DEF Skewed
  <2>8. QED  BY <2>5, <2>6, <2>7 DEF month
<1>2. QED  BY <1>1, CellInvariant, PTL

----------------------------------------------------------------------------
(* A series that never changes.                                            *)

(* How many of the weeks from 1 to m a window of n weeks sees. *)
Seen(n, m) == IF m < 1 THEN 0 ELSE IF m < n THEN m ELSE n

(* As each week has data, a window sees all of its weeks from the first. *)
LEMMA SeenWeeks ==
  ASSUME Given, Steady, NEW n \in {2, 4, 12}
  PROVE  LET B == WeeksBack(CellOf(query), n, AllWeeks) IN
         /\ IsFiniteSet(B) /\ B \subseteq 1 .. query.week.number /\ B \subseteq AllWeeks
         /\ Cardinality(B) = Seen(n, query.week.number)
<1> DEFINE m == query.week.number
           B == WeeksBack(CellOf(query), n, AllWeeks)
           a == IF m - n + 1 < 1 THEN 1 ELSE m - n + 1
<1>1. m \in Int /\ CellOf(query).week = m
  BY DEF Given, CellOf
<1>2. AllWeeks \subseteq Nat \ {0}
  BY WeeksType
<1>3. 1 .. m \subseteq AllWeeks
  BY DEF Steady, AllWeeks
<1>4. a \in Int
  BY <1>1
<1>5. B = a .. m
  <2>1. B = {w \in AllWeeks : w \in m - n + 1 .. m}
    BY <1>1 DEF WeeksBack
  <2>2. \A w \in AllWeeks : w \in Int /\ w >= 1
    BY <1>2
  <2>3. \A w \in Int : w >= a <=> w >= 1 /\ w >= m - n + 1
    BY <1>1
  <2> HIDE DEF B, a
  <2>4. \A w : w \in B <=> w \in a .. m
    <3>1. ASSUME NEW w \in B  PROVE w \in a .. m
      BY <1>1, <2>1, <2>2, <2>3, <3>1
    <3>2. ASSUME NEW w \in a .. m  PROVE w \in B
      <4>1. w \in Int /\ w >= 1 /\ w >= m - n + 1 /\ w <= m
        BY <1>1, <1>4, <2>3
      <4>2. w \in AllWeeks
        BY <1>1, <1>3, <4>1
      <4>3. QED  BY <1>1, <2>1, <4>1, <4>2
    <3>3. QED  BY <3>1, <3>2
  <2>5. QED  BY <2>4
<1>6. IsFiniteSet(a .. m) /\ Cardinality(a .. m) = IF a > m THEN 0 ELSE m - a + 1
  BY <1>1, <1>4, FS_Interval
<1>7. Cardinality(a .. m) = Seen(n, m)
  BY <1>1, <1>6 DEF Seen
<1>8. a .. m \subseteq 1 .. m
  BY <1>1
<1> HIDE DEF a
<1>9. QED  BY <1>3, <1>5, <1>6, <1>7, <1>8

(* The average of an unchanging series. *)
LEMMA SteadyAverage ==
  ASSUME CellInv, todo = {}, Steady, NEW n \in {2, 4, 12}, NEW g \in Group
  PROVE  <<g, n>> \in OwnAverages =>
           Level(OwnPast, OwnAverages)[<<g, n>>]
             = (24 \div n) * (Now[g] * Seen(n, query.week.number))
<1> DEFINE B == WeeksBack(CellOf(query), n, AllWeeks)
           f == [w \in B |-> OwnPast[w][g]]
<1>1. /\ IsFiniteSet(B) /\ B \subseteq 1 .. query.week.number /\ B \subseteq AllWeeks
      /\ Cardinality(B) = Seen(n, query.week.number)
  BY SeenWeeks DEF CellInv
<1>2. Now[g] \in Int
  BY AggregatesCount DEF CellInv, Counts, Now
<1>3. \A w \in B : f[w] = Now[g]
  BY <1>1, PastIs DEF Steady
<1>4. f \in [B -> Int]
  BY <1>2, <1>3
<1>5. <<g, n>> \in OwnAverages =>
        Level(OwnPast, OwnAverages)[<<g, n>>] = (24 \div n) * SumFunction(f)
  BY LevelsAreWeekly, AverageOf DEF Level
<1> HIDE DEF B, f
<1>6. SumFunction(f) = Now[g] * Cardinality(B)
  BY <1>1, <1>2, <1>3, <1>4, SumOfEquals
<1>7. QED  BY <1>1, <1>5, <1>6

(* A short window that is full is divided by its length, the window of 12  *)
(* weeks is not yet full: the trend of an unchanging series rises.         *)
LEMMA TrendRises ==
  ASSUME NEW m \in Int, NEW n \in {2, 4}, NEW v \in Nat, m < 1 => v = 0
  PROVE  LET trend == (24 \div n) * (v * Seen(n, m)) - (24 \div 12) * (v * Seen(12, m)) IN
         trend >= 0 /\ (trend = 0 <=> m >= 12 \/ v = 0)
<1> DEFINE trend == (24 \div n) * (v * Seen(n, m)) - (24 \div 12) * (v * Seen(12, m))
<1>1. CASE m < 1
  <2>1. v = 0 /\ Seen(n, m) = 0 /\ Seen(12, m) = 0
    BY <1>1 DEF Seen
  <2>2. QED  BY <2>1
<1>2. CASE m >= 12
  <2>1. Seen(n, m) = n /\ Seen(12, m) = 12
    BY <1>2 DEF Seen
  <2>2. trend = 0
    BY <2>1
  <2>3. QED  BY <1>2, <2>2
<1>3. CASE m \in 1 .. 11
  <2> DEFINE s == Seen(n, m)
             c == 24 \div n
             d == c * s - 2 * m
  <2>1. Seen(12, m) = m /\ s \in 1 .. 4 /\ c \in {6, 12}
    BY <1>3 DEF Seen
  <2>2. d \in 1 .. 24
    BY <1>3 DEF Seen
  <2> HIDE DEF s, c
  <2>3. \A x, y \in Int : c * (v * x) - 2 * (v * y) = v * (c * x - 2 * y)
    BY <2>1
  <2>4. trend = v * d
    BY <1>3, <2>1, <2>3 DEF s, c
  <2> HIDE DEF d, trend
  <2>5. v * d >= 0 /\ (v * d = 0 <=> v = 0)
    BY <2>2
  <2>6. QED  BY <1>3, <2>4, <2>5 DEF trend
<1>4. QED  BY <1>1, <1>2, <1>3

(* Until there are 12 weeks of data a series that never changes seems to   *)
(* rise, and it never seems to fall.                                       *)
THEOREM TrendsStartCold == CellSpec => []ColdStart
<1>1. CellInv => ColdStart
  <2> SUFFICES ASSUME CellInv, trained # NotYet, Steady, NEW a \in TrendAverages
               PROVE  LET trend == trained.of.history.trend[a] IN
                        /\ trend >= 0
                        /\ trend = 0 <=> (query.week.number >= 12 \/ Now[a[1]] = 0)
    BY DEF ColdStart
  <2> DEFINE g == a[1]
             n == a[2]
             m == query.week.number
  <2>1. todo = {} /\ trained = Made(RawFeatures(query))
    BY DEF CellInv, Computed
  <2>2. trained.of.history = HistoryOf
    BY <2>1 DEF Made, RawFeatures, Vector, HistoryOf
  <2>3. trained.of.history.trend[a]
          = Level(OwnPast, OwnAverages)[a] - Level(OwnPast, OwnAverages)[<<g, 12>>]
    BY <2>2, HistoryIs
  <2>4. /\ g \in Group /\ n \in {2, 4} /\ a = <<g, n>>
        /\ a \in OwnAverages /\ <<g, 12>> \in OwnAverages
    BY TheAverages DEF Windows
  <2> HIDE DEF g, n
  <2>5. /\ Level(OwnPast, OwnAverages)[a] = (24 \div n) * (Now[g] * Seen(n, m))
        /\ Level(OwnPast, OwnAverages)[<<g, 12>>] = (24 \div 12) * (Now[g] * Seen(12, m))
    BY <2>1, <2>4, SteadyAverage
  <2>6. m \in Int /\ Now[g] \in Nat
    BY <2>4, AggregatesCount DEF CellInv, Given, Counts, Now
  <2>7. m < 1 => Now[g] = 0
    <3>1. m < 1 => CellOf(query) \notin DOMAIN aggregates
      BY DEF CellInv, Given, Cell, CellOf
    <3>2. QED  BY <2>4, <3>1 DEF Now, ValueAt, Zero
  <2>8. QED  BY <2>3, <2>4, <2>5, <2>6, <2>7, TrendRises DEF g
<1>2. QED  BY <1>1, CellInvariant, PTL
=============================================================================
