--------------------------- MODULE TrainingProofs ---------------------------
(* Theorems about the parallel trainer, for any number of samples, workers *)
(* and epochs, and any number of processors.                               *)
EXTENDS Training, FiniteSetTheorems, SequenceTheorems, TLAPS

----------------------------------------------------------------------------
(* The chunks.                                                             *)

(* A quotient and a remainder are unique. *)
LEMMA DivisionIsUnique ==
  ASSUME NEW M \in Nat \ {0}, NEW q \in Nat, NEW r \in 0 .. M - 1,
         NEW p \in Nat, NEW s \in 0 .. M - 1, M * q + r = M * p + s
  PROVE  q = p
<1>1. ASSUME NEW a \in Nat, NEW b \in Nat, NEW c \in 0 .. M - 1, NEW d \in 0 .. M - 1,
             a < b, M * a + c = M * b + d
      PROVE  FALSE
  <2>1. PICK e \in Nat : b = a + 1 + e
    <3>1. b - a - 1 \in Nat /\ b = a + 1 + (b - a - 1)
      BY <1>1
    <3>2. QED  BY <3>1
  <2>2. M * b = M * a + M + M * e /\ M * e \in Nat
    BY <2>1
  <2>3. QED  BY <1>1, <2>2
<1>2. QED  BY <1>1

(* The chunks of all workers hold every sample: the quotient is rounded up. *)
LEMMA ChunksReachTheEnd ==
  ASSUME NEW n \in Nat \ {0}, NEW workers \in Nat \ {0}
  PROVE  /\ ChunkSize(n, workers) \in Nat \ {0}
         /\ ChunkSize(n, workers) * workers >= n
<1> DEFINE k == n + workers - 1
           q == k \div workers
           r == k % workers
<1>1. k \in Nat /\ q \in Nat /\ r \in 0 .. workers - 1 /\ k = workers * q + r
  OBVIOUS
<1>2. workers * q >= n
  BY <1>1
<1>3. q # 0
  BY <1>1, <1>2
<1>4. ChunkSize(n, workers) = q
  BY DEF ChunkSize
<1>5. workers * q = q * workers
  BY <1>1
<1>6. QED  BY <1>1, <1>2, <1>3, <1>4, <1>5

(* The call, with its defaults filled in. *)
CallType == call.n \in Nat /\ call.workers \in Nat \ {0} /\ call.epochs \in Nat \ {0}

(* Where a chunk begins. *)
LEMMA FromType ==
  ASSUME CallType, call.n > 0, NEW w \in Nat
  PROVE  /\ From(w) \in Nat
         /\ From(w + 1) = From(w) + ChunkSize(call.n, call.workers)
         /\ \A v \in Nat : v < w => From(v + 1) <= From(w)
<1> DEFINE S == ChunkSize(call.n, call.workers)
<1>1. S \in Nat \ {0}
  BY ChunksReachTheEnd DEF CallType
<1> HIDE DEF S
<1>2. w * S \in Nat /\ (w + 1) * S = w * S + S
  BY <1>1
<1>3. ASSUME NEW v \in Nat, v < w  PROVE (v + 1) * S <= w * S
  <2>1. PICK e \in Nat : w = v + 1 + e
    <3>1. w - v - 1 \in Nat /\ w = v + 1 + (w - v - 1)
      BY <1>3
    <3>2. QED  BY <3>1
  <2>2. w * S = (v + 1) * S + e * S /\ e * S \in Nat /\ (v + 1) * S \in Nat
    BY <1>1, <2>1
  <2>3. QED  BY <2>2
<1>4. QED  BY <1>2, <1>3 DEF From, S

(* No sample is in two chunks. *)
LEMMA ChunksAreDisjoint ==
  ASSUME CallType, call.n > 0, NEW v \in Nat, NEW w \in Nat, v # w,
         NEW i \in Chunk(v)
  PROVE  i \notin Chunk(w)
<1>1. ASSUME NEW a \in Nat, NEW b \in Nat, a < b, NEW k \in Chunk(a)
      PROVE  k \notin Chunk(b)
  <2>1. From(a + 1) <= From(b) /\ From(a + 1) \in Nat /\ From(b) \in Nat
    BY <1>1, FromType
  <2>2. k \in Nat /\ k <= From(a + 1)
    BY <2>1 DEF Chunk, To, Samples, CallType
  <2>3. ~(From(b) < k)
    BY <2>1, <2>2
  <2>4. QED  BY <2>3 DEF Chunk
<1>2. QED  BY <1>1

(* Every sample is in the chunk of some worker, one of those that were     *)
(* launched if the loop stops because a chunk would begin after the end. *)
LEMMA EverySampleHasAChunk ==
  ASSUME CallType, NEW i \in Samples
  PROVE  \E w \in Tasks : /\ i \in Chunk(w)
                          /\ \A t \in Nat : From(t) >= call.n => w < t
<1> DEFINE S == ChunkSize(call.n, call.workers)
           w == (i - 1) \div S
           r == (i - 1) % S
<1>1. call.n \in Nat \ {0} /\ i \in Nat \ {0} /\ i <= call.n /\ call.workers \in Nat \ {0}
  BY DEF CallType, Samples
<1>2. S \in Nat \ {0} /\ S * call.workers >= call.n
  BY <1>1, ChunksReachTheEnd
<1>3. i - 1 \in Nat /\ w \in Nat /\ r \in 0 .. S - 1 /\ i - 1 = S * w + r
  <2>1. ASSUME NEW M \in Nat \ {0}, NEW k \in Nat
        PROVE  k \div M \in Nat /\ k % M \in 0 .. M - 1 /\ k = M * (k \div M) + (k % M)
    OBVIOUS
  <2>2. i - 1 \in Nat
    BY <1>1
  <2>3. QED  BY <1>2, <2>1, <2>2
<1>4. /\ From(w) = S * w /\ From(w) \in Nat /\ From(w + 1) = From(w) + S
  <2>1. From(w) = w * S /\ w * S = S * w
    BY <1>2, <1>3 DEF From
  <2>2. QED  BY <1>1, <1>3, <2>1, FromType
<1> HIDE DEF w, r
<1>5. From(w) < i /\ i <= From(w + 1)
  BY <1>1, <1>2, <1>3, <1>4
<1>6. i \in Chunk(w)
  BY <1>1, <1>4, <1>5 DEF Chunk, To
<1>7. ASSUME NEW t \in Nat, From(t) >= call.n  PROVE w < t
  <2>1. SUFFICES ASSUME t <= w  PROVE FALSE
    BY <1>3
  <2>2. From(t) <= From(w)
    <3>1. CASE t = w
      BY <3>1, <1>4
    <3>2. CASE t < w
      <4>1. From(t + 1) <= From(w) /\ From(t) \in Nat /\ From(t + 1) = From(t) + S
        BY <1>1, <1>3, <3>2, FromType
      <4>2. QED  BY <1>2, <1>4, <4>1
    <3>3. QED  BY <1>3, <2>1, <3>1, <3>2
  <2>3. From(t) \in Nat
    BY <1>1, FromType
  <2>4. QED  BY <1>1, <1>4, <1>5, <1>7, <2>2, <2>3
<1>8. From(call.workers) >= call.n
  BY <1>1, <1>2 DEF From
<1>9. w \in Tasks
  BY <1>1, <1>3, <1>7, <1>8 DEF Tasks
<1>10. QED  BY <1>6, <1>7, <1>9

----------------------------------------------------------------------------
(* The inductive invariant.                                                *)

Grad == [times : [Samples -> {0, 1}], count : Nat, at : Nat]

(* Which samples a gradient is of, and that it is one at the weights. *)
Part(g) == {i \in Samples : g.times[i] = 1}
Proper(g) == g \in Grad /\ g.count = Cardinality(Part(g)) /\ g.at = Len(weights)

Types ==
  /\ CallType
  /\ pc \in {"epoch", "launch", "sum", "update", "return"}
  /\ epoch \in Nat
  /\ weights \in Seq(Grad)
  /\ history \in Seq(Nat)
  /\ turn \in Nat
  /\ task \in [Tasks -> {"none", "compute", "sent", "exited"}]
  /\ snapshot \in [Tasks -> Seq(Grad)]
  /\ partials \in Seq(Grad)
  /\ closed \in BOOLEAN
  /\ wg \in Nat
  /\ total \in Grad

(* Who may be doing what. *)
Running == {w \in Tasks : task[w] \in {"compute", "sent"}}
Finished == {w \in Tasks : task[w] \in {"sent", "exited"}}

Phases ==
  /\ pc = "launch" => ~closed /\ \A w \in Tasks : task[w] = "none" <=> w >= turn
  /\ pc # "launch" => \A w \in Tasks : task[w] \in {"none", "exited"}
  /\ pc = "sum" => closed
  /\ pc \in {"launch", "sum"} => call.n > 0
  /\ \A w \in Tasks : task[w] = "compute" => snapshot[w] = weights
  /\ wg = Cardinality(Running)

RoomForAll == pc \in {"launch", "sum"} => Len(partials) <= Cardinality(Finished)

(* How far the training is. *)
Progress ==
  /\ epoch = Len(weights) + 1 /\ epoch <= call.epochs + 1
  /\ pc \in {"launch", "sum", "update"} => epoch <= call.epochs
  /\ Descent!Reports(history, Len(weights))

(* Where the gradient of a sample is: in the sum, or in one partial. *)
Somewhere(i) == \/ total.times[i] = 1
                \/ \E j \in 1 .. Len(partials) : partials[j].times[i] = 1
OnlyOnce(i) ==
  /\ \A j, k \in 1 .. Len(partials) :
        partials[j].times[i] = 1 /\ partials[k].times[i] = 1 => j = k
  /\ total.times[i] = 1 => \A j \in 1 .. Len(partials) : partials[j].times[i] = 0

Gathered ==
  pc \in {"launch", "sum"} =>
    /\ Proper(total)
    /\ \A j \in 1 .. Len(partials) : Proper(partials[j])
    /\ \A i \in Samples : OnlyOnce(i)
    /\ \A w \in Tasks : \A i \in Chunk(w) : Somewhere(i) <=> task[w] \in {"sent", "exited"}
    /\ pc = "sum" => \A i \in Samples : Somewhere(i)

(* What the weights are moved by. *)
Complete == pc = "update" => total = Descent!FullGradient(Len(weights))

IInv == Types /\ Phases /\ RoomForAll /\ Progress /\ Gathered /\ Complete

----------------------------------------------------------------------------
(* Gradients.                                                              *)

(* There are finitely many samples and workers. *)
LEMMA FiniteSamples ==
  ASSUME CallType
  PROVE  /\ IsFiniteSet(Samples) /\ Cardinality(Samples) = call.n
         /\ IsFiniteSet(Tasks) /\ Cardinality(Tasks) = call.workers
<1>1. ASSUME NEW a \in {0, 1}, NEW n \in Nat
      PROVE  IsFiniteSet(a .. n + a - 1) /\ Cardinality(a .. n + a - 1) = n
  <2>1. a \in Int /\ n + a - 1 \in Int
    OBVIOUS
  <2>2. /\ IsFiniteSet(a .. n + a - 1)
        /\ Cardinality(a .. n + a - 1)
             = IF a > n + a - 1 THEN 0 ELSE (n + a - 1) - a + 1
    BY ONLY <2>1, FS_Interval, Zenon
  <2>3. QED  BY <2>2
<1>2. IsFiniteSet(1 .. call.n) /\ Cardinality(1 .. call.n) = call.n
  <2>1. call.n + 1 - 1 = call.n /\ call.n \in Nat
    BY DEF CallType
  <2>2. QED  BY <1>1, <2>1
<1>3. /\ IsFiniteSet(0 .. call.workers - 1)
      /\ Cardinality(0 .. call.workers - 1) = call.workers
  <2>1. call.workers + 0 - 1 = call.workers - 1 /\ call.workers \in Nat
    BY DEF CallType
  <2>2. QED  BY <1>1, <2>1
<1>4. QED  BY <1>2, <1>3 DEF Samples, Tasks

(* The gradient of a part of the samples says which part that is. *)
LEMMA GradientOfAPart ==
  ASSUME CallType, NEW part \in SUBSET Samples, NEW at \in Seq(Grad)
  PROVE  /\ Gradient(part, at) \in Grad
         /\ Part(Gradient(part, at)) = part
         /\ Gradient(part, at).count = Cardinality(part)
         /\ Gradient(part, at).at = Len(at)
         /\ \A i \in Samples : Gradient(part, at).times[i] = 1 <=> i \in part
<1>1. IsFiniteSet(part) /\ Cardinality(part) \in Nat
  BY FiniteSamples, FS_Subset, FS_CardinalityType
<1>2. QED  BY <1>1 DEF Gradient, Grad, Part

(* The sum of the gradients of two parts that share no sample is the       *)
(* gradient of their union. *)
LEMMA SumOfGradients ==
  ASSUME CallType, NEW g, NEW p, Proper(g), Proper(p),
         \A i \in Samples : g.times[i] = 1 => p.times[i] = 0
  PROVE  LET s == [times |-> [i \in Samples |-> g.times[i] + p.times[i]],
                   count |-> g.count + p.count, at |-> p.at]
         IN  /\ Proper(s)
             /\ \A i \in Samples : s.times[i] = 1 <=> g.times[i] = 1 \/ p.times[i] = 1
<1> DEFINE s == [times |-> [i \in Samples |-> g.times[i] + p.times[i]],
                 count |-> g.count + p.count, at |-> p.at]
<1>1. /\ g.times \in [Samples -> {0, 1}] /\ p.times \in [Samples -> {0, 1}]
      /\ g.count \in Nat /\ p.count \in Nat /\ p.at \in Nat
  BY DEF Proper, Grad
<1>2. \A i \in Samples : /\ g.times[i] \in {0, 1} /\ p.times[i] \in {0, 1}
                         /\ g.times[i] = 0 \/ p.times[i] = 0
  BY <1>1
<1>3. \A i \in Samples : g.times[i] + p.times[i] \in {0, 1}
  BY <1>2
<1>4. s \in Grad
  BY <1>1, <1>3 DEF Grad
<1>5. \A i \in Samples : s.times[i] = 1 <=> g.times[i] = 1 \/ p.times[i] = 1
  BY <1>2
<1>6. Part(s) = Part(g) \cup Part(p) /\ Part(g) \cap Part(p) = {}
  BY <1>2, <1>5 DEF Part
<1>7. IsFiniteSet(Part(g)) /\ IsFiniteSet(Part(p))
  BY FiniteSamples, FS_Subset DEF Part
<1>8. Cardinality(Part(s)) = Cardinality(Part(g)) + Cardinality(Part(p))
  <2>1. Cardinality(Part(g) \cap Part(p)) = 0
    BY <1>6, FS_EmptySet
  <2>2. Cardinality(Part(g)) \in Nat /\ Cardinality(Part(p)) \in Nat
    BY <1>7, FS_CardinalityType
  <2>3. Cardinality(Part(g) \cup Part(p))
          = Cardinality(Part(g)) + Cardinality(Part(p))
              - Cardinality(Part(g) \cap Part(p))
    BY <1>7, FS_Union
  <2>4. Cardinality(Part(g) \cup Part(p)) = Cardinality(Part(g)) + Cardinality(Part(p))
    BY <2>1, <2>2, <2>3
  <2>5. QED  BY <1>6, <2>4
<1>9. s.count = Cardinality(Part(s)) /\ s.at = Len(weights)
  BY <1>8 DEF Proper
<1>10. QED  BY <1>4, <1>5, <1>9 DEF Proper

(* A proper gradient that counts every sample is the full one. *)
LEMMA FullOfAll ==
  ASSUME CallType, NEW g, Proper(g), \A i \in Samples : g.times[i] = 1
  PROVE  g = Descent!FullGradient(Len(weights))
<1>1. Part(g) = Samples
  BY DEF Part
<1>2. g.count = call.n
  BY <1>1, FiniteSamples DEF Proper
<1>3. g.times = [i \in Samples |-> 1]
  BY DEF Proper, Grad
<1>4. QED
  BY <1>2, <1>3 DEF Proper, Grad, Descent!FullGradient, Descent!Samples, Samples

----------------------------------------------------------------------------
(* Type correctness.                                                       *)

(* The arguments of the call stay, and with them all that is made of them. *)
LEMMA CallStays ==
  ASSUME [Next]_vars
  PROVE  /\ call' = call /\ Samples' = Samples /\ Tasks' = Tasks /\ Grad' = Grad
         /\ CallType' = CallType
         /\ \A w : Chunk(w)' = Chunk(w) /\ From(w)' = From(w)
<1>1. call' = call
  BY DEF Next, Trainer, Goroutine, Terminated, Alone, Share, Launch, Wait, Sum, Summed,
     NothingToLearn, Update, Return, Compute, WgDone, vars
<1>2. QED  BY <1>1 DEF Samples, Tasks, Grad, CallType, Chunk, To, From

(* A call that was made has its defaults. *)
LEMMA TypesInit == Init => Types
<1> SUFFICES ASSUME Init  PROVE Types
  OBVIOUS
<1>1. CallType
  BY TrainingAssumption DEF Init, CallsMade, CallType
<1>2. NoGradient \in Grad
  BY <1>1 DEF Init, NoGradient, Grad
<1>3. QED  BY <1>1, <1>2 DEF Init, Types

(* The types are kept: a partial sum is one of the samples of its chunk. *)
LEMMA TypesStep == IInv /\ [Next]_vars => Types'
<1> SUFFICES ASSUME IInv, [Next]_vars  PROVE Types'
  OBVIOUS
<1> USE DEF IInv, Types
<1>0. call' = call /\ Tasks' = Tasks /\ Grad' = Grad /\ CallType' = CallType
  BY CallStays
<1>1. CASE Alone
  <2>1. Gradient(Samples, weights) \in Grad
    BY GradientOfAPart
  <2>2. QED  BY <1>0, <1>1, <2>1 DEF Alone, workVars
<1>2. CASE Share
  <2>1. NoGradient \in Grad
    BY DEF NoGradient, Grad
  <2>2. <<>> \in Seq(Grad) /\ total' \in Grad
    BY <1>2, <2>1 DEF Share
  <2>3. task' \in [Tasks -> {"none", "compute", "sent", "exited"}]
    BY <1>2 DEF Share
  <2>4. QED  BY <1>0, <1>2, <2>2, <2>3 DEF Share
<1>3. CASE Launch
  BY <1>0, <1>3 DEF Launch
<1>4. CASE Wait \/ Summed \/ NothingToLearn \/ Return
  BY <1>0, <1>4 DEF Wait, Summed, NothingToLearn, Return, workVars
<1>5. CASE Sum
  <2>1. total' \in Grad
    <3>1. /\ Head(partials) = partials[1] /\ 1 \in 1 .. Len(partials)
      BY <1>5 DEF Sum
    <3>2. /\ Proper(total) /\ Proper(Head(partials))
          /\ \A i \in Samples : total.times[i] = 1 => Head(partials).times[i] = 0
      BY <1>5, <3>1 DEF Sum, Gathered, OnlyOnce
    <3>3. Proper([times |-> [i \in Samples |-> total.times[i] + Head(partials).times[i]],
                  count |-> total.count + Head(partials).count, at |-> Head(partials).at])
      BY <3>2, SumOfGradients
    <3>4. QED  BY <1>0, <1>5, <3>3 DEF Sum, Proper
  <2>2. partials' \in Seq(Grad)
    BY <1>5 DEF Sum
  <2>3. QED  BY <1>0, <1>5, <2>1, <2>2 DEF Sum
<1>6. CASE Update
  <2>1. weights' \in Seq(Grad) /\ epoch' \in Nat /\ history' \in Seq(Nat)
    BY <1>6 DEF Update
  <2>2. QED  BY <1>0, <1>6, <2>1 DEF Update, workVars
<1>7. ASSUME NEW w \in Tasks, Compute(w)  PROVE Types'
  <2>1. Gradient(Chunk(w), snapshot[w]) \in Grad
    BY GradientOfAPart DEF Chunk
  <2>2. partials' \in Seq(Grad)
    BY <1>7, <2>1 DEF Compute
  <2>3. QED  BY <1>0, <1>7, <2>2 DEF Compute
<1>8. ASSUME NEW w \in Tasks, WgDone(w)  PROVE Types'
  <2>1. wg \in Nat \ {0}
    <3>1. IsFiniteSet(Running)
      BY FiniteSamples, FS_Subset DEF Running
    <3>2. w \in Running
      BY <1>8 DEF WgDone, Running
    <3>3. Cardinality(Running) # 0
      BY <3>1, <3>2, FS_EmptySet
    <3>4. QED  BY <3>3 DEF Phases
  <2>2. QED  BY <1>0, <1>8, <2>1 DEF WgDone
<1>9. CASE UNCHANGED vars
  BY <1>0, <1>9 DEF vars
<1>10. QED
  BY <1>1, <1>2, <1>3, <1>4, <1>5, <1>6, <1>7, <1>8, <1>9
     DEF Next, Trainer, Goroutine, Terminated

----------------------------------------------------------------------------
(* The phases of an epoch and the room in the channel.                     *)

(* No goroutine runs outside the phase that waits for them. *)
LEMMA PhasesStep == IInv /\ [Next]_vars => Phases'
<1> SUFFICES ASSUME IInv, [Next]_vars  PROVE Phases'
  OBVIOUS
<1> USE DEF IInv, Types, Phases
<1>0. /\ call' = call /\ Tasks' = Tasks
      /\ IsFiniteSet(Running) /\ Cardinality(Running) \in Nat
  BY CallStays, FiniteSamples, FS_Subset, FS_CardinalityType DEF Running
<1>1. CASE Alone \/ Summed \/ NothingToLearn \/ Update \/ Return \/ Sum \/ UNCHANGED vars
  <2>1. Running' = Running
    BY <1>0, <1>1 DEF Running, Alone, Summed, NothingToLearn, Update, Return, Sum,
       workVars, vars
  <2>2. \A w \in Tasks : task[w] # "compute" \/ UNCHANGED vars
    BY <1>1 DEF Alone, Summed, NothingToLearn, Update, Return, Sum
  <2>3. QED
    BY <1>0, <1>1, <2>1, <2>2 DEF Alone, Summed, NothingToLearn, Update, Return, Sum,
       workVars, vars
<1>2. CASE Share
  <2>1. Running' = {}
    BY <1>0, <1>2 DEF Running, Share
  <2>2. Cardinality(Running') = 0
    BY <2>1, FS_EmptySet
  <2>3. \A w \in Tasks : w >= 0
    BY DEF Tasks, CallType
  <2>4. QED  BY <1>0, <1>2, <2>2, <2>3 DEF Share
<1>3. CASE Launch
  <2>1. turn \in Tasks /\ task[turn] = "none"
    BY <1>3 DEF Launch
  <2>2. Running' = Running \cup {turn} /\ turn \notin Running
    BY <1>0, <1>3, <2>1 DEF Running, Launch
  <2>3. wg' = Cardinality(Running')
    BY <1>0, <1>3, <2>2, FS_AddElement DEF Launch
  <2>4. \A w \in Tasks : task'[w] = "none" <=> w >= turn + 1
    BY <1>3, <2>1 DEF Launch, Tasks, CallType
  <2>5. QED  BY <1>0, <1>3, <2>3, <2>4 DEF Launch
<1>4. CASE Wait
  <2>1. Running = {}
    BY <1>0, <1>4, FS_EmptySet DEF Wait
  <2>2. \A w \in Tasks : task[w] \in {"none", "exited"}
    BY <2>1 DEF Running
  <2>3. Running' = Running
    BY <1>0, <1>4 DEF Wait, workVars, Running
  <2>4. QED  BY <1>0, <1>4, <2>2, <2>3 DEF Wait, workVars
<1>5. ASSUME NEW w \in Tasks, Compute(w)  PROVE Phases'
  <2>1. Running' = Running
    BY <1>0, <1>5 DEF Compute, Running
  <2>2. QED  BY <1>0, <1>5, <2>1 DEF Compute
<1>6. ASSUME NEW w \in Tasks, WgDone(w)  PROVE Phases'
  <2>1. Running' = Running \ {w} /\ w \in Running
    BY <1>0, <1>6 DEF WgDone, Running
  <2>2. wg' = Cardinality(Running')
    BY <1>0, <1>6, <2>1, FS_RemoveElement DEF WgDone
  <2>3. QED  BY <1>0, <1>6, <2>2 DEF WgDone
<1>7. QED
  BY <1>1, <1>2, <1>3, <1>4, <1>5, <1>6 DEF Next, Trainer, Goroutine, Terminated

(* A partial enters the channel as its goroutine becomes one that has sent. *)
LEMMA RoomStep == IInv /\ [Next]_vars => RoomForAll'
<1> SUFFICES ASSUME IInv, [Next]_vars  PROVE RoomForAll'
  OBVIOUS
<1> USE DEF IInv, Types, RoomForAll
<1>0. /\ Tasks' = Tasks /\ Len(partials) \in Nat
      /\ IsFiniteSet(Finished) /\ Cardinality(Finished) \in Nat
  <2>1. Tasks' = Tasks
    BY CallStays
  <2>2. IsFiniteSet(Finished) /\ Cardinality(Finished) \in Nat
    BY FiniteSamples, FS_Subset, FS_CardinalityType DEF Finished
  <2>3. QED  BY <2>1, <2>2
<1>1. CASE Share
  <2>1. Finished' = {}
    BY <1>0, <1>1 DEF Finished, Share
  <2>2. Cardinality(Finished') = 0
    BY <2>1, FS_EmptySet
  <2>3. QED  BY <1>1, <2>2 DEF Share
<1>2. CASE Launch
  <2>1. turn \in Tasks /\ task[turn] = "none"
    BY <1>2 DEF Launch, Phases
  <2>2. Finished' = Finished
    BY <1>0, <1>2, <2>1 DEF Launch, Finished
  <2>3. QED  BY <1>2, <2>2 DEF Launch
<1>3. CASE Sum
  <2>1. Finished' = Finished /\ Len(partials') = Len(partials) - 1
    BY <1>0, <1>3 DEF Sum, Finished
  <2>2. QED  BY <1>0, <1>3, <2>1 DEF Sum
<1>4. ASSUME NEW w \in Tasks, Compute(w)  PROVE RoomForAll'
  <2>1. Finished' = Finished \cup {w} /\ w \notin Finished
    BY <1>0, <1>4 DEF Compute, Finished
  <2>2. Cardinality(Finished') = Cardinality(Finished) + 1
    BY <1>0, <2>1, FS_AddElement
  <2>3. Len(partials') = Len(partials) + 1 /\ pc' = pc
    BY <1>4 DEF Compute
  <2>4. QED  BY <1>0, <2>2, <2>3
<1>5. ASSUME NEW w \in Tasks, WgDone(w)  PROVE RoomForAll'
  <2>1. Finished' = Finished
    BY <1>0, <1>5 DEF WgDone, Finished
  <2>2. QED  BY <1>5, <2>1 DEF WgDone
<1>6. CASE Wait \/ UNCHANGED vars
  <2>1. Finished' = Finished
    BY <1>0, <1>6 DEF Wait, workVars, vars, Finished
  <2>2. QED  BY <1>6, <2>1 DEF Wait, workVars, vars
<1>7. CASE Alone \/ Summed \/ NothingToLearn \/ Update \/ Return
  BY <1>7 DEF Alone, Summed, NothingToLearn, Update, Return
<1>8. QED
  BY <1>1, <1>2, <1>3, <1>4, <1>5, <1>6, <1>7 DEF Next, Trainer, Goroutine, Terminated

----------------------------------------------------------------------------
(* The epochs and their reports.                                           *)

(* The next epoch is listed after the ones before it, if it is reported. *)
LEMMA ReportNext ==
  ASSUME NEW h \in Seq(Nat), NEW k \in Nat, Descent!Reports(h, k)
  PROVE  /\ Descent!Reported(k + 1) => Descent!Reports(Append(h, k + 1), k + 1)
         /\ ~Descent!Reported(k + 1) => Descent!Reports(h, k + 1)
<1>1. 1 .. k + 1 = (1 .. k) \cup {k + 1}
  OBVIOUS
<1>2. CASE ~Descent!Reported(k + 1)
  BY <1>1, <1>2 DEF Descent!Reports
<1>3. CASE Descent!Reported(k + 1)
  <2> DEFINE g == Append(h, k + 1)
  <2>1. /\ Len(h) \in Nat /\ DOMAIN h = 1 .. Len(h) /\ DOMAIN g = 1 .. Len(h) + 1
        /\ \A i \in 1 .. Len(h) : g[i] = h[i]
        /\ g[Len(h) + 1] = k + 1
    OBVIOUS
  <2>2. \A i \in 1 .. Len(h) : h[i] \in 1 .. k
    BY <2>1 DEF Descent!Reports
  <2> HIDE DEF g
  <2>3. {g[i] : i \in DOMAIN g} = {h[i] : i \in DOMAIN h} \cup {k + 1}
    BY <2>1
  <2>4. {g[i] : i \in DOMAIN g} = {e \in 1 .. k + 1 : Descent!Reported(e)}
    BY <1>1, <1>3, <2>3 DEF Descent!Reports
  <2>5. ASSUME NEW i \in DOMAIN g, NEW j \in DOMAIN g, i < j  PROVE g[i] < g[j]
    <3>1. CASE j = Len(h) + 1
      <4>1. i \in 1 .. Len(h)
        BY <2>1, <2>5, <3>1
      <4>2. QED  BY <2>1, <2>2, <3>1, <4>1
    <3>2. CASE j # Len(h) + 1
      <4>1. i \in 1 .. Len(h) /\ j \in 1 .. Len(h)
        BY <2>1, <2>5, <3>2
      <4>2. QED  BY <2>1, <2>5, <4>1 DEF Descent!Reports
    <3>3. QED  BY <3>1, <3>2
  <2>6. Descent!Reports(g, k + 1)
    BY <2>4, <2>5 DEF Descent!Reports
  <2>7. QED  BY <1>3, <2>6 DEF g
<1>4. QED  BY <1>2, <1>3

(* The weights are updated once per epoch, until the last. *)
LEMMA ProgressStep == IInv /\ [Next]_vars => Progress'
<1> SUFFICES ASSUME IInv, [Next]_vars  PROVE Progress'
  OBVIOUS
<1> USE DEF IInv, Types, Progress
<1>0. call' = call /\ Len(weights) \in Nat
  <2>1. call' = call
    BY CallStays
  <2>2. QED  BY <2>1
<1>1. CASE Update
  <2>1. Len(weights') = epoch /\ epoch' = epoch + 1
    BY <1>1 DEF Update
  <2>2. Descent!Reports(history', epoch)
    <3>1. Descent!Reported(epoch) <=> epoch = 1 \/ epoch = call.epochs \/ epoch % 5 = 0
      BY DEF Descent!Reported
    <3>2. QED  BY <1>0, <1>1, <3>1, ReportNext DEF Update
  <2>3. Descent!Reports(history, Len(weights))'
    BY <1>0, <2>1, <2>2 DEF Descent!Reports, Descent!Reported
  <2>4. QED  BY <1>0, <1>1, <2>1, <2>3 DEF Update, CallType
<1>2. ASSUME UNCHANGED <<epoch, weights, history>>,
             pc' \in {"launch", "sum", "update"} => epoch <= call.epochs
      PROVE  Progress'
  BY <1>0, <1>2 DEF Descent!Reports, Descent!Reported
<1>3. QED
  BY <1>1, <1>2 DEF Next, Trainer, Goroutine, Terminated, Alone, Share, Launch, Wait, Sum,
     Summed, NothingToLearn, Return, Compute, WgDone, vars

----------------------------------------------------------------------------
(* The gradient of the epoch.                                              *)

(* The first sum of an epoch is of no sample. *)
LEMMA NothingGathered == IInv /\ [Next]_vars /\ Share => Gathered'
<1> SUFFICES ASSUME IInv, [Next]_vars, Share  PROVE Gathered'
  OBVIOUS
<1>1. /\ Samples' = Samples /\ Tasks' = Tasks /\ Grad' = Grad
      /\ \A w : Chunk(w)' = Chunk(w)
  BY CallStays
<1>2. /\ total' = NoGradient /\ partials' = <<>> /\ weights' = weights /\ pc' = "launch"
      /\ \A w \in Tasks : task'[w] = "none"
  BY DEF Share
<1>3. Len(weights) \in Nat
  BY DEF IInv, Types
<1>4. \A i \in Samples : total'.times[i] = 0
  BY <1>2 DEF NoGradient
<1>5. Proper(total)'
  <2>1. Part(total)' = {}
    BY <1>1, <1>4 DEF Part
  <2>2. Cardinality(Part(total)') = 0
    BY <2>1, FS_EmptySet
  <2>3. total' \in Grad /\ total'.count = 0 /\ total'.at = Len(weights)
    BY <1>2, <1>3 DEF NoGradient, Grad
  <2>4. QED  BY <1>1, <1>2, <2>2, <2>3 DEF Proper
<1>6. \A i \in Samples : ~Somewhere(i)' /\ OnlyOnce(i)'
  BY <1>2, <1>4 DEF Somewhere, OnlyOnce
<1>7. \A w \in Tasks : Chunk(w) \subseteq Samples
  BY DEF Chunk
<1>8. QED  BY <1>1, <1>2, <1>5, <1>6, <1>7 DEF Gathered

(* Adding a partial to the sum takes its samples from the channel to the   *)
(* sum. *)
LEMMA SumGathered == IInv /\ [Next]_vars /\ Sum => Gathered'
<1> SUFFICES ASSUME IInv, [Next]_vars, Sum  PROVE Gathered'
  OBVIOUS
<1> DEFINE p == Head(partials)
<1>1. /\ Samples' = Samples /\ Tasks' = Tasks /\ Grad' = Grad
      /\ \A w : Chunk(w)' = Chunk(w)
  BY CallStays
<1>2. /\ weights' = weights /\ task' = task /\ pc = "sum" /\ pc' = "sum"
  BY DEF Sum
<1>3. /\ Len(partials) \in Nat \ {0} /\ p = partials[1] /\ Len(partials') = Len(partials) - 1
      /\ \A j \in 1 .. Len(partials') : j + 1 \in 1 .. Len(partials)
                                        /\ partials'[j] = partials[j + 1]
  BY DEF Sum, IInv, Types
<1>4. /\ Proper(total) /\ \A j \in 1 .. Len(partials) : Proper(partials[j])
      /\ \A i \in Samples : OnlyOnce(i)
  BY <1>2 DEF IInv, Gathered
<1>5. /\ Proper(p)
      /\ \A i \in Samples : total.times[i] = 1 => p.times[i] = 0
  BY <1>3, <1>4 DEF OnlyOnce
<1>6. /\ Proper(total')
      /\ \A i \in Samples : total'.times[i] = 1 <=> total.times[i] = 1 \/ p.times[i] = 1
  <2> DEFINE s == [times |-> [i \in Samples |-> total.times[i] + p.times[i]],
                   count |-> total.count + p.count, at |-> p.at]
  <2>1. total' = s
    BY DEF Sum
  <2>2. CallType
    BY DEF IInv, Types
  <2> HIDE DEF p
  <2>3. /\ Proper(s)
        /\ \A i \in Samples : s.times[i] = 1 <=> total.times[i] = 1 \/ p.times[i] = 1
    BY <1>4, <1>5, <2>2, SumOfGradients
  <2> HIDE DEF s
  <2>4. QED  BY <2>1, <2>3
<1> HIDE DEF p
<1>7. Proper(total)' /\ \A j \in 1 .. Len(partials') : Proper(partials[j])'
  <2>1. \A j \in 1 .. Len(partials') : Proper(partials'[j])
    BY <1>3, <1>4
  <2>2. QED  BY <1>1, <1>2, <1>6, <2>1 DEF Proper, Part
<1>8. ASSUME NEW i \in Samples  PROVE OnlyOnce(i)' /\ (Somewhere(i)' <=> Somewhere(i))
  <2>1. \A j \in 1 .. Len(partials) : partials[j].times[i] \in {0, 1}
    BY <1>4 DEF Proper, Grad
  <2>2. total'.times[i] = 1 => \A j \in 1 .. Len(partials') : partials'[j].times[i] = 0
    <3>1. SUFFICES ASSUME total'.times[i] = 1, NEW j \in 1 .. Len(partials')
                   PROVE  partials[j + 1].times[i] # 1
      BY <1>3, <2>1
    <3>2. OnlyOnce(i) /\ j + 1 # 1 /\ j + 1 \in 1 .. Len(partials) /\ 1 \in 1 .. Len(partials)
      BY <1>3, <1>4
    <3>3. QED  BY <1>3, <1>6, <3>1, <3>2 DEF OnlyOnce
  <2>3. \A j, k \in 1 .. Len(partials') :
          partials'[j].times[i] = 1 /\ partials'[k].times[i] = 1 => j = k
    <3>1. SUFFICES ASSUME NEW j \in 1 .. Len(partials'), NEW k \in 1 .. Len(partials'),
                          partials'[j].times[i] = 1, partials'[k].times[i] = 1
                   PROVE  j = k
      OBVIOUS
    <3>2. j + 1 = k + 1
      BY <1>3, <1>4, <3>1 DEF OnlyOnce
    <3>3. QED  BY <1>3, <3>2
  <2>4. Somewhere(i) => Somewhere(i)'
    <3>1. CASE total.times[i] = 1 \/ p.times[i] = 1
      BY <1>6, <3>1 DEF Somewhere
    <3>2. ASSUME NEW j \in 1 .. Len(partials), partials[j].times[i] = 1, p.times[i] # 1
          PROVE  Somewhere(i)'
      <4>1. j - 1 \in 1 .. Len(partials') /\ (j - 1) + 1 = j
        BY <1>3, <3>2
      <4>2. partials'[j - 1].times[i] = 1
        BY <1>3, <3>2, <4>1
      <4>3. QED  BY <4>1, <4>2 DEF Somewhere
    <3>3. QED  BY <3>1, <3>2 DEF Somewhere
  <2>5. Somewhere(i)' => Somewhere(i)
    <3>1. 1 \in 1 .. Len(partials)
      BY <1>3
    <3>2. QED  BY <1>3, <1>6, <3>1 DEF Somewhere
  <2>6. QED  BY <2>2, <2>3, <2>4, <2>5 DEF OnlyOnce
<1>9. \A w \in Tasks : Chunk(w) \subseteq Samples
  BY DEF Chunk
<1>10. QED  BY <1>1, <1>2, <1>7, <1>8, <1>9 DEF Gathered, IInv

(* A partial holds the samples of one chunk, which were nowhere before. *)
LEMMA ComputeGathered ==
  ASSUME IInv, [Next]_vars, NEW v \in Tasks, Compute(v)
  PROVE  Gathered'
<1> DEFINE g == Gradient(Chunk(v), weights)
<1>1. /\ Samples' = Samples /\ Tasks' = Tasks /\ Grad' = Grad
      /\ \A w : Chunk(w)' = Chunk(w)
  BY CallStays
<1>2. /\ weights' = weights /\ total' = total /\ pc' = pc /\ pc = "launch"
      /\ snapshot[v] = weights /\ task[v] = "compute" /\ task'[v] = "sent"
      /\ \A w \in Tasks : w # v => task'[w] = task[w]
  BY DEF Compute, IInv, Phases, Types
<1>3. /\ g \in Grad /\ Part(g) = Chunk(v) /\ Proper(g)
      /\ \A i \in Samples : g.times[i] = 1 <=> i \in Chunk(v)
  <2>1. Chunk(v) \in SUBSET Samples /\ CallType /\ weights \in Seq(Grad)
    BY DEF Chunk, IInv, Types
  <2>2. QED  BY <2>1, GradientOfAPart DEF Proper
<1> HIDE DEF g
<1>4. partials' = Append(partials, g) /\ partials \in Seq(Grad)
  BY <1>2 DEF Compute, g, IInv, Types
<1>5. /\ Len(partials) \in Nat /\ Len(partials') = Len(partials) + 1
      /\ partials'[Len(partials) + 1] = g
      /\ \A j \in 1 .. Len(partials) : partials'[j] = partials[j]
  BY <1>3, <1>4
<1>6. /\ Proper(total) /\ \A j \in 1 .. Len(partials) : Proper(partials[j])
      /\ \A i \in Samples : OnlyOnce(i)
      /\ \A w \in Tasks : \A i \in Chunk(w) : Somewhere(i) <=> task[w] \in {"sent", "exited"}
  BY <1>2 DEF IInv, Gathered
<1>7. Proper(total)' /\ \A j \in 1 .. Len(partials') : Proper(partials[j])'
  <2>1. \A j \in 1 .. Len(partials') : Proper(partials'[j])
    BY <1>3, <1>5, <1>6
  <2>2. QED  BY <1>1, <1>2, <1>6, <2>1 DEF Proper, Part
<1>8. ASSUME NEW i \in Samples
      PROVE  OnlyOnce(i)' /\ (Somewhere(i)' <=> Somewhere(i) \/ i \in Chunk(v))
  <2>1. /\ total.times[i] \in {0, 1} /\ g.times[i] \in {0, 1}
        /\ \A j \in 1 .. Len(partials) : partials[j].times[i] \in {0, 1}
    BY <1>3, <1>6 DEF Proper, Grad
  <2>2. i \in Chunk(v) => ~Somewhere(i)
    BY <1>2, <1>6
  <2>3. Somewhere(i)' <=> Somewhere(i) \/ g.times[i] = 1
    BY <1>2, <1>5 DEF Somewhere
  <2>4. g.times[i] = 1 => /\ total.times[i] = 0
                          /\ \A j \in 1 .. Len(partials) : partials[j].times[i] = 0
    BY <1>3, <2>1, <2>2 DEF Somewhere
  <2>5. OnlyOnce(i)
    BY <1>6
  <2>6. OnlyOnce(i)'
    <3>1. \A j \in 1 .. Len(partials') : j = Len(partials) + 1 \/ j \in 1 .. Len(partials)
      BY <1>5
    <3>2. QED  BY <1>2, <1>5, <2>1, <2>4, <2>5, <3>1 DEF OnlyOnce
  <2>7. QED  BY <1>3, <2>3, <2>6
<1>9. ASSUME NEW w \in Tasks, NEW i \in Chunk(w)
      PROVE  Somewhere(i)' <=> task'[w] \in {"sent", "exited"}
  <2>1. i \in Samples
    BY DEF Chunk
  <2>2. CASE w = v
    BY <1>2, <1>8, <2>1, <2>2
  <2>3. CASE w # v
    <3>1. i \notin Chunk(v)
      <4>1. CallType /\ call.n > 0 /\ v \in Nat /\ w \in Nat
        BY <1>2 DEF IInv, Types, Phases, Tasks
      <4>2. QED  BY <2>3, <4>1, ChunksAreDisjoint
    <3>2. QED  BY <1>2, <1>6, <1>8, <2>1, <2>3, <3>1
  <2>4. QED  BY <2>2, <2>3
<1>10. QED  BY <1>1, <1>2, <1>7, <1>8, <1>9 DEF Gathered

(* The other steps move no gradient; the trainer waits until all chunks    *)
(* are in the channel. *)
LEMMA GatheredStep == IInv /\ [Next]_vars => Gathered'
<1> SUFFICES ASSUME IInv, [Next]_vars  PROVE Gathered'
  OBVIOUS
<1>1. /\ Samples' = Samples /\ Tasks' = Tasks /\ Grad' = Grad
      /\ \A w : Chunk(w)' = Chunk(w)
  BY CallStays
<1>2. ASSUME UNCHANGED <<weights, total, partials>>, pc \in {"launch", "sum"},
             pc' = pc \/ (pc' = "sum" /\ \A i \in Samples : Somewhere(i)),
             \A w \in Tasks : task'[w] \in {"sent", "exited"}
                                <=> task[w] \in {"sent", "exited"}
      PROVE  Gathered'
  <2>1. \A g : Proper(g)' <=> Proper(g)
    BY <1>1, <1>2 DEF Proper, Part
  <2>2. Proper(total)' /\ \A j \in 1 .. Len(partials') : Proper(partials[j])'
    BY <1>1, <1>2 DEF Proper, Part, IInv, Gathered
  <2>3. \A i : (OnlyOnce(i)' <=> OnlyOnce(i)) /\ (Somewhere(i)' <=> Somewhere(i))
    BY <1>2 DEF OnlyOnce, Somewhere
  <2>4. QED  BY <1>1, <1>2, <2>2, <2>3 DEF IInv, Gathered
<1>3. CASE Launch
  <2>1. turn \in Tasks /\ task[turn] = "none"
    BY <1>3 DEF Launch, IInv, Types, Phases
  <2>2. \A w \in Tasks : task'[w] \in {"sent", "exited"} <=> task[w] \in {"sent", "exited"}
    BY <1>3, <2>1 DEF Launch, IInv, Types
  <2>3. QED  BY <1>2, <1>3, <2>2 DEF Launch
<1>4. CASE Wait
  <2>1. \A w \in Tasks : task[w] \in {"none", "exited"}
    <3>1. IsFiniteSet(Running)
      BY FiniteSamples, FS_Subset DEF Running, IInv, Types
    <3>2. Running = {}
      BY <1>4, <3>1, FS_EmptySet DEF Wait, IInv, Phases
    <3>3. QED  BY <3>2 DEF Running, IInv, Types
  <2>2. ASSUME NEW i \in Samples  PROVE Somewhere(i)
    <3>1. PICK w \in Tasks : /\ i \in Chunk(w)
                             /\ \A t \in Nat : From(t) >= call.n => w < t
      BY EverySampleHasAChunk DEF IInv, Types
    <3>2. w < turn
      BY <1>4, <3>1 DEF Wait, Tasks, IInv, Types, CallType
    <3>3. task[w] = "exited"
      BY <1>4, <2>1, <3>2 DEF Wait, IInv, Types, Phases, Tasks, CallType
    <3>4. QED  BY <1>4, <3>1, <3>3 DEF Wait, IInv, Gathered
  <2>3. QED  BY <1>2, <1>4, <2>2 DEF Wait, workVars
<1>5. ASSUME NEW w \in Tasks, WgDone(w)  PROVE Gathered'
  <2>1. \A v \in Tasks : task'[v] \in {"sent", "exited"} <=> task[v] \in {"sent", "exited"}
    BY <1>5 DEF WgDone, IInv, Types
  <2>2. CASE pc \in {"launch", "sum"}
    BY <1>2, <1>5, <2>1, <2>2 DEF WgDone
  <2>3. CASE pc \notin {"launch", "sum"}
    BY <1>5, <2>3 DEF WgDone, Gathered
  <2>4. QED  BY <2>2, <2>3
<1>6. CASE UNCHANGED vars
  <2>1. CASE pc \in {"launch", "sum"}
    BY <1>2, <1>6, <2>1 DEF vars
  <2>2. CASE pc \notin {"launch", "sum"}
    BY <1>6, <2>2 DEF vars, Gathered
  <2>3. QED  BY <2>1, <2>2
<1>7. CASE Alone \/ Summed \/ NothingToLearn \/ Update \/ Return
  BY <1>7 DEF Alone, Summed, NothingToLearn, Update, Return, Gathered
<1>8. QED
  BY <1>3, <1>4, <1>5, <1>6, <1>7, NothingGathered, SumGathered, ComputeGathered
     DEF Next, Trainer, Goroutine, Terminated

(* The weights are moved by the gradient of all samples. *)
LEMMA CompleteStep == IInv /\ [Next]_vars => Complete'
<1> SUFFICES ASSUME IInv, [Next]_vars  PROVE Complete'
  OBVIOUS
<1>1. call' = call /\ CallType
  BY CallStays DEF IInv, Types
<1>2. ASSUME weights' = weights, total' = Descent!FullGradient(Len(weights))
      PROVE  Complete'
  BY <1>1, <1>2 DEF Complete, Descent!FullGradient, Descent!Samples
<1>3. CASE Alone
  <2> DEFINE g == Gradient(Samples, weights)
  <2>1. /\ Proper(g) /\ \A i \in Samples : g.times[i] = 1
    <3>1. weights \in Seq(Grad) /\ Samples \in SUBSET Samples
      BY DEF IInv, Types
    <3>2. QED  BY <1>1, <3>1, GradientOfAPart DEF Proper
  <2> HIDE DEF g
  <2>2. g = Descent!FullGradient(Len(weights))
    BY <1>1, <2>1, FullOfAll
  <2>3. QED  BY <1>2, <1>3, <2>2 DEF Alone, g
<1>4. CASE Summed
  <2>1. Proper(total) /\ \A i \in Samples : total.times[i] = 1
    <3>1. pc = "sum" /\ 1 .. Len(partials) = {}
      BY <1>4 DEF Summed
    <3>2. QED  BY <3>1 DEF IInv, Gathered, Somewhere
  <2>2. total = Descent!FullGradient(Len(weights))
    BY <1>1, <2>1, FullOfAll
  <2>3. QED  BY <1>2, <1>4, <2>2 DEF Summed
<1>5. CASE UNCHANGED <<pc, weights, total>>
  BY <1>1, <1>5 DEF IInv, Complete, Descent!FullGradient, Descent!Samples
<1>6. CASE pc' # "update"
  BY <1>6 DEF Complete
<1>7. QED
  BY <1>3, <1>4, <1>5, <1>6 DEF Next, Trainer, Goroutine, Terminated, Share, Launch, Wait,
     Sum, NothingToLearn, Update, Return, Compute, WgDone, vars

----------------------------------------------------------------------------
(* The theorems.                                                           *)

(* The invariant holds in every state. *)
LEMMA TrainingInvariant == Spec => []IInv
<1>1. Init => IInv
  <2> SUFFICES ASSUME Init  PROVE IInv
    OBVIOUS
  <2>1. Types
    BY TypesInit
  <2>2. Phases
    <3>1. Running = {}
      BY DEF Init, Running
    <3>2. Cardinality(Running) = 0
      BY <3>1, FS_EmptySet
    <3>3. QED  BY <3>2 DEF Init, Phases
  <2>3. Progress
    <3>1. Len(<<>>) = 0 /\ DOMAIN <<>> = {} /\ 1 .. 0 = {}
      OBVIOUS
    <3>2. QED  BY <2>1, <3>1 DEF Init, Progress, Descent!Reports, Types, CallType
  <2>4. QED  BY <2>1, <2>2, <2>3 DEF Init, IInv, RoomForAll, Gathered, Complete
<1>2. IInv /\ [Next]_vars => IInv'
  BY TypesStep, PhasesStep, RoomStep, ProgressStep, GatheredStep, CompleteStep DEF IInv
<1>3. QED  BY <1>1, <1>2, PTL DEF Spec

(* A goroutine always finds the channel open, with room for its partial:   *)
(* wg.Wait can come before the channel is read. *)
THEOREM NoDeadlockOnPartials == Spec => []PartialsNeverBlock
<1>1. IInv => PartialsNeverBlock
  <2> SUFFICES ASSUME IInv, NEW w \in Tasks, task[w] = "compute"
               PROVE  ~closed /\ Len(partials) < PartialsCap
    BY DEF PartialsNeverBlock
  <2>1. pc = "launch" /\ ~closed
    BY DEF IInv, Phases
  <2>2. /\ IsFiniteSet(Tasks) /\ Cardinality(Tasks) = call.workers /\ call.workers \in Nat
    BY FiniteSamples DEF IInv, Types, CallType
  <2>3. Finished \subseteq Tasks \ {w}
    BY DEF Finished
  <2>4. /\ IsFiniteSet(Tasks \ {w}) /\ Cardinality(Tasks \ {w}) = call.workers - 1
    BY <2>2, FS_RemoveElement
  <2>5. Cardinality(Finished) <= call.workers - 1 /\ Cardinality(Finished) \in Nat
    BY <2>3, <2>4, FS_Subset, FS_CardinalityType
  <2>6. Len(partials) <= Cardinality(Finished) /\ Len(partials) \in Nat
    BY <2>1 DEF IInv, RoomForAll, Types
  <2>7. QED  BY <2>1, <2>2, <2>5, <2>6 DEF PartialsCap
<1>2. QED  BY <1>1, TrainingInvariant, PTL

(* Every step of the parallel trainer is one of sequential descent, or     *)
(* changes nothing that descent speaks of. *)
LEMMA DescentStep ==
  IInv /\ [Next]_vars
    => [Descent!Next]_<<call, weights, history, pc = "return">>
<1> SUFFICES ASSUME IInv, [Next]_vars
             PROVE  [Descent!Next]_<<call, weights, history, pc = "return">>
  OBVIOUS
<1>1. /\ call' = call /\ call.n \in Nat /\ call.epochs \in Nat \ {0} /\ Len(weights) \in Nat
      /\ epoch = Len(weights) + 1 /\ epoch <= call.epochs + 1
  <2>1. call' = call
    BY CallStays
  <2>2. QED  BY <2>1 DEF IInv, Types, CallType, Progress
<1>2. CASE Update
  <2>1. /\ total = Descent!FullGradient(Len(weights)) /\ epoch <= call.epochs
    BY <1>2 DEF Update, IInv, Complete, Progress
  <2>2. total.count = call.n
    BY <2>1 DEF Descent!FullGradient
  <2>3. Progress'
    BY ProgressStep
  <2>4. Descent!Reports(history', Len(weights) + 1)
    BY <1>1, <1>2, <2>3 DEF Progress, Update, Descent!Reports, Descent!Reported
  <2>5. history' \in Seq(Nat)
    BY TypesStep DEF Types
  <2>6. Descent!Descend
    BY <1>1, <1>2, <2>1, <2>2, <2>4, <2>5 DEF Update, Descent!Descend
  <2>7. QED  BY <2>6 DEF Descent!Next
<1>3. CASE Return
  <2>1. Descent!Finish
    BY <1>1, <1>3 DEF Return, Descent!Finish
  <2>2. QED  BY <2>1 DEF Descent!Next
<1>4. CASE NothingToLearn
  <2>1. call.n = 0
    BY <1>4 DEF NothingToLearn, IInv, Complete, Descent!FullGradient
  <2>2. Descent!Finish
    BY <1>1, <1>4, <2>1 DEF NothingToLearn, Descent!Finish
  <2>3. QED  BY <2>2 DEF Descent!Next
<1>5. ASSUME UNCHANGED <<weights, history>>, pc' = "return" <=> pc = "return"
      PROVE  UNCHANGED <<call, weights, history, pc = "return">>
  BY <1>1, <1>5
<1>6. QED
  BY <1>2, <1>3, <1>4, <1>5 DEF Next, Trainer, Goroutine, Terminated, Alone, Share, Launch,
     Wait, Sum, Summed, Compute, WgDone, vars

(* However many goroutines share the samples, and in whatever order they   *)
(* finish, the training is sequential gradient descent. *)
THEOREM TrainingIsDescent == Spec => ImplementsDescent
<1>1. Init => Descent!Init
  BY DEF Init, Descent!Init
<1>2. QED
  BY <1>1, DescentStep, TrainingInvariant, PTL DEF Spec, ImplementsDescent, Descent!Spec
=============================================================================
