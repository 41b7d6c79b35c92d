------------------------------ MODULE Training ------------------------------
(***************************************************************************)
(* TrainLogisticRegression(Compact)WithFeatures (internal/ml/train.go):    *)
(* in every epoch the samples are cut in chunks, one goroutine per chunk   *)
(* computes a partial gradient at its own copy of the weights, and after   *)
(* wg.Wait the partials are summed and the weights moved.  The two         *)
(* trainers differ in how a sample is stored and are one model.            *)
(*                                                                         *)
(* The arithmetic is uninterpreted (see GradientDescent): weights are the  *)
(* sequence of the gradients applied, a gradient counts its samples.  That *)
(* forgets rounding, that is the order in which a sum of floats is taken.  *)
(* A definition named Bug... is one of the code with a mistake, to show    *)
(* that a property can fail.                                               *)
(***************************************************************************)
EXTENDS Integers, Sequences, FiniteSets, SequencesExt

CONSTANTS Calls,   \* [n |-> samples, workers |-> , epochs |-> ] as passed
          NumCPU

ASSUME TrainingAssumption ==
  /\ \A c \in Calls : c.n \in Nat /\ c.workers \in Int /\ c.epochs \in Int
  /\ NumCPU \in Nat \ {0}

VARIABLES call,      \* the arguments, the defaults filled in
          pc,        \* where the trainer is
          epoch,
          weights,
          history,
          turn,      \* the loop variable w of computeGradientForWorkers
          task,      \* where the goroutine of each chunk is
          snapshot,  \* its copy of the weights
          partials,  \* the channel
          closed,
          wg,
          total      \* the sum of the partials so far

workVars == <<task, snapshot, partials, wg>>
vars == <<call, pc, epoch, weights, history, turn, task, snapshot, partials,
          closed, wg, total>>

Samples == 1 .. call.n
Tasks == 0 .. call.workers - 1

CallsMade == {[n |-> c.n,
               workers |-> IF c.workers <= 0 THEN NumCPU ELSE c.workers,
               epochs |-> IF c.epochs <= 0 THEN 50 ELSE c.epochs] : c \in Calls}

(* The quotient is not rounded up. *)
BugChunkSize(n, workers) == IF n < workers THEN 1 ELSE n \div workers

(* math.Ceil(n / workers), at least 1 *)
ChunkSize(n, workers) == IF n = 0 THEN 1 ELSE (n + workers - 1) \div workers

From(w) == w * ChunkSize(call.n, call.workers)
To(w) == IF From(w + 1) > call.n THEN call.n ELSE From(w + 1)
Chunk(w) == {i \in Samples : From(w) < i /\ i <= To(w)}

NoGradient == [times |-> [i \in Samples |-> 0], count |-> 0, at |-> Len(weights)]

(* computeGradient(CompactRange): a part of the samples, at some weights. *)
Gradient(part, w) == [times |-> [i \in Samples |-> IF i \in part THEN 1 ELSE 0],
                      count |-> Cardinality(part),
                      at |-> Len(w)]

Init == /\ call \in CallsMade
        /\ pc = "epoch"
        /\ epoch = 1
        /\ weights = <<>>
        /\ history = <<>>
        /\ turn = 0
        /\ task = [w \in Tasks |-> "none"]
        /\ snapshot = [w \in Tasks |-> <<>>]
        /\ partials = <<>>
        /\ closed = TRUE
        /\ wg = 0
        /\ total = NoGradient

----------------------------------------------------------------------------
(* The trainer.                                                            *)

(* epoch <= epochs, one worker or no sample: no goroutine. *)
Alone == /\ pc = "epoch"
         /\ epoch <= call.epochs
         /\ call.workers <= 1 \/ call.n = 0
         /\ total' = Gradient(Samples, weights)
         /\ pc' = "update"
         /\ UNCHANGED <<call, epoch, weights, history, turn, workVars, closed>>

(* A new channel, a new WaitGroup, a zero gradient. *)
Share == /\ pc = "epoch"
         /\ epoch <= call.epochs
         /\ call.workers > 1 /\ call.n > 0
         /\ total' = NoGradient
         /\ turn' = 0
         /\ task' = [w \in Tasks |-> "none"]
         /\ partials' = <<>>
         /\ closed' = FALSE
         /\ wg' = 0
         /\ pc' = "launch"
         /\ UNCHANGED <<call, epoch, weights, history, snapshot>>

(* One turn of the loop; the goroutines launched before already run. *)
Launch == /\ pc = "launch"
          /\ turn \in Tasks /\ From(turn) < call.n
          /\ wg' = wg + 1
          /\ task' = [task EXCEPT ![turn] = "compute"]
          /\ snapshot' = [snapshot EXCEPT ![turn] = weights]
          /\ turn' = turn + 1
          /\ UNCHANGED <<call, pc, epoch, weights, history, partials, closed, total>>

(* The samples ran out, or every worker has its chunk; wg.Wait, close. *)
Wait == /\ pc = "launch"
        /\ turn \notin Tasks \/ From(turn) >= call.n
        /\ wg = 0
        /\ closed' = TRUE
        /\ pc' = "sum"
        /\ UNCHANGED <<call, epoch, weights, history, turn, workVars, total>>

(* One turn of "for p := range partials". *)
Sum == /\ pc = "sum"
       /\ partials # <<>>
       /\ LET p == Head(partials) IN
            total' = [times |-> [i \in Samples |-> total.times[i] + p.times[i]],
                      count |-> total.count + p.count,
                      at |-> p.at]
       /\ partials' = Tail(partials)
       /\ UNCHANGED <<call, pc, epoch, weights, history, turn, task, snapshot, closed, wg>>

(* The loop keeps waiting on a channel that nobody closed. *)
BugSummed == pc = "sum" /\ partials = <<>> /\ UNCHANGED vars

Summed == /\ pc = "sum"
          /\ partials = <<>> /\ closed
          /\ pc' = "update"
          /\ UNCHANGED <<call, epoch, weights, history, turn, workVars, closed, total>>

(* if totalCount == 0 { break } *)
NothingToLearn == /\ pc = "update"
                  /\ total.count = 0
                  /\ pc' = "return"
                  /\ UNCHANGED <<call, epoch, weights, history, turn, workVars, closed, total>>

(* The weights move, and the loss of some epochs is kept. *)
Update == /\ pc = "update"
          /\ total.count > 0
          /\ weights' = Append(weights, total)
          /\ history' = IF epoch = 1 \/ epoch = call.epochs \/ epoch % 5 = 0
                        THEN Append(history, epoch) ELSE history
          /\ epoch' = epoch + 1
          /\ pc' = "epoch"
          /\ UNCHANGED <<call, turn, workVars, closed, total>>

Return == /\ pc = "epoch"
          /\ epoch > call.epochs
          /\ pc' = "return"
          /\ UNCHANGED <<call, epoch, weights, history, turn, workVars, closed, total>>

Trainer == \/ Alone \/ Share \/ Launch \/ Wait \/ Sum \/ Summed
           \/ NothingToLearn \/ Update \/ Return

----------------------------------------------------------------------------
(* The goroutine of chunk w.                                               *)

BugPartialsCap == call.workers - 1

(* make(chan trainPartial, workers) *)
PartialsCap == call.workers

(* partials <- computeGradient(part, weightsSnapshot) *)
Compute(w) == /\ task[w] = "compute"
              /\ Len(partials) < PartialsCap
              /\ partials' = Append(partials, Gradient(Chunk(w), snapshot[w]))
              /\ task' = [task EXCEPT ![w] = "sent"]
              /\ UNCHANGED <<call, pc, epoch, weights, history, turn, snapshot, closed, wg, total>>

WgDone(w) == /\ task[w] = "sent"
             /\ task' = [task EXCEPT ![w] = "exited"]
             /\ wg' = wg - 1
             /\ UNCHANGED <<call, pc, epoch, weights, history, turn, snapshot,
                            partials, closed, total>>

Goroutine(w) == Compute(w) \/ WgDone(w)

Terminated == pc = "return" /\ UNCHANGED vars

Next == Trainer \/ (\E w \in Tasks : Goroutine(w)) \/ Terminated

Spec == Init /\ [][Next]_vars

MaxWorkers == Max({c.workers : c \in CallsMade})

(* The Go scheduler runs every goroutine that can run. *)
FairSpec == Spec /\ WF_vars(Trainer)
                 /\ \A w \in 0 .. MaxWorkers - 1 : WF_vars(w \in Tasks /\ Goroutine(w))

----------------------------------------------------------------------------
(* Properties.                                                             *)

(* The channel is read after wg.Wait only: every goroutine that still has  *)
(* its partial to send finds room for it, and an open channel. *)
PartialsNeverBlock == \A w \in Tasks : task[w] = "compute" =>
                                         ~closed /\ Len(partials) < PartialsCap

(* "Workers=1 y workers>1 recorren la misma estructura; solo cambia la     *)
(* division del calculo": however many workers, every update is the one of *)
(* sequential gradient descent, each sample once, at the current weights. *)
Descent == INSTANCE GradientDescent WITH trained <- pc = "return"
ImplementsDescent == Descent!Spec

(* The training ends. *)
Termination == <>(pc = "return")
=============================================================================
