--------------------------- MODULE GradientDescent ---------------------------
(***************************************************************************)
(* What the trainers of internal/ml/train.go promise: plain batch gradient *)
(* descent.  Every update is made of the gradient of every sample, once,   *)
(* at the weights that the update before it left.  No goroutine, chunk or  *)
(* channel appears here.                                                   *)
(*                                                                         *)
(* Weights are what made them: the sequence of the gradients applied so    *)
(* far to the zero vector.  A gradient says how often each sample is in    *)
(* the sum and after how many updates the weights were that it is of.      *)
(***************************************************************************)
EXTENDS Integers, Sequences

VARIABLES call,     \* .n samples, and .epochs > 0
          weights,
          history,  \* the epochs of the reported losses
          trained

Samples == 1 .. call.n

FullGradient(version) == [times |-> [i \in Samples |-> 1], count |-> call.n, at |-> version]

(* The first epoch, the last one and every fifth are reported. *)
Reported(e) == e \in {1, call.epochs} \/ e % 5 = 0

(* h lists the reported ones of the first k epochs in their order. *)
Reports(h, k) == /\ {h[i] : i \in DOMAIN h} = {e \in 1 .. k : Reported(e)}
                 /\ \A i, j \in DOMAIN h : i < j => h[i] < h[j]

Init == weights = <<>> /\ history = <<>> /\ trained = FALSE

Descend == /\ ~trained
           /\ call.n > 0
           /\ Len(weights) < call.epochs
           /\ weights' = Append(weights, FullGradient(Len(weights)))
           /\ history' \in Seq(Nat) /\ Reports(history', Len(weights) + 1)
           /\ UNCHANGED <<call, trained>>

(* Without samples there is nothing to descend: the weights stay zero. *)
Finish == /\ ~trained
          /\ call.n = 0 \/ Len(weights) = call.epochs
          /\ trained' = TRUE
          /\ UNCHANGED <<call, weights, history>>

Next == Descend \/ Finish

Spec == Init /\ [][Next]_<<call, weights, history, trained>>
=============================================================================
