------------------------------ MODULE Pipeline ------------------------------
(***************************************************************************)
(* The test set on its way from cmd/prepare to the report of cmd/train:    *)
(* saved and loaded as in Prepared, then evaluated as in Metrics.  The two *)
(* programs are not under src/; that the one reads the files of the other  *)
(* and evaluates the matrix is said by README.md and by the comments of    *)
(* internal/ml.                                                            *)
(***************************************************************************)
EXTENDS Integers, Sequences, FiniteSets

CONSTANTS Tables,   \* test sets: sequences of [features, label]
          Weights,  \* trained models
          MaxRows, Cap, Hold, Limits  \* see Prepared

ASSUME PipelineAssumption ==
  /\ MaxRows \in Nat /\ Cap \in Nat \ {0} /\ Hold \in Nat /\ Limits \subseteq Nat
  /\ \A table \in Tables :
       /\ table \in Seq([features : Seq(Int), label : {0, 1}])
       /\ Len(table) <= MaxRows
       /\ \A i, j \in DOMAIN table : Len(table[i].features) = Len(table[j].features)
  /\ Weights \subseteq Seq(Int)

VARIABLES table,
          gz, limit, pc, written, buf, held, disk, sealed, result, loaded, compact,
          samples, weights, phase, next, matrix, tp, tn, fp, fn, positives, scored, auc

file == <<table, gz, limit, pc, written, buf, held, disk, sealed, result, loaded, compact>>
eval == <<samples, weights, phase, next, matrix, tp, tn, fp, fn, positives, scored, auc>>

File == INSTANCE Prepared WITH rows <- Len(table)
Eval == INSTANCE Metrics WITH pc <- phase, compact <- matrix

Init == table \in Tables /\ File!Init /\ Eval!Init

(* cmd/prepare saves, cmd/train loads. *)
Prepare == UNCHANGED <<table, eval>> /\ File!Next

(* A last number that lost digits is another number: 0, of "0.5". *)
Sample(row) ==
  LET sample == table[row.row]
  IN IF row.cut # "value" THEN sample
     ELSE [sample EXCEPT !.features = [@ EXCEPT ![Len(@)] = 0]]

(* cmd/train evaluates the matrix if it was loaded. *)
Evaluate == /\ pc = "loaded" /\ compact # File!Error /\ phase = "idle"
            /\ \E w \in Weights : Eval!Start([i \in DOMAIN compact |-> Sample(compact[i])], w)
            /\ UNCHANGED file

Report == Eval!Next /\ UNCHANGED file

Done == /\ pc = "loaded" /\ (phase = "done" \/ compact = File!Error)
        /\ UNCHANGED <<file, eval>>

Next == Prepare \/ Evaluate \/ Report \/ Done

Spec == Init /\ [][Next]_<<file, eval>>

----------------------------------------------------------------------------
(* Properties.                                                             *)

(* See Prepared: the save, its file, and the two loaders. *)
LosesOnlyBuffers   == File!LosesOnlyBuffers
LoadedIsPrefix     == File!LoadedIsPrefix

(* See Metrics: the two evaluations, and the area under the curve. *)
EvaluatorsAgree    == Eval!EvaluatorsAgree
AucIsAShareOfPairs == Eval!AucIsAShareOfPairs

(* A report counts each prepared sample once: of a compressed file all of  *)
(* them, up to the limit, and of another the first ones, with their labels *)
(* even where a number was cut.  A disk that was full or a cmd/prepare     *)
(* that was killed never shows as a report of fewer compressed samples. *)
ReportsWhatWasPrepared ==
  phase = "done" /\ tp + tn + fp + fn > 0 =>
    LET n == tp + tn + fp + fn IN
    /\ tp + fn = Cardinality({i \in 1 .. n : table[i].label = 1})
    /\ n = IF gz THEN IF limit \in 1..Len(table) THEN limit ELSE Len(table)
           ELSE Len(compact)
=============================================================================
