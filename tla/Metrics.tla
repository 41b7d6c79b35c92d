------------------------------ MODULE Metrics ------------------------------
(***************************************************************************)
(* Evaluate, EvaluateCompact and aucApprox (internal/ml/metrics.go) over a *)
(* test set.                                                               *)
(*                                                                         *)
(* Weights and features are integers.  In place of the probability of a    *)
(* sample stands its logit z: the sigmoid rises with it and reaches 1/2 at *)
(* 0.  sort.Slice is not stable: samples of one score end in any order.    *)
(* Log loss and rounding are left out; fractions are kept as numerator and *)
(* denominator.  A definition named Bug... is one of the code with a       *)
(* mistake, to show that a property can fail.                              *)
(***************************************************************************)
EXTENDS Integers, FiniteSets, SequencesExt

VARIABLES samples,       \* the test set: [features, label], with label 0 or 1
          weights,       \* the model: the first weight is the bias
          pc, next,      \* the loop over the samples
          compact,       \* the same set as CompactDataset: X row by row, Y
          tp, tn, fp, fn, positives,
          scored,        \* [score, label], in the end sorted
          auc            \* <<numerator, denominator>>

vars == <<samples, weights, pc, next, compact, tp, tn, fp, fn, positives, scored, auc>>

P == IF samples = <<>> THEN 0 ELSE Len(samples[1].features)

(* An evaluation of the set s begins. *)
Start(s, model) ==
  /\ samples' = s /\ weights' = model
  /\ pc' = "score" /\ next' = 1
  /\ compact' = [X |-> FlattenSeq([i \in DOMAIN s |-> s[i].features]),
                 Y |-> [i \in DOMAIN s |-> s[i].label]]
  /\ tp' = 0 /\ tn' = 0 /\ fp' = 0 /\ fn' = 0 /\ positives' = 0
  /\ scored' = <<>> /\ auc' = <<0, 1>>

Init == /\ samples = <<>> /\ weights = <<>> /\ pc = "idle" /\ next = 1
        /\ compact = [X |-> <<>>, Y |-> <<>>]
        /\ tp = 0 /\ tn = 0 /\ fp = 0 /\ fn = 0 /\ positives = 0
        /\ scored = <<>> /\ auc = <<0, 1>>

----------------------------------------------------------------------------
(* PredictProbability: the bias, and a weight for each feature that has one. *)
Logit(x) ==
  LET z[j \in 0 .. Len(x)] ==
        IF j = 0 THEN IF weights = <<>> THEN 0 ELSE weights[1]
        ELSE z[j - 1] + IF j + 1 <= Len(weights) THEN weights[j + 1] * x[j] ELSE 0
  IN  z[Len(x)]

(* Its call for sample i. *)
PredictProbability(i) == Logit(samples[i].features)

(* The rows of X are taken to be columns. *)
BugBase(i, j) == (j - 1) * Len(samples) + i

(* base + j, of row i *)
Base(i, j) == (i - 1) * P + j

(* The loop of EvaluateCompact over the columns of row i. *)
CompactProbability(i) ==
  LET z[j \in 0 .. P] ==
        IF j = 0 THEN IF weights = <<>> THEN 0 ELSE weights[1]
        ELSE z[j - 1] + IF j + 1 <= Len(weights)
                        THEN weights[j + 1] * compact.X[Base(i, j)] ELSE 0
  IN  z[P]

(* Metrics{} *)
Nothing == /\ pc = "score" /\ P = 0 /\ pc' = "done"
           /\ UNCHANGED <<samples, weights, next, compact, tp, tn, fp, fn, positives,
                          scored, auc>>

(* One turn of EvaluateCompact. *)
Score == /\ pc = "score" /\ next <= Len(samples) /\ P > 0
         /\ LET z == CompactProbability(next)
                y == compact.Y[next]
                One(cond) == IF cond THEN 1 ELSE 0
            IN /\ tp' = tp + One(z >= 0 /\ y = 1) /\ tn' = tn + One(z < 0 /\ y = 0)
               /\ fp' = fp + One(z >= 0 /\ y = 0) /\ fn' = fn + One(z < 0 /\ y = 1)
               /\ positives' = positives + One(y = 1)
               /\ scored' = Append(scored, [score |-> z, label |-> y])
         /\ next' = next + 1
         /\ UNCHANGED <<samples, weights, pc, compact, auc>>

(* sort.Slice by score *)
Sort == /\ pc = "score" /\ next > Len(samples) /\ P > 0
        /\ \E p \in Bijection(DOMAIN samples, DOMAIN samples) :
             /\ scored' = [i \in DOMAIN samples |-> scored[p[i]]]
             /\ \A i \in 2..Len(samples) : scored'[i - 1].score <= scored'[i].score
        /\ pc' = "rank"
        /\ UNCHANGED <<samples, weights, next, compact, tp, tn, fp, fn, positives, auc>>

(* The rank counts from 0. *)
BugRank(i) == i - 1

Rank(i) == i

Positives(s) == Cardinality({i \in DOMAIN s : s[i].label = 1})

(* The ranks of the positive samples. *)
Ranks(s) ==
  LET sum[i \in 0 .. Len(s)] ==
        IF i = 0 THEN 0 ELSE sum[i - 1] + IF s[i].label = 1 THEN Rank(i) ELSE 0
  IN  sum[Len(s)]

(* aucApprox, and 0 for a single class. *)
RankSum == /\ pc = "rank" /\ pc' = "done"
           /\ LET pos == Positives(scored)
                  neg == Len(scored) - pos
              IN auc' = IF pos = 0 \/ neg = 0 THEN <<0, 1>>
                        ELSE <<Ranks(scored) - (pos * (pos + 1)) \div 2, pos * neg>>
           /\ UNCHANGED <<samples, weights, next, compact, tp, tn, fp, fn, positives, scored>>

Next == Nothing \/ Score \/ Sort \/ RankSum

----------------------------------------------------------------------------
(* Properties.                                                             *)

Labelled(y) == {i \in DOMAIN samples : samples[i].label = y}
Flagged == {i \in DOMAIN samples : PredictProbability(i) >= 0}

(* The evaluation of the matrix, which cmd/train reports, agrees with that *)
(* of the samples it was made from, sample by sample, also when the model  *)
(* has more or fewer weights than there are features. *)
EvaluatorsAgree ==
  pc = "done" /\ P > 0 =>
    /\ tp = Cardinality(Labelled(1) \cap Flagged) /\ fn = Cardinality(Labelled(1) \ Flagged)
    /\ fp = Cardinality(Labelled(0) \cap Flagged) /\ tn = Cardinality(Labelled(0) \ Flagged)
    /\ positives = tp + fn

Pairs(Won(_, _)) ==
  Cardinality({p \in Labelled(1) \X Labelled(0) :
                 Won(PredictProbability(p[1]), PredictProbability(p[2]))})

(* The area under the curve is the share of pairs of a positive and a      *)
(* negative sample that the scores order rightly; a tie may count as right *)
(* or wrong, as the sort happens to leave it, and nothing else may. *)
AucIsAShareOfPairs ==
  pc = "done" /\ P > 0 /\ Labelled(0) # {} /\ Labelled(1) # {} =>
    /\ auc[2] = Cardinality(Labelled(1)) * Cardinality(Labelled(0))
    /\ auc[1] \in Pairs(LAMBDA a, b : a > b) .. Pairs(LAMBDA a, b : a >= b)
=============================================================================
