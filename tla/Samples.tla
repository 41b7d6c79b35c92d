------------------------------ MODULE Samples ------------------------------
(***************************************************************************)
(* BuildSamples (internal/ml/features.go): from the weekly counts of the   *)
(* loader to labelled observations, split in train and test by the week    *)
(* that is predicted.                                                      *)
(*                                                                         *)
(* Weeks are consecutive integers.  A slot stands for a weekday and hour   *)
(* (the code goes through 7 * 24 of them), a cell is a week, a zone and a  *)
(* slot.  Of a feature vector only the weeks that it was read from are     *)
(* kept, of the standardizer the observations that it was fitted on.       *)
(* A definition named Bug... is one of the code with a mistake, to show    *)
(* that a property can fail.                                               *)
(***************************************************************************)
EXTENDS Integers, FiniteSets, FiniteSetsExt

CONSTANTS Slot,      \* the hours of a week that are predicted
          YearOf(_), \* the year of the Monday of a week
          Hash(_),   \* stableHash of a cell
          Calls      \* what BuildSamples may be called with

(* A call is [counted, relevant, trainUntil, ratio, before]: the cells     *)
(* with an entry in the aggregates, those with a relevant crime, the       *)
(* parameters.  before is the first week that may not be predicted, or     *)
(* Always.  Later weeks are not of earlier years, those included that only *)
(* follow a week with an entry.                                            *)
Always == -1

ASSUME SamplesAssumption ==
  /\ IsFiniteSet(Slot)
  /\ \A c \in Calls : /\ IsFiniteSet(c.counted) /\ c.relevant \subseteq c.counted
                      /\ \A k \in c.counted : k.week \in Nat /\ YearOf(k.week + 1) \in Int
                      /\ \A k, m \in c.counted :
                           k.week < m.week => YearOf(k.week + 1) <= YearOf(m.week + 1)
                      /\ c.trainUntil \in Int /\ c.ratio \in Int
                      /\ c.before \in Nat \cup {Always}

VARIABLES call, pc,
          info,    \* TargetInfo: [candidate, positive, negative, kept] cells
          train, test,
          fitted   \* what computeStandardizer was given

vars == <<call, pc, info, train, test, fitted>>

(* discoverZonesAndWeeks *)
Zones == {k.zone : k \in call.counted}
Weeks == {k.week : k \in call.counted}

AddWeeks(week, n) == week + n

ValidTarget(week) == call.before = Always \/ week < call.before

(* The last week has no next one to learn from. *)
BaseWeeks == {w \in Weeks : w # Max(Weeks) /\ ValidTarget(AddWeeks(w, 1))}

Candidates == [week : BaseWeeks, zone : Zones, slot : Slot]

NextWeek(k) == [k EXCEPT !.week = AddWeeks(k.week, 1)]

Positive == {k \in Candidates : NextWeek(k) \in call.relevant}

(* The sign of the offset is lost. *)
BugPreviousWeeks(week) == {AddWeeks(week, i) : i \in 0 .. 11} \cap Weeks

(* buildPreviousWeeks: the last 12 weeks, the current one included, as far *)
(* as the data has them. *)
PreviousWeeks(week) == {AddWeeks(week, -i) : i \in 0 .. 11} \cap Weeks

(* The label of the week itself. *)
BugSampleOf(k) == [cell |-> k,
                   target |-> AddWeeks(k.week, 1),
                   label |-> IF k \in call.relevant THEN 1 ELSE 0,
                   reads |-> {k.week} \cup PreviousWeeks(k.week)]

(* rawFeatures and the label of one cell. *)
SampleOf(k) == [cell |-> k,
                target |-> AddWeeks(k.week, 1),
                label |-> IF k \in Positive THEN 1 ELSE 0,
                reads |-> {k.week} \cup PreviousWeeks(k.week)]

CeilDiv(a, b) == (a + b - 1) \div b

(* All negatives, or a share of them that the hash of the cell picks. *)
TargetNegatives == info.positive * call.ratio
KeepAll == \/ call.ratio <= 0
           \/ TargetNegatives <= 0
           \/ TargetNegatives >= info.negative
Kept == {k \in Candidates : \/ k \in Positive
                            \/ KeepAll
                            \/ Hash(k) % CeilDiv(info.negative, TargetNegatives) = 0}

Init == /\ call \in Calls
        /\ pc = "count"
        /\ info = [candidate |-> 0, positive |-> 0, negative |-> 0, kept |-> 0]
        /\ train = {} /\ test = {} /\ fitted = {}

(* No zone, or a single week: nothing to learn. *)
TooLittle == /\ pc = "count"
             /\ Zones = {} \/ Cardinality(Weeks) < 2
             /\ pc' = "done"
             /\ UNCHANGED <<call, info, train, test, fitted>>

(* The first pass. *)
Count == /\ pc = "count"
         /\ Zones # {} /\ Cardinality(Weeks) >= 2
         /\ info' = [info EXCEPT !.candidate = Cardinality(Candidates),
                                 !.positive = Cardinality(Positive),
                                 !.negative = Cardinality(Candidates \ Positive)]
         /\ pc' = "collect"
         /\ UNCHANGED <<call, train, test, fitted>>

(* targetTime.Year() <= trainUntilYear *)
InTrain(s) == YearOf(s.target) <= call.trainUntil

(* The second pass: labels, features, and the split by the target's year. *)
Collect == /\ pc = "collect"
           /\ LET samples == {SampleOf(k) : k \in Kept} IN
                /\ train' = {s \in samples : InTrain(s)}
                /\ test' = {s \in samples : ~InTrain(s)}
           /\ info' = [info EXCEPT !.kept = Cardinality(Kept \ Positive)]
           /\ pc' = "split"
           /\ UNCHANGED <<call, fitted>>

Total == Cardinality(train) + Cardinality(test)

(* trainTooSmall || testEmpty; int(0.20 * n) *)
Unbalanced == Total > 10 /\ (Cardinality(train) < Total \div 5 \/ test = {})

Targets == {s.target : s \in train \cup test}

(* n * (80 / 100) in integers. *)
BugCutIdx(n) == n * (80 \div 100)

(* splitByTargetWeek: int(0.80 * n), at least 1, but below n. *)
CutIdx(n) == LET cut == IF (n * 4) \div 5 < 1 THEN 1 ELSE (n * 4) \div 5
             IN  IF cut >= n THEN n - 1 ELSE cut

(* weeks[cutIdx] of the sorted target weeks. *)
CutWeek == CHOOSE w \in Targets :
             Cardinality({v \in Targets : v < w}) = CutIdx(Cardinality(Targets))

Resplit == /\ pc = "split"
           /\ Unbalanced
           /\ train' = {s \in train \cup test : s.target < CutWeek}
           /\ test' = {s \in train \cup test : s.target >= CutWeek}
           /\ pc' = "fit"
           /\ UNCHANGED <<call, info, fitted>>

KeepSplit == /\ pc = "split"
             /\ ~Unbalanced
             /\ pc' = "fit"
             /\ UNCHANGED <<call, info, train, test, fitted>>

(* The standardizer sees the test observations too. *)
BugStandardize == /\ pc = "fit"
                  /\ fitted' = train \cup test
                  /\ pc' = "done"
                  /\ UNCHANGED <<call, info, train, test>>

(* computeStandardizer(rawTrain), applied to both sets. *)
Standardize == /\ pc = "fit"
               /\ fitted' = train
               /\ pc' = "done"
               /\ UNCHANGED <<call, info, train, test>>

Done == pc = "done" /\ UNCHANGED vars

Next == TooLittle \/ Count \/ Collect \/ Resplit \/ KeepSplit \/ Standardize \/ Done

Spec == Init /\ [][Next]_vars

----------------------------------------------------------------------------
(* Properties.                                                             *)

(* "para evitar fuga temporal": nothing that training looks at, the labels *)
(* and the standardizer included, is as late as the week that a test       *)
(* observation predicts, however the split came about. *)
TrainBeforeTest == \A s \in train \cup fitted, t \in test : s.target < t.target

(* The features of an observation were known before the week it predicts. *)
NoLookahead == \A s \in train \cup test : \A w \in s.reads : w < s.target

(* Whatever was sampled and split again, every positive cell is in one of  *)
(* the two sets, and the sets agree with the counts that are reported. *)
NothingDropped ==
  pc \in {"split", "fit", "done"} =>
    LET samples == train \cup test
        Labelled(l) == Cardinality({s \in samples : s.label = l})
    IN /\ train \cap test = {}
       /\ Labelled(1) = info.positive
       /\ Labelled(0) = info.kept
       /\ info.candidate = info.positive + info.negative
       /\ info.kept <= info.negative
       /\ call.ratio <= 0 => info.kept = info.negative

(* After a new split both sets have observations, unless only one week is  *)
(* predicted: then everything is left for the test. *)
ResplitIsProper ==
  pc = "fit" /\ Total > 10 =>
    \/ train # {} /\ test # {}
    \/ Cardinality(Targets) = 1 /\ train = {}
=============================================================================
