--------------------------- MODULE FeatureHistory ---------------------------
(***************************************************************************)
(* What a feature vector says of the past weeks: the totals of             *)
(* buildFeatureContext, and the averages, trends and shares that           *)
(* rawFeatures makes of them (internal/ml/features.go), as operators.      *)
(*                                                                         *)
(* A cell is [week, place, slot]: weeks are consecutive integers, a place  *)
(* is [district, area], a slot [dow, hour].  A value has the counts        *)
(* [relevant, minor, total]: the groups within relevant (violent, ...),    *)
(* over windows that relevant has too, are left out, like logarithms and   *)
(* the quotients of two averages.  An average over n weeks is counted in   *)
(* units of 1/24, so that it is an integer for n = 1, 2, 4, 8 and 12.  A   *)
(* definition named Bug... is one of the code with a mistake, to show that *)
(* a property can fail.                                                    *)
(***************************************************************************)
EXTENDS Integers, FiniteSets, Functions

Group == {"relevant", "minor", "total"}
Zero == [g \in Group |-> 0]

(* A map gives the zero value for a key it does not have. *)
ValueAt(map, key) == IF key \in DOMAIN map THEN map[key] ELSE Zero

(* The counts of the last entry stay. *)
BugAddAggregate(a, b) == [a EXCEPT !.total = @ + b.total, !.minor = b.minor,
                                   !.relevant = b.relevant]

AddAggregate(a, b) == [g \in Group |-> a[g] + b[g]]

Own(k)         == k
ZoneKey(k)     == <<"zone", k.week, k.place>>
DistrictKey(k) == <<"district", k.week, k.place.district>>
DowHourKey(k)  == <<"dowhour", k.week, k.slot>>
Keys(k)        == {ZoneKey(k), DistrictKey(k), DowHourKey(k)}

(* One turn of the loop of buildFeatureContext, for entry k with value v. *)
Collected(ctx, k, v) ==
  [key \in DOMAIN ctx \cup Keys(k) |->
     IF key \in Keys(k) THEN AddAggregate(ValueAt(ctx, key), v) ELSE ctx[key]]

(* weekBack: the weeks of the data that are less than n before that of k. *)
WeeksBack(k, n, weeks) == {w \in weeks : w \in k.week - n + 1 .. k.week}

(* The average over the weeks that are there. *)
BugMean(sum, n, weeks) == IF weeks = {} THEN 0 ELSE (24 * sum) \div Cardinality(weeks)

(* total / float64(weeksBack) *)
Mean(sum, n, weeks) == (24 \div n) * sum

(* avgCount and contextCount, of what there was in each of the weeks back. *)
AvgCount(valueIn, back, n, group) ==
  Mean(SumFunction([w \in back |-> valueIn[w][group]]), n, back)

(* The averages of a level, each a group of crimes over so many weeks. *)
OwnAverages   == ({"relevant"} \X {1, 2, 4, 8, 12}) \cup ({"minor"} \X {1, 2, 4, 12})
                   \cup ({"total"} \X {1, 4, 12})
ZoneAverages  == Group \X {1, 4}
WideAverages  == ({"relevant"} \X {1, 4}) \cup {<<"total", 4>>}
TrendAverages == {<<"relevant", 2>>} \cup (Group \X {4})

(* Some of them, over windows that end in the week of k. *)
Averages(valueIn, k, which) ==
  [a \in which |-> AvgCount(valueIn, WeeksBack(k, a[2], DOMAIN valueIn), a[2], a[1])]

(* What rawFeatures takes from the past, and the trends of the last weeks. *)
History(aggregates, ctx, k) ==
  LET weeks == {j.week : j \in DOMAIN aggregates}
      Past(map, Key(_)) == [w \in weeks |-> ValueAt(map, Key([k EXCEPT !.week = w]))]
      own == Averages(Past(aggregates, Own), k, OwnAverages)
  IN [own      |-> own,
      zone     |-> Averages(Past(ctx, ZoneKey), k, ZoneAverages),
      district |-> Averages(Past(ctx, DistrictKey), k, WideAverages),
      dowhour  |-> Averages(Past(ctx, DowHourKey), k, WideAverages),
      trend    |-> [a \in TrendAverages |-> own[a] - own[<<a[1], 12>>]]]

(* A node knows no history: the features stay zero. *)
NoHistory == History(<<>>, <<>>, [week |-> 1])
=============================================================================
