----------------------------- MODULE MCFeatures -----------------------------
(* A small instance of Features for TLC. *)
EXTENDS Features, TLC

Week(given, month, monday, number) ==
  [given |-> given, month |-> month, monday |-> monday, number |-> number]

(* A Monday, the first days of a month in the last week of another, no     *)
(* date in January, no date in June. *)
MCWeeks == {Week(TRUE, 6, 6, 3), Week(TRUE, 6, 5, 3), Week(FALSE, 1, 1, 3),
            Week(FALSE, 6, 6, 3)}

Ask(features, district, area, dow, hour, week) ==
  [features |-> features, district |-> district, area |-> area, dow |-> dow,
   hour |-> hour, week |-> week]

(* Every hour of the week, and zones inside and outside the one-hot groups. *)
MCQueries ==
  {Ask("none", z, 1, dow, hour, w) :
     z \in {1, 3}, dow \in 0 .. 6, hour \in 0 .. 23, w \in MCWeeks}
  \cup {Ask(f, d, a, dow, hour, w) :
          f \in {"none", "fits", "misfits"}, d \in {0, 1}, a \in {0, 1},
          dow \in {-1, 7}, hour \in {-1, 24}, w \in {Week(TRUE, 6, 6, 3)}}

Value(r, m) == [relevant |-> r, minor |-> m, total |-> r + m]
Grid(places, weeks, slots) == [week : weeks, place : places, slot : slots]
Place(d, a) == [district |-> d, area |-> a]
Noon == [dow |-> 1, hour |-> 12]
Night == [dow |-> 5, hour |-> 2]

(* The zones of these queries in the next week, and in theirs another one  *)
(* at an hour that some of them ask about. *)
Outskirts == (Grid({Place(9, 9)}, {3}, {Noon}) \cup Grid({Place(1, 1), Place(3, 1)}, {4}, {Noon}))
Background == [k \in Outskirts |-> Value(1, 1)]

(* All maps with up to three entries of a small grid with a gap between    *)
(* its two weeks, and the week after them. *)
SomeMaps ==
  LET next == [k \in Grid({Place(2, 3)}, {4}, {Noon}) |-> Value(1, 0)]
  IN {next @@ m : m \in
        UNION {[S -> {Value(1, 0), Value(1, 2)}] :
                 S \in {T \in SUBSET (Grid({Place(1, 1), Place(1, 2), Place(2, 3)}, {1, 3}, {Noon})
                                       \cup Grid({Place(1, 1)}, {3}, {Night})) :
                          Cardinality(T) \in 1..3}}}
SomeCells == {Ask("none", p.district, p.area, s.dow, s.hour, Week(TRUE, 6, 6, w)) :
                p \in {Place(1, 1), Place(2, 3)}, s \in {Noon, Night}, w \in {1, 3}}

(* One crime, of a cell, of its zone, its district, its slot or none of    *)
(* these, in each of the 14 weeks until the one that is asked about. *)
LoneCell  == Ask("none", 1, 1, 1, 12, Week(TRUE, 6, 6, 14))
LoneFrame == [k \in Grid({Place(9, 9)}, {14}, {Night}) \cup Grid({Place(1, 1)}, {15}, {Noon})
                |-> Value(0, 1)]
LoneCrimes ==
  {LoneFrame @@ [k \in {e} |-> v] :
     e \in Grid({Place(1, 1), Place(1, 2), Place(2, 3)}, 1..14,
                {Noon, [dow |-> 2, hour |-> 7]}),
     v \in {Value(1, 0), Value(0, 1)}}

(* A series that does not change, but for a group that never occurs. *)
Unchanged == {[k \in Grid({Place(1, 1)}, 1..13, {Noon}) |-> v] : v \in {Value(1, 2), Value(0, 1)}}

Pairs(queries, maps) == [query : queries, aggregates : maps]
MCInputs ==
  Pairs(MCQueries, {<<>>, Background}) \cup Pairs(SomeCells, SomeMaps)
  \cup Pairs({LoneCell}, LoneCrimes)
  \cup Pairs({Ask("none", 1, 1, 1, 12, Week(TRUE, 6, 6, w)) : w \in {3, 11, 12}}, Unchanged)
=============================================================================
