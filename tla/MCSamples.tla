----------------------------- MODULE MCSamples -----------------------------
(* Small instances of Samples for TLC. *)
EXTENDS Samples

(* Weeks 0, 1 and 2 are of 2025. *)
MCYearOf(week) == IF week <= 2 THEN 2025 ELSE 2026
MCHash(k) == 3 * k.week + k.slot

Cell(week, zone, slot) == [week |-> week, zone |-> zone, slot |-> slot]

(* Six weeks, a gap, a short series, two weeks, one week, no data; one     *)
(* zone, a second one that was seen only once, three zones in two weeks. *)
MCWeeks == {0 .. 5, {0, 1, 3, 4}, 1 .. 4, {3, 4}, {2, 3}, {1, 2}, {5}, {}}
Everywhere(weeks) == {Cell(w, "a", s) : w \in weeks, s \in Slot}
Datasets == {Everywhere(weeks) : weeks \in MCWeeks}
            \cup {Everywhere(0 .. 5) \cup {Cell(3, "b", 2)},
                  Everywhere({2, 3}) \cup {Cell(2, "b", 1), Cell(3, "c", 1)}}

RelevantOf(counted) ==
  {counted, {}, {k \in counted : k.slot = 1}, {k \in counted : k.week = 4},
   {k \in counted : k.zone = "b" \/ (k.week + k.slot) % 4 = 0}}

MCCalls == UNION {[counted : {d}, relevant : RelevantOf(d),
                   trainUntil : {2024, 2025, 2026}, ratio : {0, 1, 2},
                   before : {Always, 4, 0}] : d \in Datasets}
=============================================================================
