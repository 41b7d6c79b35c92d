---------------------------- MODULE Aggregation ----------------------------
(***************************************************************************)
(* What one row of the crime CSV adds to the books of the loader           *)
(* (internal/crime): its cleaning, its classification and its cell.        *)
(*                                                                         *)
(* A WorkerResult and the final (LoaderStats, Aggregates) pair are both    *)
(* maps from keys to counts in which an absent key counts zero.  They are  *)
(* modelled as ONE function from counters to naturals (a "tally").  A      *)
(* counter is a tuple:                                                     *)
(*   <<"rows", f>>       TotalRows, ValidRows, ...                         *)
(*   <<"year", y>>       Years[y]                                          *)
(*   <<"type", t>>       CrimeTypes[t]                                     *)
(*   <<"cell", k, f>>    Aggregates[k].f                                   *)
(* AggregateKey.Year and .Month are functions of WeekStart and are left    *)
(* out of the cell.  A row is what encoding/csv returned after field       *)
(* lookup: numbers and dates are given by what parsing makes of them.      *)
(***************************************************************************)
EXTENDS Integers

CONSTANTS Row,      \* the readable records the file may hold
          MinYear   \* rows of an earlier year are filtered out

(* reader.Read failed with an error other than io.EOF: the loader appends  *)
(* a nil record.                                                           *)
Unreadable == [readable |-> FALSE]

----------------------------------------------------------------------------
(* A numeric field is "absent", "text" that is no number, or a number      *)
(* given in tenths ("12" is 120, "0.5" is 5).                              *)
Accepted(field) == field.form = "number" /\ field.tenths > 0

(* "0.5" passes the test above, and int(f) makes 0 of it. *)
IntOf(field) == field.tenths \div 10

Parses(row) == /\ row.readable
               /\ row.date.ok
               /\ Accepted(row.district)
               /\ Accepted(row.area)

Severe   == {"HOMICIDE", "CRIMINAL SEXUAL ASSAULT", "SEX OFFENSE",
             "KIDNAPPING", "HUMAN TRAFFICKING"}
Violent  == {"ROBBERY", "ASSAULT", "BATTERY", "INTIMIDATION", "STALKING"}
Weapons  == {"WEAPONS VIOLATION", "CONCEALED CARRY LICENSE VIOLATION"}
Property == {"BURGLARY", "MOTOR VEHICLE THEFT", "ARSON"}

Relevant(type) == type \in Severe \cup Violent \cup Weapons \cup Property

(* A group without its case in the switch. *)
BugClassCounts(type) ==
  IF ~Relevant(type)
  THEN {"OtherCount"}
  ELSE {"RelevantCount"}
       \cup {f \in {"SevereCount"}   : type \in Severe}
       \cup {f \in {"ViolentCount"}  : type \in Violent}
       \cup {f \in {"PropertyCount"} : type \in Property}

(* The fields of AggregateValue that a record of this type bumps besides   *)
(* Count, ArrestCount and DomesticCount.                                   *)
ClassCounts(type) ==
  IF ~Relevant(type)
  THEN {"OtherCount"}
  ELSE {"RelevantCount"}
       \cup {f \in {"SevereCount"}   : type \in Severe}
       \cup {f \in {"ViolentCount"}  : type \in Violent}
       \cup {f \in {"WeaponsCount"}  : type \in Weapons}
       \cup {f \in {"PropertyCount"} : type \in Property}

(* Days are numbered from a Monday, day 0; Sunday is weekday 0. *)
Weekday(day) == (day + 1) % 7
WeekStart(day) == day - ((Weekday(day) + 6) % 7)

CellOf(row) == [week     |-> WeekStart(row.date.day),
                district |-> IntOf(row.district),
                area     |-> IntOf(row.area),
                dow      |-> Weekday(row.date.day),
                hour     |-> row.date.hour]

----------------------------------------------------------------------------
NoType == ""  \* the type of a record whose field is empty

ValueCounts(row) == {"Count"} \cup ClassCounts(row.type)
                    \cup {f \in {"ArrestCount"}   : row.arrest}
                    \cup {f \in {"DomesticCount"} : row.domestic}

ValidIncrements(row) ==
  {<<"rows", "ValidRows">>}
  \cup {c \in {<<"rows", "RelevantRows">>} : Relevant(row.type)}
  \cup {<<"year", y>> : y \in {row.date.year} \ {0}}
  \cup {<<"type", t>> : t \in {row.type} \ {NoType}}
  \cup {<<"cell", CellOf(row), f>> : f \in ValueCounts(row)}

(* The counters one record bumps, each by one. *)
Increments(row) ==
  {<<"rows", "TotalRows">>}
  \cup IF ~Parses(row) THEN {<<"rows", "InvalidRows">>}
       ELSE IF row.date.year < MinYear THEN {<<"rows", "FilteredRows">>}
       ELSE ValidIncrements(row)

Counter == UNION {Increments(row) : row \in Row \cup {Unreadable}}

(* A map read at a key it does not hold yields zero. *)
EmptyTally == [c \in Counter |-> 0]

AddRecord(tally, row) ==
  [c \in Counter |-> IF c \in Increments(row) THEN tally[c] + 1 ELSE tally[c]]

(* finalAgg[key] = value *)
BugMergeTally(stats, partial) ==
  [c \in Counter |-> IF partial[c] > 0 THEN partial[c] ELSE stats[c]]

MergeTally(stats, partial) == [c \in Counter |-> stats[c] + partial[c]]

(* The keys of the Aggregates map. *)
Cells == {CellOf(row) : row \in {r \in Row : Parses(r)}}
=============================================================================
