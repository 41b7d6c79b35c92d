------------------------------ MODULE MCLoader ------------------------------
(* Small instances of Loader for TLC. *)
EXTENDS Loader

Num(n)  == [form |-> "number", tenths |-> 10 * n]
Half    == [form |-> "number", tenths |-> 5]
Absent  == [form |-> "absent", tenths |-> 0]

(* Day 0 is Monday 2025-12-29. *)
On(year, day, hour) == [ok |-> TRUE, year |-> year, day |-> day, hour |-> hour]
BadDate == [ok |-> FALSE, year |-> 0, day |-> 0, hour |-> 0]

Rec(date, type, district, area, arrest, domestic) ==
  [readable |-> TRUE, date |-> date, type |-> type, district |-> district,
   area |-> area, arrest |-> arrest, domestic |-> domestic]

(* The five rows of loader_test.go, and some of the rows it leaves out. *)
Robbery  == Rec(On(2026, 3, 10), "ROBBERY", Num(1), Num(1), FALSE, FALSE)
Theft    == Rec(On(2026, 3, 10), "THEFT", Num(1), Num(1), FALSE, FALSE)
Weapon   == Rec(On(2026, 4, 23), "WEAPONS VIOLATION", Num(2), Num(2), TRUE, FALSE)
Old      == Rec(On(2021, -1459, 10), "ROBBERY", Num(1), Num(1), FALSE, FALSE)
Undated  == Rec(BadDate, "ROBBERY", Num(1), Num(1), FALSE, FALSE)
Homicide == Rec(On(2025, 1, 10), "HOMICIDE", Num(1), Num(1), FALSE, TRUE)
Burglary == Rec(On(2026, 3, 10), "BURGLARY", Half, Num(1), TRUE, TRUE)
Untyped  == Rec(On(2026, 3, 10), "", Num(1), Num(1), FALSE, FALSE)
NoArea   == Rec(On(2026, 3, 10), "ROBBERY", Num(1), Absent, FALSE, FALSE)

MCRow == {Robbery, Theft, Weapon, Old, Undated, Homicide, Burglary, Untyped, NoArea}
MCMinYear == 2022

Call(file, maxRows) ==
  [headerOk |-> TRUE, file |-> file, fault |-> FALSE, maxRows |-> maxRows]

TestFile  == <<Robbery, Theft, Weapon, Old, Undated>>
MixedFile == <<Homicide, Unreadable, Untyped, Burglary, Robbery, NoArea>>

(* Enough rows for the reader to fill the channel and block. *)
LongFile == <<Robbery, Old, Old, Old, Theft, Old, Old, Old, Old, Old, Old, Old, Old, Old, Weapon>>

(* Every way to stop: end of file on and off a batch boundary, the row     *)
(* limit, a limit beyond the end, a read fault, an empty file, no header. *)
MCInputs ==
  {Call(TestFile, 0), Call(MixedFile, 0), Call(TestFile, 3), Call(TestFile, 4),
   Call(MixedFile, 9), Call(<<>>, 0), Call(<<>>, 2), Call(LongFile, 0),
   [headerOk |-> TRUE, file |-> <<Robbery, Weapon>>, fault |-> TRUE, maxRows |-> 5],
   [headerOk |-> FALSE, file |-> TestFile, fault |-> FALSE, maxRows |-> 0]}
=============================================================================
