------------------------------ MODULE Prepared ------------------------------
(***************************************************************************)
(* A table on its way through a file: SavePreparedObservationsCSV, its two *)
(* loaders (internal/ml/prepared.go), and the other writers of CSV files,  *)
(* which work alike (internal/ml/export.go, internal/crime/export.go).     *)
(*                                                                         *)
(* Row 0 is the header.  A row is two pieces, and the csv.Writer hands a   *)
(* buffer of Cap pieces at a time to the file, so that a file may end in   *)
(* the middle of a row.  In front of a .gz file gzip takes the buffer and  *)
(* writes what it likes: it compresses a block at a time (BestSpeed), and  *)
(* up to Hold pieces wait in it for the rest of their block.  The disk may *)
(* fail, with part of the data written, and the process may be killed.     *)
(* csv, bufio and gzip are the standard library's and external; an error   *)
(* of bufio sticks.  A definition named Bug... is one of the code with a   *)
(* mistake, to show that a property can fail.                              *)
(***************************************************************************)
EXTENDS Integers, Sequences

CONSTANTS MaxRows,  \* bound on the observations
          Cap,      \* pieces in the buffer of csv.Writer
          Hold,     \* pieces that gzip.Writer keeps back at most
          Limits    \* maxRows of the compact loader, 0 for none

VARIABLES rows, gz, limit,  \* the number of samples; the suffix; maxRows
          pc, written,      \* the save, and the pieces it has formatted
          buf, held, disk,  \* in csv.Writer, in gzip.Writer, in the file
          sealed,           \* the footer of gzip is written
          result,           \* of the save: nil or an error
          loaded, compact   \* of the two loaders

vars == <<rows, gz, limit, pc, written, buf, held, disk, sealed, result, loaded, compact>>

Error == <<[error |-> TRUE]>>
Total == 2 * (rows + 1)  \* piece n is half of row (n - 1) \div 2

Init == /\ rows \in 0..MaxRows /\ gz \in BOOLEAN /\ limit \in Limits
        /\ pc = "create" /\ written = 0 /\ buf = <<>> /\ held = <<>> /\ disk = <<>>
        /\ sealed = FALSE /\ result = "none" /\ loaded = <<>> /\ compact = <<>>

----------------------------------------------------------------------------
Input == <<rows, gz, limit>>
Loads == <<loaded, compact>>

(* newPreparedCSVWriter *)
Create == /\ pc = "create"
          /\ \/ pc' = "write" /\ UNCHANGED result
             \/ pc' = "returned" /\ result' = "error"
          /\ UNCHANGED <<Input, written, buf, held, disk, sealed, Loads>>

(* w.Write: there is room in the buffer. *)
Write == /\ pc = "write" /\ written < Total /\ Len(buf) < Cap
         /\ written' = written + 1 /\ buf' = Append(buf, written + 1)
         /\ UNCHANGED <<Input, pc, held, disk, sealed, result, Loads>>

(* What is on its way goes to the disk, but for what gzip keeps back. *)
Pending == held \o buf
Kept    == IF gz THEN Hold ELSE 0
Passed  == \E n \in 0 .. Len(Pending) :
             /\ Len(Pending) - n <= Kept
             /\ disk' = disk \o SubSeq(Pending, 1, n)
             /\ held' = SubSeq(Pending, n + 1, Len(Pending))

(* A part of it is written before an error, and the rest is lost. *)
Broken == \E n \in 0 .. Len(Pending) - 1 :
            disk' = disk \o SubSeq(Pending, 1, n) /\ held' = <<>>

(* The error of a full buffer is not looked at. *)
BugSpill == /\ pc = "write" /\ written < Total /\ Len(buf) = Cap
            /\ Passed \/ Broken
            /\ buf' = <<>>
            /\ UNCHANGED <<Input, pc, written, sealed, result, Loads>>

(* w.Write: the buffer is full, and an error ends the save. *)
Spill == /\ pc = "write" /\ written < Total /\ Len(buf) = Cap
         /\ buf' = <<>>
         /\ \/ Passed /\ UNCHANGED <<pc, result>>
            \/ Broken /\ pc' = "close" /\ result' = "error"
         /\ UNCHANGED <<Input, written, sealed, Loads>>

(* return w.Error(), before the deferred calls. *)
LastRow == /\ pc = "write" /\ written = Total
           /\ pc' = "close" /\ result' = "nil"
           /\ UNCHANGED <<Input, written, buf, held, disk, sealed, Loads>>

(* gzip is closed although a write failed. *)
BugClose == /\ pc = "close" /\ pc' = "returned" /\ buf' = <<>> /\ held' = <<>>
            /\ (result = "nil" /\ disk' = disk \o Pending) \/ UNCHANGED disk
            /\ sealed' = gz
            /\ UNCHANGED <<Input, written, result, Loads>>

(* The deferred closeFn: flush, close gzip, close the file.  Each may      *)
(* fail, its error is dropped, and what was on its way is then lost but    *)
(* for a part; after a write error gzip is left open. *)
Close == /\ pc = "close" /\ pc' = "returned" /\ buf' = <<>>
         /\ \/ /\ result = "nil" /\ disk' = disk \o Pending /\ held' = <<>>
               /\ sealed' \in {FALSE, gz}
            \/ result = "nil" /\ Broken /\ UNCHANGED sealed
            \/ result = "error" /\ held' = <<>> /\ UNCHANGED <<disk, sealed>>
         /\ UNCHANGED <<Input, written, result, Loads>>

(* The process ends at any moment. *)
Kill == /\ pc \in {"create", "write", "close"} /\ pc' = "killed"
        /\ result' = "none"
        /\ UNCHANGED <<Input, written, buf, held, disk, sealed, Loads>>

----------------------------------------------------------------------------
(* The loaders read whole rows and, of a file that ends within one, a last *)
(* row that is cut: before the features, between two of them, right after  *)
(* a comma, or within the digits of the last one. *)
Cuts == {"meta", "short", "bad", "value"}
Row(i, cut) == [row |-> i, cut |-> cut]
Whole(file) == [i \in 1 .. (Len(file) \div 2) - 1 |->
                  Row((file[2 * i + 1] - 1) \div 2, "no")]
CutRow(file, cut, eof) == IF eof /\ Len(file) % 2 = 1 /\ Len(file) > 2
                          THEN <<Row(Len(file) \div 2, cut)>> ELSE <<>>

(* No header, or not the one of the expected features. *)
BadHeader(file) == Len(file) < 2

(* LoadPreparedObservationsCSV, of a file that ends with eof or an error. *)
Observations(file, cut, eof) ==
  LET last == CutRow(file, cut, eof) IN
  IF BadHeader(file) \/ ~eof \/ (last # <<>> /\ cut = "bad") THEN Error
  ELSE Whole(file) \o (IF cut = "meta" THEN <<>> ELSE last)

(* The limit is checked one row too late. *)
BugTaken(n) == limit > 0 /\ n > limit

(* maxRows > 0 && len(Y) >= maxRows, of n rows and the one just read. *)
Taken(n) == limit > 0 /\ n >= limit

(* LoadPreparedObservationsCompactCSV: a row with too few columns is an    *)
(* error; rows beyond the limit are not looked at. *)
Compact(file, cut, eof) ==
  LET last  == CutRow(file, cut, eof)
      known == Whole(file) \o (IF cut = "meta" THEN <<>> ELSE last)
      ends  == {n \in 0 .. Len(known) - 1 : Taken(n)}
  IN IF BadHeader(file) THEN Error
     ELSE IF ends # {} THEN SubSeq(known, 1, CHOOSE n \in ends : \A k \in ends : n <= k)
     ELSE IF ~eof \/ (last # <<>> /\ cut \in {"bad", "short"}) THEN Error
     ELSE known

(* cmd/train reads what is there; of a gzip file that was not closed, some *)
(* of it, and then an error. *)
Load == /\ pc \in {"returned", "killed"} /\ pc' = "loaded"
        /\ LET eof == sealed \/ ~gz IN
           \E cut \in Cuts, n \in IF eof THEN {Len(disk)} ELSE 0..Len(disk) :
             /\ loaded' = Observations(SubSeq(disk, 1, n), cut, eof)
             /\ compact' = Compact(SubSeq(disk, 1, n), cut, eof)
        /\ UNCHANGED <<Input, written, buf, held, disk, sealed, result>>

Next == Create \/ Write \/ Spill \/ LastRow \/ Close \/ Kill \/ Load

----------------------------------------------------------------------------
(* Properties.                                                             *)

(* A save that returns nil has lost at most what its buffers held, that of *)
(* csv.Writer and, for a .gz file, that of gzip; and nothing at all of a   *)
(* .gz file with its footer.                                               *)
LosesOnlyBuffers ==
  /\ result = "nil" /\ pc # "close" => Total - Len(disk) <= Cap + Kept
  /\ sealed => Len(disk) = Total

(* What is loaded are the rows in their order from the first on; only the  *)
(* last may be cut, and the compact loader takes no row short of features. *)
(* It has the first limit rows of the other loader, if neither fails; it   *)
(* may succeed where the other fails on a later row. *)
LoadedIsPrefix ==
  /\ \A rowsOf \in {loaded, compact} \ {Error} :
       \A i \in DOMAIN rowsOf :
         /\ rowsOf[i].row = i /\ i <= rows
         /\ rowsOf[i].cut # "no" => i = Len(rowsOf) /\ ~gz
         /\ rowsOf[i].cut = "short" => rowsOf # compact
  /\ pc = "loaded" /\ Error \notin {loaded, compact} =>
       compact = SubSeq(loaded, 1, IF limit \in 1..Len(loaded) THEN limit ELSE Len(loaded))
=============================================================================
