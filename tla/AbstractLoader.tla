--------------------------- MODULE AbstractLoader ---------------------------
(***************************************************************************)
(* What LoadAndAggregateCSV promises its caller: one call, one answer, and *)
(* the answer is the books of a sequential pass over the rows that the     *)
(* file and the limit allow.  No goroutine, channel or batch appears here. *)
(***************************************************************************)
EXTENDS Integers, Sequences, FiniteSets

CONSTANTS Counter,        \* what is counted
          Increments(_),  \* the counters a row bumps
          Unreadable      \* the row of a read error

VARIABLES input,   \* what the loader was called with
          answer,  \* "none" until it returns, then "ok" or "error"
          books    \* the counts it returns

(* An unlimited load reads the whole file; a limit counts every row. *)
RowsToRead ==
  IF input.maxRows > 0 /\ (input.fault \/ input.maxRows < Len(input.file))
  THEN input.maxRows
  ELSE Len(input.file)

Record(n) == IF n <= Len(input.file) THEN input.file[n] ELSE Unreadable

SequentialBooks ==
  [c \in Counter |-> Cardinality({n \in 1 .. RowsToRead : c \in Increments(Record(n))})]

Init == answer = "none" /\ books = [c \in Counter |-> 0]

Load == /\ answer = "none"
        /\ input.headerOk
        /\ answer' = "ok"
        /\ books' = SequentialBooks
        /\ UNCHANGED input

Fail == /\ answer = "none"
        /\ ~input.headerOk
        /\ answer' = "error"
        /\ UNCHANGED <<input, books>>

Next == Load \/ Fail

Spec == Init /\ [][Next]_<<input, answer, books>>
=============================================================================
