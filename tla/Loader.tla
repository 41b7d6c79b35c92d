------------------------------- MODULE Loader -------------------------------
(***************************************************************************)
(* LoadAndAggregateCSV (internal/crime/loader.go): one goroutine reads the *)
(* CSV and cuts it in batches, a bounded channel carries the batches to a  *)
(* pool of workers, every worker keeps a private WorkerResult that it      *)
(* sends once on a second channel, and the reader, after wg.Wait, merges   *)
(* the results.                                                            *)
(*                                                                         *)
(* A record is a slice, that is a reference: the model passes the number   *)
(* of the row around, and RowAt gives the record it refers to.             *)
(* The variables rows of a WorkerResult and merged are history: they say   *)
(* which rows a tally is made of and no guard reads them.                  *)
(* A definition named Bug... is a definition of the code with one mistake; *)
(* no specification uses it, it shows that a property can fail.            *)
(***************************************************************************)
EXTENDS Aggregation, Sequences, FiniteSets, Functions

CONSTANTS Workers,    \* the worker goroutines
          BatchSize,  \* records per batch
          Inputs      \* the files and row limits the loader may be given

(* The defaults for workers and batchSize make both positive.  A file may  *)
(* end in a persistent read error (fault) instead of io.EOF; the code then *)
(* reads nil records until maxRows stops it, and never stops without one.  *)
ASSUME LoaderAssumption ==
  /\ IsFiniteSet(Workers) /\ Workers # {}
  /\ BatchSize \in Nat \ {0}
  /\ \A in \in Inputs : /\ in.headerOk \in BOOLEAN
                        /\ in.file \in Seq(Row \cup {Unreadable})
                        /\ in.fault \in BOOLEAN
                        /\ in.maxRows \in Nat
                        /\ in.fault => in.maxRows > 0

VARIABLES input,         \* what the loader was called with, never changed
          pc,            \* where the reading goroutine is
          readRows,
          currentBatch,
          batches,       \* channel of batches
          batchesClosed,
          worker,        \* where each worker goroutine is
          pending,       \* the rest of the batch a worker is going through
          result,        \* the WorkerResult of each worker
          results,       \* channel of WorkerResults
          resultsClosed,
          wg,            \* the WaitGroup's counter
          stats,         \* finalAgg and stats, as one tally
          merged         \* history: the rows the merged results stand for

readerVars == <<input, readRows, currentBatch>>
mergeVars  == <<results, resultsClosed, wg, stats, merged>>
vars == <<input, pc, readRows, currentBatch, batches, batchesClosed, worker,
          pending, result, results, resultsClosed, wg, stats, merged>>

BugBatchesCap == 3 * Cardinality(Workers)

(* make(chan [][]string, workers*2) and make(chan WorkerResult, workers) *)
BatchesCap == 2 * Cardinality(Workers)
BugResultsCap == Cardinality(Workers) - 1
ResultsCap == Cardinality(Workers)

NewWorkerResult == [tally |-> EmptyTally, rows |-> {}]

RowAt(n) == IF n <= Len(input.file) THEN input.file[n] ELSE Unreadable

Init == /\ input \in Inputs
        /\ pc = "open"
        /\ readRows = 0
        /\ currentBatch = <<>>
        /\ batches = <<>>
        /\ batchesClosed = FALSE
        /\ worker = [w \in Workers |-> "none"]
        /\ pending = [w \in Workers |-> <<>>]
        /\ result = [w \in Workers |-> NewWorkerResult]
        /\ results = <<>>
        /\ resultsClosed = FALSE
        /\ wg = 0
        /\ stats = EmptyTally
        /\ merged = {}

----------------------------------------------------------------------------
(* The reading goroutine.                                                  *)

(* wg.Add(1) outside the loop. *)
BugStart == /\ pc = "open"
            /\ input.headerOk
            /\ pc' = "read"
            /\ worker' = [w \in Workers |-> "range"]
            /\ wg' = 1
            /\ UNCHANGED <<readerVars, batches, batchesClosed, pending, result,
                           results, resultsClosed, stats, merged>>

(* The file, its header and the mandatory columns are there: the channels  *)
(* are made and the workers started. *)
Start == /\ pc = "open"
         /\ input.headerOk
         /\ pc' = "read"
         /\ worker' = [w \in Workers |-> "range"]
         /\ wg' = Cardinality(Workers)
         /\ UNCHANGED <<readerVars, batches, batchesClosed, pending, result,
                        results, resultsClosed, stats, merged>>

(* Any of the three is missing: an early return, before any goroutine. *)
FailToOpen == /\ pc = "open"
              /\ ~input.headerOk
              /\ pc' = "failed"
              /\ UNCHANGED <<readerVars, batches, batchesClosed, worker,
                             pending, result, mergeVars>>

AtEOF == readRows >= Len(input.file) /\ ~input.fault

BugAfterRow(count) ==
  IF input.maxRows > 0 /\ count > input.maxRows THEN "flush" ELSE "read"

(* if maxRows > 0 && readRows >= maxRows { break } *)
AfterRow(count) ==
  IF input.maxRows > 0 /\ count >= input.maxRows THEN "flush" ELSE "read"

(* One reader.Read that is not io.EOF, readable or not. *)
ReadRecord ==
  /\ pc = "read"
  /\ ~AtEOF
  /\ readRows' = readRows + 1
  /\ currentBatch' = Append(currentBatch, readRows + 1)
  /\ pc' = IF Len(currentBatch') >= BatchSize THEN "send" ELSE AfterRow(readRows + 1)
  /\ UNCHANGED <<input, batches, batchesClosed, worker, pending, result, mergeVars>>

ReadEOF == /\ pc = "read"
           /\ AtEOF
           /\ pc' = "flush"
           /\ UNCHANGED <<readerVars, batches, batchesClosed, worker, pending,
                          result, mergeVars>>

(* The batch is not replaced after it was sent. *)
BugSendBatch == /\ pc = "send"
                /\ Len(batches) < BatchesCap
                /\ batches' = Append(batches, currentBatch)
                /\ pc' = AfterRow(readRows)
                /\ UNCHANGED <<readerVars, batchesClosed, worker, pending,
                               result, mergeVars>>

(* batches <- currentBatch blocks while the channel is full. *)
SendBatch == /\ pc = "send"
             /\ Len(batches) < BatchesCap
             /\ batches' = Append(batches, currentBatch)
             /\ currentBatch' = <<>>
             /\ pc' = AfterRow(readRows)
             /\ UNCHANGED <<input, readRows, batchesClosed, worker, pending,
                            result, mergeVars>>

(* The last, shorter batch.  currentBatch keeps its value and is dead. *)
FlushBatch == /\ pc = "flush"
              /\ Len(currentBatch) > 0
              /\ Len(batches) < BatchesCap
              /\ batches' = Append(batches, currentBatch)
              /\ pc' = "close"
              /\ UNCHANGED <<readerVars, batchesClosed, worker, pending,
                             result, mergeVars>>

(* The rows after the last full batch are forgotten. *)
BugCloseBatches == /\ pc \in {"flush", "close"}
                   /\ batchesClosed' = TRUE
                   /\ pc' = "wait"
                   /\ UNCHANGED <<readerVars, batches, worker, pending, result,
                                  mergeVars>>

CloseBatches == /\ \/ pc = "close"
                   \/ pc = "flush" /\ Len(currentBatch) = 0
                /\ batchesClosed' = TRUE
                /\ pc' = "wait"
                /\ UNCHANGED <<readerVars, batches, worker, pending, result,
                               mergeVars>>

(* The results channel is closed without waiting. *)
BugCloseResults == /\ pc = "wait"
                   /\ resultsClosed' = TRUE
                   /\ pc' = "merge"
                   /\ UNCHANGED <<readerVars, batches, batchesClosed, worker,
                                  pending, result, results, wg, stats, merged>>

(* wg.Wait() returns; close(results). *)
CloseResults == /\ pc = "wait"
                /\ wg = 0
                /\ resultsClosed' = TRUE
                /\ pc' = "merge"
                /\ UNCHANGED <<readerVars, batches, batchesClosed, worker,
                               pending, result, results, wg, stats, merged>>

(* One turn of "for partial := range results". *)
MergeResult == /\ pc = "merge"
               /\ results # <<>>
               /\ stats' = MergeTally(stats, Head(results).tally)
               /\ merged' = merged \cup Head(results).rows
               /\ results' = Tail(results)
               /\ UNCHANGED <<readerVars, pc, batches, batchesClosed, worker,
                              pending, result, resultsClosed, wg>>

Return == /\ pc = "merge"
          /\ results = <<>>
          /\ resultsClosed
          /\ pc' = "done"
          /\ UNCHANGED <<readerVars, batches, batchesClosed, worker, pending,
                         result, mergeVars>>

Reader == \/ Start \/ FailToOpen \/ ReadRecord \/ ReadEOF \/ SendBatch
          \/ FlushBatch \/ CloseBatches \/ CloseResults \/ MergeResult \/ Return

----------------------------------------------------------------------------
(* A worker goroutine.                                                     *)

(* The next batch of "for batch := range batches". *)
Receive(w) == /\ worker[w] = "range"
              /\ pending[w] = <<>>
              /\ batches # <<>>
              /\ pending' = [pending EXCEPT ![w] = Head(batches)]
              /\ batches' = Tail(batches)
              /\ UNCHANGED <<readerVars, pc, batchesClosed, worker, result,
                             mergeVars>>

(* processRecordIntoAggregation and addRecordStatsToWorker for one record. *)
ProcessRecord(w) ==
  /\ worker[w] = "range"
  /\ pending[w] # <<>>
  /\ LET n == Head(pending[w]) IN
       result' = [result EXCEPT ![w] = [tally |-> AddRecord(result[w].tally, RowAt(n)),
                                        rows  |-> result[w].rows \cup {n}]]
  /\ pending' = [pending EXCEPT ![w] = Tail(pending[w])]
  /\ UNCHANGED <<readerVars, pc, batches, batchesClosed, worker, mergeVars>>

(* "batch := <-batches" without the ok: a closed channel yields nil        *)
(* batches for ever. *)
BugEndOfBatches(w) == /\ worker[w] = "range"
                      /\ pending[w] = <<>>
                      /\ batches = <<>>
                      /\ batchesClosed
                      /\ UNCHANGED vars

(* The channel is closed and drained: processBatches returns. *)
EndOfBatches(w) == /\ worker[w] = "range"
                   /\ pending[w] = <<>>
                   /\ batches = <<>>
                   /\ batchesClosed
                   /\ worker' = [worker EXCEPT ![w] = "send"]
                   /\ UNCHANGED <<readerVars, pc, batches, batchesClosed,
                                  pending, result, mergeVars>>

SendResult(w) == /\ worker[w] = "send"
                 /\ Len(results) < ResultsCap
                 /\ results' = Append(results, result[w])
                 /\ worker' = [worker EXCEPT ![w] = "sent"]
                 /\ UNCHANGED <<readerVars, pc, batches, batchesClosed, pending,
                                result, resultsClosed, wg, stats, merged>>

(* defer wg.Done() *)
WgDone(w) == /\ worker[w] = "sent"
             /\ worker' = [worker EXCEPT ![w] = "exited"]
             /\ wg' = wg - 1
             /\ UNCHANGED <<readerVars, pc, batches, batchesClosed, pending,
                            result, results, resultsClosed, stats, merged>>

Worker(w) == \/ Receive(w) \/ ProcessRecord(w) \/ EndOfBatches(w)
             \/ SendResult(w) \/ WgDone(w)

(* The loader has returned, with a result or with an error. *)
Returned == pc \in {"done", "failed"}

Terminated == Returned /\ UNCHANGED vars

Next == Reader \/ (\E w \in Workers : Worker(w)) \/ Terminated

Spec == Init /\ [][Next]_vars

(* The Go scheduler runs every goroutine that can run; a goroutine blocked *)
(* on a channel runs on when the operation stays possible. *)
FairSpec == Spec /\ WF_vars(Reader) /\ \A w \in Workers : WF_vars(Worker(w))

----------------------------------------------------------------------------
(* Properties.                                                             *)

Batch == Seq(Nat \ {0})
WorkerResult == [tally : [Counter -> Nat], rows : SUBSET (Nat \ {0})]

(* Every variable has its type. *)
TypeOK ==
  /\ input \in Inputs
  /\ pc \in {"open", "failed", "read", "send", "flush", "close", "wait",
             "merge", "done"}
  /\ readRows \in Nat
  /\ currentBatch \in Batch
  /\ batches \in Seq(Batch)
  /\ batchesClosed \in BOOLEAN
  /\ worker \in [Workers -> {"none", "range", "send", "sent", "exited"}]
  /\ pending \in [Workers -> Batch]
  /\ result \in [Workers -> WorkerResult]
  /\ results \in Seq(WorkerResult)
  /\ resultsClosed \in BOOLEAN
  /\ wg \in Nat
  /\ stats \in [Counter -> Nat]
  /\ merged \in SUBSET (Nat \ {0})

(* Where a row that was read may be, on its way to the merged books. *)
HeldByReader == IF pc \in {"read", "send", "flush"} THEN Range(currentBatch) ELSE {}
InChannel == UNION {Range(b) : b \in Range(batches)}
HeldByWorker == [w \in Workers |-> Range(pending[w])]
Tallied == [w \in Workers |->
              IF worker[w] \in {"sent", "exited"} THEN {} ELSE result[w].rows]
AtWorker == [w \in Workers |-> HeldByWorker[w] \cup Tallied[w]]
AtWorkers == UNION {AtWorker[w] : w \in Workers}
InResults == UNION {r.rows : r \in Range(results)}

Disjoint(S, T) == S \cap T = {}
NoRepeats(s) == \A i, j \in DOMAIN s : s[i] = s[j] => i = j

(* A row that was read is somewhere: none is lost between two goroutines. *)
NoRowLost ==
  1 .. readRows = HeldByReader \cup InChannel \cup AtWorkers \cup InResults \cup merged

(* A row is in one place only: the reader's batch, one batch of the        *)
(* channel, the batch or the unsent tally of one worker, one result of the *)
(* channel, or the merged books.  None is ever counted twice. *)
NoRowTwice ==
  /\ NoRepeats(currentBatch)
  /\ \A i \in DOMAIN batches : NoRepeats(batches[i])
  /\ \A i, j \in DOMAIN batches : i # j => Disjoint(Range(batches[i]), Range(batches[j]))
  /\ Disjoint(HeldByReader, InChannel)
  /\ \A w \in Workers :
       /\ NoRepeats(pending[w])
       /\ Disjoint(HeldByReader \cup InChannel, AtWorker[w])
       /\ Disjoint(HeldByWorker[w], Tallied[w])
       /\ Disjoint(AtWorker[w], InResults \cup merged)
  /\ \A v, w \in Workers :
       v # w => Disjoint(AtWorker[v], AtWorker[w])
  /\ Disjoint(HeldByReader \cup InChannel, InResults \cup merged)
  /\ \A i, j \in DOMAIN results : i # j => Disjoint(results[i].rows, results[j].rows)
  /\ Disjoint(InResults, merged)

(* maxRows counts every row read, also the unreadable ones, and only a     *)
(* limit or the end of the file makes the loader stop reading. *)
ReadsWhatItShould ==
  /\ input.maxRows > 0 => readRows <= input.maxRows
  /\ ~input.fault => readRows <= Len(input.file)
  /\ batchesClosed => \/ input.maxRows > 0 /\ readRows = input.maxRows
                      \/ ~input.fault /\ readRows = Len(input.file)

(* "No carga todo el dataset en memoria": the rows read and not yet        *)
(* aggregated fit the reader's batch, the channel and a batch per worker. *)
BoundedMemory ==
  Cardinality(HeldByReader) + Cardinality(InChannel)
    + Cardinality(UNION {HeldByWorker[w] : w \in Workers})
    <= BatchSize * (1 + 3 * Cardinality(Workers))

(* The results channel is drained only after wg.Wait: a worker that has a  *)
(* result to send must find room for it, or the loader deadlocks. *)
ResultsNeverBlock == \A w \in Workers : worker[w] = "send" => Len(results) < ResultsCap

(* No send on a closed channel, which would panic: while a channel may     *)
(* still be sent to, it is open. *)
NoSendOnClosed ==
  /\ pc \in {"read", "send", "flush", "close"} => ~batchesClosed
  /\ resultsClosed => \A w \in Workers : worker[w] = "exited"

(* The sum of the values of a function: the size of a disjoint union. *)
SumOf(f) == Cardinality(UNION {{x} \X (1 .. f[x]) : x \in DOMAIN f})

(* At every moment each private tally, each tally in the channel and the   *)
(* merged one balance: a row is valid, invalid or filtered, a counted      *)
(* record is relevant or other, in one relevant group, and the cells and   *)
(* the years add up to the valid rows.  A year 0 is not counted, so that   *)
(* the years do only if MinYear keeps such rows out. *)
Balanced(tally) ==
  LET At(c) == IF c \in Counter THEN tally[c] ELSE 0
      Rows(f) == At(<<"rows", f>>)
      Value(k, f) == At(<<"cell", k, f>>)
      Years == {row.date.year : row \in {r \in Row : Parses(r)}}
  IN /\ Rows("TotalRows") = Rows("ValidRows") + Rows("InvalidRows") + Rows("FilteredRows")
     /\ \A k \in Cells :
          /\ Value(k, "Count") = Value(k, "RelevantCount") + Value(k, "OtherCount")
          /\ Value(k, "RelevantCount") = Value(k, "ViolentCount") + Value(k, "PropertyCount")
                                         + Value(k, "WeaponsCount") + Value(k, "SevereCount")
     /\ Rows("ValidRows") = SumOf([k \in Cells |-> Value(k, "Count")])
     /\ Rows("RelevantRows") = SumOf([k \in Cells |-> Value(k, "RelevantCount")])
     /\ MinYear > 0 => Rows("ValidRows") = SumOf([y \in Years |-> At(<<"year", y>>)])

BooksBalance == /\ Balanced(stats)
                /\ \A w \in Workers : Balanced(result[w].tally)
                /\ \A i \in DOMAIN results : Balanced(results[i].tally)

(* The goroutines and channels implement one sequential pass. *)
Sequential == INSTANCE AbstractLoader WITH
  answer <- CASE pc = "done" -> "ok" [] pc = "failed" -> "error" [] OTHER -> "none",
  books  <- IF pc = "done" THEN stats ELSE EmptyTally

(* Whatever the interleaving, the loader answers once, and with the books  *)
(* of a sequential pass over the rows it should read. *)
ImplementsSequential == Sequential!Spec

(* The load ends: nobody waits for a channel or for the WaitGroup forever. *)
Termination == <>Returned
=============================================================================
