---------------------------- MODULE LoaderProofs ----------------------------
(* Theorems about the concurrent loader, for any file, any number of      *)
(* workers and any batch size.                                            *)
EXTENDS Loader, FiniteSetTheorems, SequenceTheorems, TLAPS

(* Adding or taking an element at either end of a sequence. *)
LEMMA RangeAppend ==
  ASSUME NEW S, NEW s \in Seq(S), NEW e \in S
  PROVE  /\ Append(s, e) \in Seq(S)
         /\ Range(Append(s, e)) = Range(s) \cup {e}
<1> DEFINE t == Append(s, e)
<1>1. /\ t \in Seq(S)
      /\ DOMAIN s = 1 .. Len(s) /\ DOMAIN t = 1 .. Len(s) + 1
      /\ \A i \in 1 .. Len(s) : t[i] = s[i]
      /\ t[Len(s) + 1] = e /\ Len(s) \in Nat
  OBVIOUS
<1>2. Range(t) = {t[i] : i \in 1 .. Len(s)} \cup {e}
  BY <1>1 DEF Range
<1>3. QED  BY <1>1, <1>2 DEF Range

(* Taking the head off a sequence takes its value out of the range. *)
LEMMA RangeTail ==
  ASSUME NEW S, NEW s \in Seq(S), s # <<>>
  PROVE  /\ Head(s) \in S
         /\ Tail(s) \in Seq(S)
         /\ Range(s) = {Head(s)} \cup Range(Tail(s))
<1> DEFINE t == Tail(s)
<1>1. /\ t \in Seq(S) /\ Head(s) = s[1] /\ s[1] \in S /\ Len(s) \in Nat \ {0}
      /\ DOMAIN s = 1 .. Len(s) /\ DOMAIN t = 1 .. Len(s) - 1
      /\ \A i \in 1 .. Len(s) - 1 : t[i] = s[i + 1]
  OBVIOUS
<1>2. ASSUME NEW x \in Range(s), x # Head(s)  PROVE x \in Range(t)
  <2>1. PICK i \in 1 .. Len(s) : s[i] = x
    BY <1>1 DEF Range
  <2>2. i - 1 \in DOMAIN t /\ t[i - 1] = s[i]
    BY <1>1, <1>2, <2>1
  <2>3. QED  BY <2>1, <2>2 DEF Range
<1>3. Range(s) \subseteq {Head(s)} \cup Range(t)
  BY <1>2
<1>4. {Head(s)} \cup Range(t) \subseteq Range(s)
  BY <1>1 DEF Range
<1>5. QED  BY <1>1, <1>3, <1>4

----------------------------------------------------------------------------
(* Type correctness.                                                       *)

(* A record or a merge makes a tally of a tally. *)
LEMMA CountersOfARow ==
  ASSUME NEW t \in [Counter -> Nat], NEW u \in [Counter -> Nat], NEW row
  PROVE  /\ EmptyTally \in [Counter -> Nat]
         /\ AddRecord(t, row) \in [Counter -> Nat]
         /\ MergeTally(t, u) \in [Counter -> Nat]
  BY DEF EmptyTally, AddRecord, MergeTally

(* The workers that have not called Done, and what the WaitGroup counts:   *)
(* an Add or a Done too many would let wg.Wait return early or panic. *)
Active == {w \in Workers : worker[w] \in {"range", "send", "sent"}}
Counted == TypeOK /\ wg = Cardinality(Active)

(* The counter is the number of these workers, so it never goes below zero. *)
THEOREM WaitGroupCounts == Spec => []Counted
<1> USE LoaderAssumption
<1>1. Init => Counted
  <2> SUFFICES ASSUME Init  PROVE Counted
    OBVIOUS
  <2>1. Active = {}
    BY DEF Init, Active
  <2>2. Cardinality(Active) = 0
    BY <2>1, FS_EmptySet
  <2>3. NewWorkerResult \in WorkerResult /\ EmptyTally \in [Counter -> Nat]
    BY DEF NewWorkerResult, WorkerResult, EmptyTally
  <2>4. <<>> \in Batch /\ <<>> \in Seq(Batch) /\ <<>> \in Seq(WorkerResult)
    BY DEF Batch
  <2>5. TypeOK
    BY <2>3, <2>4 DEF Init, TypeOK
  <2>6. QED  BY <2>2, <2>5 DEF Init, Counted
<1>2. Counted /\ [Next]_vars => Counted'
  <2> SUFFICES ASSUME Counted, [Next]_vars  PROVE Counted'
    OBVIOUS
  <2> USE DEF Counted, TypeOK
  <2> IsFiniteSet(Active) /\ Cardinality(Active) \in Nat
    BY FS_Subset, FS_CardinalityType DEF Active
  <2>1. CASE Start
    <3>1. Active' = Workers /\ wg' = Cardinality(Workers)
      BY <2>1 DEF Start, Active
    <3>2. wg' \in Nat
      BY <3>1, FS_CardinalityType
    <3>3. worker' \in [Workers -> {"none", "range", "send", "sent", "exited"}]
      BY <2>1 DEF Start
    <3>4. QED  BY <2>1, <3>1, <3>2, <3>3 DEF Start, readerVars
  <2>2. CASE FailToOpen \/ ReadEOF \/ CloseBatches \/ CloseResults \/ Return
    BY <2>2 DEF FailToOpen, ReadEOF, CloseBatches, CloseResults, Return,
                readerVars, mergeVars, Active
  <2>3. CASE ReadRecord
    <3>1. currentBatch' \in Batch /\ readRows' \in Nat
      BY <2>3 DEF ReadRecord, Batch
    <3>2. QED  BY <2>3, <3>1 DEF ReadRecord, AfterRow, mergeVars, Active
  <2>4. CASE SendBatch
    <3>1. batches' \in Seq(Batch) /\ currentBatch' \in Batch
      BY <2>4 DEF SendBatch, Batch
    <3>2. QED  BY <2>4, <3>1 DEF SendBatch, AfterRow, mergeVars, Active
  <2>5. CASE FlushBatch
    BY <2>5 DEF FlushBatch, readerVars, mergeVars, Active
  <2>6. CASE MergeResult
    <3>1. Head(results) \in WorkerResult /\ results' \in Seq(WorkerResult)
      BY <2>6 DEF MergeResult
    <3>2. stats' \in [Counter -> Nat] /\ merged' \in SUBSET (Nat \ {0})
      BY <2>6, <3>1, CountersOfARow DEF MergeResult, WorkerResult
    <3>3. QED  BY <2>6, <3>1, <3>2 DEF MergeResult, readerVars, Active
  <2>7. ASSUME NEW w \in Workers, Receive(w)  PROVE Counted'
    <3>1. Head(batches) \in Batch /\ batches' \in Seq(Batch)
      BY <2>7 DEF Receive
    <3>2. QED  BY <2>7, <3>1 DEF Receive, readerVars, mergeVars, Active
  <2>8. ASSUME NEW w \in Workers, ProcessRecord(w)  PROVE Counted'
    <3> DEFINE n == Head(pending[w])
    <3>1. n \in Nat \ {0} /\ Tail(pending[w]) \in Batch
      BY <2>8 DEF ProcessRecord, Batch
    <3>2. result[w].tally \in [Counter -> Nat] /\ result[w].rows \in SUBSET (Nat \ {0})
      BY DEF WorkerResult
    <3>3. [tally |-> AddRecord(result[w].tally, RowAt(n)),
           rows |-> result[w].rows \cup {n}] \in WorkerResult
      BY <3>1, <3>2, CountersOfARow DEF WorkerResult
    <3>4. result' \in [Workers -> WorkerResult] /\ pending' \in [Workers -> Batch]
      BY <2>8, <3>1, <3>3 DEF ProcessRecord
    <3>5. QED  BY <2>8, <3>4 DEF ProcessRecord, readerVars, mergeVars, Active
  <2>9. ASSUME NEW w \in Workers, EndOfBatches(w)  PROVE Counted'
    <3>1. Active' = Active
      BY <2>9 DEF EndOfBatches, Active
    <3>2. QED  BY <2>9, <3>1 DEF EndOfBatches, readerVars, mergeVars
  <2>10. ASSUME NEW w \in Workers, SendResult(w)  PROVE Counted'
    <3>1. Active' = Active
      BY <2>10 DEF SendResult, Active
    <3>2. results' \in Seq(WorkerResult)
      BY <2>10 DEF SendResult
    <3>3. QED  BY <2>10, <3>1, <3>2 DEF SendResult, readerVars
  <2>11. ASSUME NEW w \in Workers, WgDone(w)  PROVE Counted'
    <3>1. Active' = Active \ {w} /\ w \in Active
      BY <2>11 DEF WgDone, Active
    <3>2. Cardinality(Active') = Cardinality(Active) - 1 /\ Cardinality(Active') \in Nat
      BY <3>1, FS_RemoveElement, FS_CardinalityType
    <3>3. QED  BY <2>11, <3>2 DEF WgDone, readerVars
  <2>12. CASE UNCHANGED vars
    BY <2>12 DEF vars, Active
  <2>13. QED
    BY <2>1, <2>2, <2>3, <2>4, <2>5, <2>6, <2>7, <2>8, <2>9, <2>10, <2>11, <2>12
       DEF Next, Reader, Worker, Terminated
<1>3. QED  BY <1>1, <1>2, PTL DEF Spec

(* Every variable keeps its type. *)
THEOREM TypeCorrect == Spec => []TypeOK
<1>1. Counted => TypeOK
  BY DEF Counted
<1>2. QED  BY <1>1, WaitGroupCounts, PTL

----------------------------------------------------------------------------
(* Who may still be doing what: the phases of the reader and the workers.  *)

Finished == {w \in Workers : worker[w] \in {"sent", "exited"}}

Phases ==
  /\ pc = "open" => readRows = 0 /\ currentBatch = <<>>
  /\ pc \in {"open", "failed"} => \A w \in Workers : worker[w] = "none"
  /\ pc \notin {"open", "failed"} => \A w \in Workers : worker[w] # "none"
  /\ batchesClosed <=> pc \in {"wait", "merge", "done"}
  /\ \A w \in Workers : worker[w] \in {"send", "sent", "exited"}
                         => pending[w] = <<>> /\ batches = <<>> /\ batchesClosed
  /\ resultsClosed <=> pc \in {"merge", "done"}
  /\ pc \in {"merge", "done"} => \A w \in Workers : worker[w] = "exited"
  /\ pc = "done" => results = <<>>

RoomForAll == Len(results) <= Cardinality(Finished)

(* Where the reader is against the limit and the end of the file. *)
Progress ==
  /\ pc \notin {"open", "failed"} => input.headerOk
  /\ pc = "read" /\ input.maxRows > 0 => readRows < input.maxRows
  /\ input.maxRows > 0 => readRows <= input.maxRows
  /\ ~input.fault => readRows <= Len(input.file)
  /\ pc \in {"flush", "close", "wait", "merge", "done"}
     => \/ input.maxRows > 0 /\ readRows = input.maxRows
        \/ ~input.fault /\ readRows = Len(input.file)

Control == Counted /\ Phases /\ RoomForAll /\ Progress

(* What the assumption says of the call that was made. *)
LEMMA InputType ==
  ASSUME TypeOK
  PROVE  /\ input.maxRows \in Nat /\ input.headerOk \in BOOLEAN
         /\ input.fault \in BOOLEAN /\ Len(input.file) \in Nat
         /\ input.fault => input.maxRows > 0
  BY LoaderAssumption DEF TypeOK

(* Before the reader starts no worker runs and both channels are open. *)
LEMMA PhasesInit == Init => Phases
  BY DEF Init, Phases

(* The reader goes on only when the workers are as far as it waits for. *)
LEMMA PhasesStep == Counted /\ Phases /\ [Next]_vars => Phases'
<1> SUFFICES ASSUME Counted, Phases, [Next]_vars  PROVE Phases'
  OBVIOUS
<1> USE DEF Phases, Counted, TypeOK
<1>1. CASE Start
  BY <1>1 DEF Start, readerVars
<1>2. CASE FailToOpen
  BY <1>2 DEF FailToOpen, readerVars, mergeVars
<1>3. CASE ReadRecord
  BY <1>3 DEF ReadRecord, AfterRow, mergeVars
<1>4. CASE ReadEOF
  BY <1>4 DEF ReadEOF, readerVars, mergeVars
<1>5. CASE SendBatch
  BY <1>5 DEF SendBatch, AfterRow, mergeVars
<1>6. CASE FlushBatch
  BY <1>6 DEF FlushBatch, readerVars, mergeVars
<1>7. CASE CloseBatches
  BY <1>7 DEF CloseBatches, readerVars, mergeVars
<1>8. CASE CloseResults
  <2>1. Active = {}
    <3>1. IsFiniteSet(Active)
      BY LoaderAssumption, FS_Subset DEF Active
    <3>2. QED  BY <1>8, <3>1, FS_EmptySet DEF CloseResults
  <2>2. \A w \in Workers : worker[w] = "exited"
    BY <1>8, <2>1 DEF CloseResults, Active
  <2>3. QED  BY <1>8, <2>2 DEF CloseResults, readerVars
<1>9. CASE MergeResult
  BY <1>9 DEF MergeResult, readerVars
<1>10. CASE Return
  BY <1>10 DEF Return, readerVars, mergeVars
<1>11. ASSUME NEW w \in Workers, Worker(w)  PROVE Phases'
  <2>1. CASE Receive(w)
    BY <2>1 DEF Receive, readerVars, mergeVars
  <2>2. CASE ProcessRecord(w)
    BY <2>2 DEF ProcessRecord, readerVars, mergeVars
  <2>3. CASE EndOfBatches(w)
    BY <2>3 DEF EndOfBatches, readerVars, mergeVars
  <2>4. CASE SendResult(w)
    BY <2>4 DEF SendResult, readerVars
  <2>5. CASE WgDone(w)
    BY <2>5 DEF WgDone, readerVars
  <2>6. QED  BY <1>11, <2>1, <2>2, <2>3, <2>4, <2>5 DEF Worker
<1>12. CASE UNCHANGED vars
  BY <1>12 DEF vars
<1>13. QED
  BY <1>1, <1>2, <1>3, <1>4, <1>5, <1>6, <1>7, <1>8, <1>9, <1>10, <1>11, <1>12
     DEF Next, Reader, Terminated

(* A result enters the channel as its worker becomes one that has sent. *)
LEMMA RoomStep == Counted /\ Phases /\ RoomForAll /\ [Next]_vars => RoomForAll'
<1> SUFFICES ASSUME Counted, Phases, RoomForAll, [Next]_vars  PROVE RoomForAll'
  OBVIOUS
<1> USE DEF RoomForAll, Counted, TypeOK
<1>1. IsFiniteSet(Finished) /\ Cardinality(Finished) \in Nat
  BY LoaderAssumption, FS_Subset, FS_CardinalityType DEF Finished
<1>2. ASSUME results' = results, Finished' = Finished  PROVE RoomForAll'
  BY <1>2
<1>3. CASE MergeResult
  <2>1. Finished' = Finished
    BY <1>3 DEF MergeResult, Finished
  <2>2. Len(results') = Len(results) - 1
    BY <1>3 DEF MergeResult
  <2>3. QED  BY <1>1, <2>1, <2>2
<1>4. ASSUME NEW w \in Workers, SendResult(w)  PROVE RoomForAll'
  <2>1. Finished' = Finished \cup {w} /\ w \notin Finished
    BY <1>4 DEF SendResult, Finished
  <2>2. Cardinality(Finished') = Cardinality(Finished) + 1
    BY <1>1, <2>1, FS_AddElement
  <2>3. Len(results') = Len(results) + 1
    BY <1>4 DEF SendResult
  <2>4. QED  BY <1>1, <2>2, <2>3
<1>5. CASE Start
  BY <1>2, <1>5 DEF Start, Finished, Phases
<1>6. CASE \/ FailToOpen \/ ReadRecord \/ ReadEOF \/ SendBatch \/ FlushBatch
           \/ CloseBatches \/ CloseResults \/ Return \/ UNCHANGED vars
  BY <1>2, <1>6 DEF FailToOpen, ReadRecord, ReadEOF, SendBatch, FlushBatch,
     CloseBatches, CloseResults, Return, vars, mergeVars, Finished
<1>7. ASSUME NEW w \in Workers, Receive(w) \/ ProcessRecord(w)
      PROVE  RoomForAll'
  BY <1>2, <1>7 DEF Receive, ProcessRecord, mergeVars, Finished
<1>8. ASSUME NEW w \in Workers, EndOfBatches(w) \/ WgDone(w)
      PROVE  RoomForAll'
  BY <1>2, <1>8 DEF EndOfBatches, WgDone, mergeVars, Finished
<1>9. QED
  BY <1>3, <1>4, <1>5, <1>6, <1>7, <1>8 DEF Next, Reader, Worker, Terminated

(* The limit is tested after every row, before the next one is read. *)
LEMMA ProgressStep == Counted /\ Phases /\ Progress /\ [Next]_vars => Progress'
<1> SUFFICES ASSUME Counted, Phases, Progress, [Next]_vars  PROVE Progress'
  OBVIOUS
<1>1. /\ input.maxRows \in Nat /\ Len(input.file) \in Nat /\ readRows \in Nat
      /\ input.fault \in BOOLEAN /\ input.fault => input.maxRows > 0
  BY InputType DEF Counted, TypeOK
<1>2. input' = input
  BY DEF Next, Reader, Worker, Terminated, vars, readerVars, Start, FailToOpen,
     ReadRecord, ReadEOF, SendBatch, FlushBatch, CloseBatches, CloseResults,
     MergeResult, Return, Receive, ProcessRecord, EndOfBatches, SendResult, WgDone
<1>3. CASE ReadRecord
  BY <1>1, <1>2, <1>3 DEF ReadRecord, AfterRow, AtEOF, Progress
<1>4. CASE ReadEOF
  BY <1>1, <1>2, <1>4 DEF ReadEOF, AtEOF, Progress, readerVars
<1>5. CASE SendBatch
  BY <1>1, <1>2, <1>5 DEF SendBatch, AfterRow, Progress
<1>6. CASE Start \/ FailToOpen \/ FlushBatch \/ CloseBatches \/ CloseResults \/ Return
  BY <1>1, <1>2, <1>6 DEF Start, FailToOpen, FlushBatch, CloseBatches,
     CloseResults, Return, readerVars, Progress, Phases
<1>7. CASE MergeResult \/ (\E w \in Workers : Worker(w)) \/ UNCHANGED vars
  BY <1>1, <1>2, <1>7 DEF MergeResult, Worker, Receive, ProcessRecord, EndOfBatches,
     SendResult, WgDone, vars, readerVars, Progress
<1>8. QED
  BY <1>3, <1>4, <1>5, <1>6, <1>7 DEF Next, Reader, Terminated

(* The control part of the inductive invariant. *)
LEMMA ControlInvariant == Spec => []Control
<1>1. Init => Phases /\ RoomForAll /\ Progress
  <2> SUFFICES ASSUME Init  PROVE Phases /\ RoomForAll /\ Progress
    OBVIOUS
  <2>1. Cardinality(Finished) = 0
    <3>1. Finished = {}
      BY DEF Init, Finished
    <3>2. QED  BY <3>1, FS_EmptySet
  <2>2. RoomForAll
    BY <2>1 DEF Init, RoomForAll
  <2>3. Progress
    BY LoaderAssumption DEF Init, Progress
  <2>4. QED  BY <2>2, <2>3, PhasesInit
<1>2. QED
  BY <1>1, WaitGroupCounts, PhasesStep, RoomStep, ProgressStep, PTL DEF Spec, Control

(* The limit and the end of the file are respected, whatever the batches. *)
THEOREM ReadingIsBounded == Spec => []ReadsWhatItShould
<1>1. Control => ReadsWhatItShould
  BY DEF Control, Phases, Progress, ReadsWhatItShould
<1>2. QED  BY <1>1, ControlInvariant, PTL

(* A worker always finds room for its result: wg.Wait can come before the  *)
(* channel is drained because its capacity is the number of workers. *)
THEOREM NoDeadlockOnResults == Spec => []ResultsNeverBlock
<1>1. Control => ResultsNeverBlock
  <2> SUFFICES ASSUME Control, NEW w \in Workers, worker[w] = "send"
               PROVE  Len(results) < ResultsCap
    BY DEF ResultsNeverBlock
  <2>1. Finished \subseteq Workers \ {w}
    BY DEF Finished
  <2>2. /\ Cardinality(Finished) <= Cardinality(Workers \ {w})
        /\ Cardinality(Finished) \in Nat
    BY <2>1, LoaderAssumption, FS_RemoveElement, FS_Subset, FS_CardinalityType
  <2>3. Cardinality(Workers \ {w}) = Cardinality(Workers) - 1
        /\ Cardinality(Workers) \in Nat
    BY LoaderAssumption, FS_RemoveElement, FS_CardinalityType
  <2>4. QED
    BY <2>2, <2>3 DEF Control, RoomForAll, ResultsCap, Counted, TypeOK
<1>2. QED  BY <1>1, ControlInvariant, PTL

(* No goroutine sends on a channel that was closed. *)
THEOREM NoPanicOnSend == Spec => []NoSendOnClosed
<1>1. Control => NoSendOnClosed
  BY DEF Control, Phases, Counted, TypeOK, NoSendOnClosed
<1>2. QED  BY <1>1, ControlInvariant, PTL

----------------------------------------------------------------------------
(* Every row that was read is in exactly one place.                        *)

Rows == NoRowLost /\ NoRowTwice

(* A new row does not make a batch repeat one. *)
LEMMA NoRepeatsAppend ==
  ASSUME NEW S, NEW s \in Seq(S), NEW e \in S, NoRepeats(s), e \notin Range(s)
  PROVE  NoRepeats(Append(s, e))
<1> DEFINE t == Append(s, e)
<1>1. /\ DOMAIN s = 1 .. Len(s) /\ DOMAIN t = 1 .. Len(s) + 1
      /\ \A i \in 1 .. Len(s) : t[i] = s[i] /\ t[i] # e
      /\ t[Len(s) + 1] = e /\ Len(s) \in Nat
  BY DEF Range
<1>2. QED  BY <1>1 DEF NoRepeats

(* The row a worker takes from its batch does not come again. *)
LEMMA NoRepeatsTail ==
  ASSUME NEW S, NEW s \in Seq(S), s # <<>>, NoRepeats(s)
  PROVE  NoRepeats(Tail(s)) /\ Head(s) \notin Range(Tail(s))
<1> DEFINE t == Tail(s)
<1>1. /\ Head(s) = s[1] /\ Len(s) \in Nat \ {0}
      /\ DOMAIN s = 1 .. Len(s) /\ DOMAIN t = 1 .. Len(s) - 1
      /\ \A i \in 1 .. Len(s) - 1 : t[i] = s[i + 1]
  OBVIOUS
<1>2. QED  BY <1>1 DEF NoRepeats, Range

(* Membership in the union over the workers, in both states. *)
LEMMA AtWorkersDef ==
  /\ \A n : n \in AtWorkers <=> \E w \in Workers : n \in AtWorker[w]
  /\ \A n : n \in AtWorkers' <=> \E w \in Workers : n \in AtWorker'[w]
  BY DEF AtWorkers

(* Nothing was read, so nothing is held. *)
LEMMA RowsInit == Init => Rows
<1> SUFFICES ASSUME Init  PROVE Rows
  OBVIOUS
<1>1. Range(<<>>) = {}
  BY DEF Range
<1>2. /\ HeldByReader = {} /\ InChannel = {} /\ InResults = {} /\ merged = {}
      /\ \A w \in Workers : HeldByWorker[w] = {} /\ Tallied[w] = {} /\ AtWorker[w] = {}
  BY <1>1 DEF Init, HeldByReader, InChannel, InResults, HeldByWorker, Tallied, AtWorker,
     NewWorkerResult
<1>3. 1 .. readRows = {}
  BY DEF Init
<1>4. NoRowLost
  BY <1>2, <1>3, AtWorkersDef DEF NoRowLost
<1>5. NoRowTwice
  BY <1>1, <1>2 DEF Init, NoRowTwice, NoRepeats, Disjoint
<1>6. QED  BY <1>4, <1>5 DEF Rows

(* Steps that move no row. *)
LEMMA RowsStay ==
  ASSUME Rows, readRows' = readRows, currentBatch' = currentBatch,
         batches' = batches, pending' = pending, results' = results,
         merged' = merged, HeldByReader' = HeldByReader, Tallied' = Tallied
  PROVE  Rows'
<1>1. /\ InChannel' = InChannel /\ InResults' = InResults
      /\ HeldByWorker' = HeldByWorker /\ AtWorker' = AtWorker
  BY DEF InChannel, InResults, HeldByWorker, AtWorker
<1>2. NoRowLost'
  BY <1>1, AtWorkersDef DEF Rows, NoRowLost
<1>3. NoRowTwice'
  BY <1>1 DEF Rows, NoRowTwice
<1>4. QED  BY <1>2, <1>3 DEF Rows

(* A row moves from one place to the next, and only one row or batch at a time. *)
LEMMA RowsStep == Control /\ Rows /\ [Next]_vars => Rows'
<1> SUFFICES ASSUME Control, Rows, [Next]_vars  PROVE Rows'
  OBVIOUS
<1>0. TypeOK /\ Phases
  BY DEF Control, Counted
<1>1. CASE Start
  BY <1>0, <1>1, RowsStay DEF Start, readerVars, Phases, HeldByReader, Tallied, Range
<1>2. CASE \/ FailToOpen \/ ReadEOF \/ CloseResults \/ Return \/ UNCHANGED vars
  BY <1>2, RowsStay DEF FailToOpen, ReadEOF, CloseResults, Return, vars, readerVars,
     mergeVars, HeldByReader, Tallied
<1>3. CASE CloseBatches
  <2>1. HeldByReader' = HeldByReader
    BY <1>3 DEF CloseBatches, readerVars, HeldByReader, Range, Batch
  <2>2. QED  BY <1>3, <2>1, RowsStay DEF CloseBatches, readerVars, mergeVars, Tallied
<1>4. ASSUME NEW w \in Workers, EndOfBatches(w)  PROVE Rows'
  BY <1>4, RowsStay DEF EndOfBatches, readerVars, mergeVars, HeldByReader, Tallied
<1>5. ASSUME NEW w \in Workers, WgDone(w)  PROVE Rows'
  BY <1>5, RowsStay DEF WgDone, readerVars, HeldByReader, Tallied
<1>6. CASE ReadRecord
  <2> DEFINE n == readRows + 1
  <2>1. /\ Range(currentBatch') = Range(currentBatch) \cup {n}
        /\ 1 .. readRows' = (1 .. readRows) \cup {n} /\ n \notin 1 .. readRows
    <3>1. /\ readRows \in Nat /\ n \in Nat \ {0}
          /\ currentBatch' = Append(currentBatch, n) /\ readRows' = n
      BY <1>0, <1>6 DEF ReadRecord, TypeOK
    <3>2. Range(currentBatch') = Range(currentBatch) \cup {n}
      <4>1. currentBatch \in Seq(Nat \ {0})
        BY <1>0 DEF TypeOK, Batch
      <4>2. QED  BY <3>1, <4>1, RangeAppend
    <3>3. QED  BY <3>1, <3>2
  <2>2. /\ HeldByReader = Range(currentBatch) /\ HeldByReader' = HeldByReader \cup {n}
        /\ InChannel' = InChannel /\ InResults' = InResults /\ merged' = merged
        /\ HeldByWorker' = HeldByWorker /\ Tallied' = Tallied /\ AtWorker' = AtWorker
    BY <1>6, <2>1 DEF ReadRecord, AfterRow, mergeVars, HeldByReader, InChannel,
       InResults, HeldByWorker, Tallied, AtWorker
  <2>3. /\ n \notin HeldByReader \cup InChannel \cup InResults \cup merged
        /\ \A w \in Workers : n \notin AtWorker[w]
    BY <2>1, AtWorkersDef DEF Rows, NoRowLost
  <2>4. NoRowLost'
    BY <2>1, <2>2, AtWorkersDef DEF Rows, NoRowLost
  <2>5. NoRepeats(currentBatch')
    <3>1. n \in Nat \ {0} /\ currentBatch' = Append(currentBatch, n)
      BY <1>0, <1>6 DEF ReadRecord, TypeOK
    <3>2. NoRepeats(currentBatch) /\ n \notin Range(currentBatch)
      BY <2>2, <2>3 DEF Rows, NoRowTwice
    <3>3. currentBatch \in Seq(Nat \ {0})
      BY <1>0 DEF TypeOK, Batch
    <3>4. QED  BY <3>1, <3>2, <3>3, NoRepeatsAppend
  <2>6. NoRowTwice'
    BY <1>6, <2>2, <2>3, <2>5 DEF ReadRecord, mergeVars, Rows, NoRowTwice, Disjoint
  <2>7. QED  BY <2>4, <2>6 DEF Rows
<1>7. CASE SendBatch \/ FlushBatch
  <2>1. /\ batches' = Append(batches, currentBatch) /\ readRows' = readRows
        /\ pending' = pending /\ results' = results /\ merged' = merged
        /\ currentBatch' \in {currentBatch, <<>>}
    BY <1>7 DEF SendBatch, FlushBatch, readerVars, mergeVars
  <2>2. Range(batches') = Range(batches) \cup {currentBatch}
    BY <1>0, <2>1, RangeAppend DEF TypeOK
  <2>3. HeldByReader' = {} /\ HeldByReader = Range(currentBatch)
    <3>1. Range(<<>>) = {}
      BY DEF Range
    <3>2. QED  BY <1>7, <3>1 DEF SendBatch, FlushBatch, AfterRow, HeldByReader
  <2>4. /\ InChannel' = InChannel \cup HeldByReader /\ InResults' = InResults
        /\ HeldByWorker' = HeldByWorker /\ Tallied' = Tallied /\ AtWorker' = AtWorker
    BY <1>7, <2>1, <2>2, <2>3 DEF SendBatch, FlushBatch, InChannel, InResults,
       HeldByWorker, Tallied, AtWorker
  <2>5. NoRowLost'
    BY <2>1, <2>3, <2>4, AtWorkersDef DEF Rows, NoRowLost
  <2>6. NoRepeats(currentBatch)' /\ \A i \in DOMAIN batches' : NoRepeats(batches'[i])
    <3>1. NoRepeats(<<>>) /\ NoRepeats(currentBatch)
      BY DEF Rows, NoRowTwice, NoRepeats
    <3>2. \A i \in DOMAIN batches' : batches'[i] \in Range(batches) \cup {currentBatch}
      BY <2>2 DEF Range
    <3>3. \A b \in Range(batches) : NoRepeats(b)
      BY DEF Range, Rows, NoRowTwice
    <3>4. QED  BY <2>1, <3>1, <3>2, <3>3
  <2>7. ASSUME NEW i \in DOMAIN batches', NEW j \in DOMAIN batches', i # j
        PROVE  Disjoint(Range(batches'[i]), Range(batches'[j]))
    <3>1. /\ DOMAIN batches = 1 .. Len(batches) /\ DOMAIN batches' = 1 .. Len(batches) + 1
          /\ \A k \in 1 .. Len(batches) : batches'[k] = batches[k]
          /\ batches'[Len(batches) + 1] = currentBatch /\ Len(batches) \in Nat
      BY <1>0, <2>1 DEF TypeOK
    <3>2. \A k \in DOMAIN batches : Disjoint(Range(batches[k]), HeldByReader)
      BY DEF InChannel, Rows, NoRowTwice, Disjoint, Range
    <3>3. \A k, l \in DOMAIN batches : k # l => Disjoint(Range(batches[k]), Range(batches[l]))
      BY DEF Rows, NoRowTwice
    <3>4. QED  BY <2>3, <2>7, <3>1, <3>2, <3>3 DEF Disjoint
  <2>8. NoRowTwice'
    BY <2>1, <2>3, <2>4, <2>6, <2>7 DEF Rows, NoRowTwice, Disjoint
  <2>9. QED  BY <2>5, <2>8 DEF Rows
<1>8. ASSUME NEW w \in Workers, Receive(w)  PROVE Rows'
  <2> DEFINE H == Range(Head(batches))
  <2>1. /\ pending[w] = <<>> /\ batches # <<>> /\ batches' = Tail(batches)
        /\ pending' = [pending EXCEPT ![w] = Head(batches)] /\ DOMAIN pending = Workers
        /\ readRows' = readRows /\ currentBatch' = currentBatch
        /\ results' = results /\ merged' = merged
    BY <1>0, <1>8 DEF Receive, readerVars, mergeVars, TypeOK
  <2>2. /\ Range(batches) = {Head(batches)} \cup Range(batches')
        /\ \A i \in DOMAIN batches' : i + 1 \in DOMAIN batches /\ batches'[i] = batches[i + 1]
        /\ Head(batches) = batches[1] /\ 1 \in DOMAIN batches
        /\ DOMAIN batches' \subseteq Nat \ {0}
    BY <1>0, <2>1, RangeTail DEF TypeOK
  <2>3. Range(<<>>) = {}
    BY DEF Range
  <2>4. /\ HeldByReader' = HeldByReader /\ InResults' = InResults
        /\ Tallied' = Tallied /\ HeldByWorker'[w] = H /\ AtWorker'[w] = AtWorker[w] \cup H
        /\ InChannel = InChannel' \cup H
        /\ \A v \in Workers \ {w} : /\ HeldByWorker'[v] = HeldByWorker[v]
                                     /\ AtWorker'[v] = AtWorker[v]
    BY <1>8, <2>1, <2>2, <2>3 DEF Receive, InChannel, InResults, HeldByReader,
       HeldByWorker, Tallied, AtWorker
  <2>5. Disjoint(InChannel', H)
    <3>1. ASSUME NEW b \in Range(batches')  PROVE Disjoint(Range(b), H)
      <4>1. PICK i \in DOMAIN batches' : b = batches'[i]
        BY DEF Range
      <4>2. i + 1 # 1
        BY <2>2
      <4>3. QED  BY <2>2, <4>1, <4>2 DEF Rows, NoRowTwice
    <3>2. QED  BY <2>4, <3>1 DEF InChannel, Disjoint
  <2>6. NoRowLost'
    <3>1. AtWorkers' = AtWorkers \cup H
      BY <2>4, AtWorkersDef
    <3>2. QED  BY <2>1, <2>4, <3>1 DEF Rows, NoRowLost
  <2>7. /\ \A i \in DOMAIN batches' : NoRepeats(batches'[i])
        /\ \A i, j \in DOMAIN batches' : i # j => Disjoint(Range(batches'[i]), Range(batches'[j]))
    <3>1. ASSUME NEW i \in DOMAIN batches', NEW j \in DOMAIN batches', i # j
          PROVE  i + 1 # j + 1
      BY <2>2, <3>1
    <3>2. QED  BY <2>2, <3>1 DEF Rows, NoRowTwice
  <2>8. \A v \in Workers : NoRepeats(pending'[v])
    BY <2>1, <2>2 DEF Rows, NoRowTwice
  <2>9. NoRowTwice'
    <3>1. ASSUME NEW v \in Workers
          PROVE  /\ Disjoint(HeldByReader \cup InChannel, AtWorker[v])'
                 /\ Disjoint(HeldByWorker[v], Tallied[v])'
                 /\ Disjoint(AtWorker[v], InResults \cup merged)'
      <4>1. /\ Disjoint(HeldByReader \cup InChannel, AtWorker[v])
            /\ Disjoint(HeldByWorker[v], Tallied[v])
            /\ Disjoint(AtWorker[v], InResults \cup merged)
            /\ Disjoint(HeldByReader, InChannel)
            /\ Disjoint(HeldByReader \cup InChannel, InResults \cup merged)
            /\ Tallied[v] \subseteq AtWorker[v]
        BY DEF Rows, NoRowTwice, AtWorker
      <4>2. CASE v = w
        BY <2>1, <2>4, <2>5, <4>1, <4>2 DEF Disjoint
      <4>3. CASE v # w
        BY <2>1, <2>4, <4>1, <4>3 DEF Disjoint
      <4>4. QED  BY <4>2, <4>3
    <3>2. ASSUME NEW u \in Workers, NEW v \in Workers, u # v
          PROVE  Disjoint(AtWorker[u], AtWorker[v])'
      BY <2>4, <3>2 DEF Rows, NoRowTwice, Disjoint
    <3>3. /\ Disjoint(HeldByReader, InChannel)' /\ Disjoint(InResults, merged)'
          /\ Disjoint(HeldByReader \cup InChannel, InResults \cup merged)'
      BY <2>1, <2>4 DEF Rows, NoRowTwice, Disjoint
    <3>4. QED  BY <2>1, <2>7, <2>8, <3>1, <3>2, <3>3 DEF Rows, NoRowTwice
  <2>10. QED  BY <2>6, <2>9 DEF Rows
<1>9. ASSUME NEW w \in Workers, ProcessRecord(w)  PROVE Rows'
  <2> DEFINE n == Head(pending[w])
  <2>1. /\ pending[w] \in Batch /\ pending[w] # <<>> /\ worker[w] = "range"
        /\ pending' = [pending EXCEPT ![w] = Tail(pending[w])] /\ DOMAIN pending = Workers
        /\ result'[w].rows = result[w].rows \cup {n}
        /\ \A v \in Workers : v # w => result'[v] = result[v]
        /\ readRows' = readRows /\ currentBatch' = currentBatch /\ worker' = worker
        /\ batches' = batches /\ results' = results /\ merged' = merged
    BY <1>0, <1>9 DEF ProcessRecord, readerVars, mergeVars, TypeOK
  <2>2. /\ Range(pending[w]) = {n} \cup Range(pending'[w]) /\ n \notin Range(pending'[w])
        /\ NoRepeats(pending'[w])
    BY <2>1, RangeTail, NoRepeatsTail DEF Batch, Rows, NoRowTwice
  <2>3. /\ HeldByReader' = HeldByReader /\ InChannel' = InChannel /\ InResults' = InResults
        /\ HeldByWorker[w] = HeldByWorker'[w] \cup {n} /\ n \notin HeldByWorker'[w]
        /\ Tallied'[w] = Tallied[w] \cup {n} /\ AtWorker' = AtWorker
        /\ \A v \in Workers \ {w} : /\ HeldByWorker'[v] = HeldByWorker[v]
                                     /\ Tallied'[v] = Tallied[v]
    BY <1>9, <2>1, <2>2 DEF ProcessRecord, HeldByReader, InChannel, InResults,
       HeldByWorker, Tallied, AtWorker
  <2>4. NoRowLost'
    <3>1. AtWorkers' = AtWorkers
      BY <2>3, AtWorkersDef
    <3>2. QED  BY <2>1, <2>3, <3>1 DEF Rows, NoRowLost
  <2>5. \A v \in Workers : NoRepeats(pending'[v])
    BY <2>1, <2>2 DEF Rows, NoRowTwice
  <2>6. NoRowTwice'
    <3>1. ASSUME NEW v \in Workers
          PROVE  /\ Disjoint(HeldByReader \cup InChannel, AtWorker[v])'
                 /\ Disjoint(HeldByWorker[v], Tallied[v])'
                 /\ Disjoint(AtWorker[v], InResults \cup merged)'
      BY <2>1, <2>3 DEF Rows, NoRowTwice, Disjoint
    <3>2. ASSUME NEW u \in Workers, NEW v \in Workers, u # v
          PROVE  Disjoint(AtWorker[u], AtWorker[v])'
      BY <2>3, <3>2 DEF Rows, NoRowTwice, Disjoint
    <3>3. QED  BY <2>1, <2>3, <2>5, <3>1, <3>2 DEF Rows, NoRowTwice
  <2>7. QED  BY <2>4, <2>6 DEF Rows
<1>10. ASSUME NEW w \in Workers, SendResult(w)  PROVE Rows'
  <2>1. /\ worker[w] = "send" /\ worker' = [worker EXCEPT ![w] = "sent"]
        /\ DOMAIN worker = Workers /\ pending[w] = <<>> /\ Range(<<>>) = {}
        /\ results' = Append(results, result[w]) /\ result' = result /\ pending' = pending
        /\ readRows' = readRows /\ currentBatch' = currentBatch
        /\ batches' = batches /\ merged' = merged
    BY <1>0, <1>10 DEF SendResult, readerVars, TypeOK, Phases, Range
  <2>2. /\ Range(results') = Range(results) \cup {result[w]}
        /\ DOMAIN results' = DOMAIN results \cup {Len(results) + 1}
        /\ Len(results) + 1 \notin DOMAIN results
        /\ \A i \in DOMAIN results : results'[i] = results[i]
        /\ results'[Len(results) + 1] = result[w]
    BY <1>0, <2>1, RangeAppend DEF TypeOK
  <2>3. /\ HeldByReader' = HeldByReader /\ InChannel' = InChannel
        /\ HeldByWorker' = HeldByWorker /\ Tallied'[w] = {}
        /\ AtWorker[w] = result[w].rows /\ AtWorker'[w] = {}
        /\ InResults' = InResults \cup AtWorker[w]
        /\ \A v \in Workers \ {w} : /\ Tallied'[v] = Tallied[v]
                                     /\ AtWorker'[v] = AtWorker[v]
    BY <1>10, <2>1, <2>2 DEF SendResult, HeldByReader, InChannel, InResults,
       HeldByWorker, Tallied, AtWorker
  <2>4. NoRowLost'
    <3>1. AtWorkers = AtWorkers' \cup AtWorker[w]
      BY <2>3, AtWorkersDef
    <3>2. QED  BY <2>1, <2>3, <3>1 DEF Rows, NoRowLost
  <2>5. \A i \in DOMAIN results : Disjoint(results[i].rows, AtWorker[w])
    BY DEF Rows, NoRowTwice, Disjoint, InResults, Range
  <2>6. \A i, j \in DOMAIN results' : i # j => Disjoint(results'[i].rows, results'[j].rows)
    BY <2>2, <2>3, <2>5 DEF Rows, NoRowTwice, Disjoint
  <2>7. NoRowTwice'
    <3>1. ASSUME NEW v \in Workers
          PROVE  /\ Disjoint(HeldByReader \cup InChannel, AtWorker[v])'
                 /\ Disjoint(HeldByWorker[v], Tallied[v])'
                 /\ Disjoint(AtWorker[v], InResults \cup merged)'
      BY <2>1, <2>3 DEF Rows, NoRowTwice, Disjoint
    <3>2. ASSUME NEW u \in Workers, NEW v \in Workers, u # v
          PROVE  Disjoint(AtWorker[u], AtWorker[v])'
      BY <2>3, <3>2 DEF Rows, NoRowTwice, Disjoint
    <3>3. /\ Disjoint(InResults, merged)'
          /\ Disjoint(HeldByReader \cup InChannel, InResults \cup merged)'
      BY <2>1, <2>3 DEF Rows, NoRowTwice, Disjoint
    <3>4. QED  BY <2>1, <2>3, <2>6, <3>1, <3>2, <3>3 DEF Rows, NoRowTwice
  <2>8. QED  BY <2>4, <2>7 DEF Rows
<1>11. CASE MergeResult
  <2>1. /\ results # <<>> /\ results' = Tail(results)
        /\ merged' = merged \cup Head(results).rows /\ pending' = pending
        /\ readRows' = readRows /\ currentBatch' = currentBatch /\ batches' = batches
    BY <1>11 DEF MergeResult, readerVars
  <2>2. /\ Range(results) = {Head(results)} \cup Range(results')
        /\ \A i \in DOMAIN results' : i + 1 \in DOMAIN results /\ results'[i] = results[i + 1]
        /\ Head(results) = results[1] /\ 1 \in DOMAIN results
        /\ DOMAIN results' \subseteq Nat \ {0}
    BY <1>0, <2>1, RangeTail DEF TypeOK
  <2>3. /\ HeldByReader' = HeldByReader /\ InChannel' = InChannel
        /\ InResults = InResults' \cup Head(results).rows
        /\ HeldByWorker' = HeldByWorker /\ Tallied' = Tallied /\ AtWorker' = AtWorker
    BY <1>11, <2>1, <2>2 DEF MergeResult, HeldByReader, InChannel, InResults,
       HeldByWorker, Tallied, AtWorker
  <2>4. NoRowLost'
    BY <2>1, <2>3, AtWorkersDef DEF Rows, NoRowLost
  <2>5. Disjoint(InResults', Head(results).rows)
    <3>1. ASSUME NEW r \in Range(results')  PROVE Disjoint(r.rows, Head(results).rows)
      <4>1. PICK i \in DOMAIN results' : r = results'[i]
        BY DEF Range
      <4>2. i + 1 # 1
        BY <2>2
      <4>3. QED  BY <2>2, <4>1, <4>2 DEF Rows, NoRowTwice
    <3>2. QED  BY <3>1 DEF InResults, Disjoint
  <2>6. \A i, j \in DOMAIN results' : i # j => Disjoint(results'[i].rows, results'[j].rows)
    <3>1. ASSUME NEW i \in DOMAIN results', NEW j \in DOMAIN results', i # j
          PROVE  i + 1 # j + 1
      BY <2>2, <3>1
    <3>2. QED  BY <2>2, <3>1 DEF Rows, NoRowTwice
  <2>7. NoRowTwice'
    BY <2>1, <2>3, <2>5, <2>6 DEF Rows, NoRowTwice, Disjoint
  <2>8. QED  BY <2>4, <2>7 DEF Rows
<1>12. QED
  BY <1>1, <1>2, <1>3, <1>4, <1>5, <1>6, <1>7, <1>8, <1>9, <1>10, <1>11
     DEF Next, Reader, Worker, Terminated

(* The part of the inductive invariant that says where the rows are. *)
LEMMA RowsInvariant == Spec => []Rows
<1>1. QED  BY RowsInit, RowsStep, ControlInvariant, PTL DEF Spec

(* No row is lost between two goroutines. *)
THEOREM EveryRowKept == Spec => []NoRowLost
BY RowsInvariant, PTL DEF Rows

(* No row is in two places, and so none is counted twice. *)
THEOREM EveryRowOnce == Spec => []NoRowTwice
BY RowsInvariant, PTL DEF Rows

----------------------------------------------------------------------------
(* A tally counts the rows it stands for.                                  *)

Hits(R, c) == {n \in R : c \in Increments(RowAt(n))}

StandsFor(r) == /\ IsFiniteSet(r.rows)
                /\ \A c \in Counter : r.tally[c] = Cardinality(Hits(r.rows, c))

Books == [tally |-> stats, rows |-> merged]

Tallies == /\ \A w \in Workers : StandsFor(result[w])
           /\ \A r \in Range(results) : StandsFor(r)
           /\ StandsFor(Books)

(* The new WorkerResult stands for no row. *)
LEMMA EmptyStands == StandsFor([tally |-> EmptyTally, rows |-> {}])
<1>1. \A c : Hits({}, c) = {}
  BY DEF Hits
<1>2. QED  BY <1>1, FS_EmptySet DEF StandsFor, EmptyTally

(* A record that was not in a tally adds itself, and only itself. *)
LEMMA RecordStands ==
  ASSUME NEW r \in WorkerResult, StandsFor(r), NEW n, n \notin r.rows
  PROVE  StandsFor([tally |-> AddRecord(r.tally, RowAt(n)), rows |-> r.rows \cup {n}])
<1> DEFINE R == r.rows \cup {n}
           t == AddRecord(r.tally, RowAt(n))
<1>1. IsFiniteSet(R)
  BY FS_AddElement DEF StandsFor
<1>2. ASSUME NEW c \in Counter  PROVE t[c] = Cardinality(Hits(R, c))
  <2>1. /\ IsFiniteSet(Hits(r.rows, c)) /\ n \notin Hits(r.rows, c)
        /\ r.tally[c] = Cardinality(Hits(r.rows, c))
    BY FS_Subset DEF StandsFor, Hits
  <2>2. CASE c \in Increments(RowAt(n))
    <3>1. Hits(R, c) = Hits(r.rows, c) \cup {n}
      BY <2>2 DEF Hits
    <3>2. QED  BY <2>1, <2>2, <3>1, FS_AddElement DEF AddRecord
  <2>3. CASE c \notin Increments(RowAt(n))
    <3>1. Hits(R, c) = Hits(r.rows, c)
      BY <2>3 DEF Hits
    <3>2. QED  BY <2>1, <2>3, <3>1 DEF AddRecord
  <2>4. QED  BY <2>2, <2>3
<1>3. QED  BY <1>1, <1>2 DEF StandsFor

(* The sum of two tallies of different rows stands for both sets of rows. *)
LEMMA MergeStands ==
  ASSUME NEW r \in WorkerResult, NEW q \in WorkerResult,
         StandsFor(r), StandsFor(q), Disjoint(r.rows, q.rows)
  PROVE  StandsFor([tally |-> MergeTally(q.tally, r.tally), rows |-> q.rows \cup r.rows])
<1> DEFINE R == q.rows \cup r.rows
           t == MergeTally(q.tally, r.tally)
<1>1. IsFiniteSet(R)
  BY FS_Union DEF StandsFor
<1>2. ASSUME NEW c \in Counter  PROVE t[c] = Cardinality(Hits(R, c))
  <2>1. /\ IsFiniteSet(Hits(r.rows, c)) /\ r.tally[c] = Cardinality(Hits(r.rows, c))
        /\ IsFiniteSet(Hits(q.rows, c)) /\ q.tally[c] = Cardinality(Hits(q.rows, c))
    BY FS_Subset DEF StandsFor, Hits
  <2>2. /\ Hits(R, c) = Hits(q.rows, c) \cup Hits(r.rows, c)
        /\ Hits(q.rows, c) \cap Hits(r.rows, c) = {}
    BY DEF Hits, Disjoint
  <2>3. Cardinality(Hits(R, c)) = Cardinality(Hits(q.rows, c)) + Cardinality(Hits(r.rows, c))
    <3>1. Cardinality(Hits(q.rows, c) \cup Hits(r.rows, c)) =
            Cardinality(Hits(q.rows, c)) + Cardinality(Hits(r.rows, c)) - Cardinality({})
      BY <2>1, <2>2, FS_Union
    <3>2. /\ Cardinality(Hits(q.rows, c)) \in Nat /\ Cardinality(Hits(r.rows, c)) \in Nat
          /\ Cardinality({}) = 0
      BY <2>1, FS_CardinalityType, FS_EmptySet
    <3>3. Cardinality(Hits(R, c)) = Cardinality(Hits(q.rows, c) \cup Hits(r.rows, c))
      BY <2>2
    <3> HIDE DEF R
    <3>4. QED  BY <3>1, <3>2, <3>3
  <2>4. QED  BY <2>1, <2>3 DEF MergeTally
<1>3. QED  BY <1>1, <1>2 DEF StandsFor

(* No step changes what the loader was called with. *)
LEMMA InputFixed == [Next]_vars => input' = input
  BY DEF Next, Reader, Worker, Terminated, vars, readerVars, Start, FailToOpen,
     ReadRecord, ReadEOF, SendBatch, FlushBatch, CloseBatches, CloseResults,
     MergeResult, Return, Receive, ProcessRecord, EndOfBatches, SendResult, WgDone

(* Every tally goes on counting exactly the rows it stands for. *)
LEMMA TalliesStep == Control /\ Rows /\ Tallies /\ [Next]_vars => Tallies'
<1> SUFFICES ASSUME Control, Rows, Tallies, [Next]_vars  PROVE Tallies'
  OBVIOUS
<1>1. TypeOK /\ Phases
  BY DEF Control, Counted
<1>2. ASSUME NEW r, StandsFor(r)  PROVE StandsFor(r)'
  BY <1>2, InputFixed DEF StandsFor, Hits, RowAt
<1>3. CASE UNCHANGED <<result, results, stats, merged>>
  BY <1>2, <1>3 DEF Tallies, Books
<1>4. ASSUME NEW w \in Workers, ProcessRecord(w)  PROVE Tallies'
  <2> DEFINE n == Head(pending[w])
             new == [tally |-> AddRecord(result[w].tally, RowAt(n)),
                     rows  |-> result[w].rows \cup {n}]
  <2>1. n \notin result[w].rows
    <3>1. n \in HeldByWorker[w]
      BY <1>1, <1>4, RangeTail DEF ProcessRecord, TypeOK, Batch, HeldByWorker
    <3>2. Tallied[w] = result[w].rows
      BY <1>4 DEF ProcessRecord, Tallied
    <3>3. QED  BY <3>1, <3>2 DEF Rows, NoRowTwice, Disjoint
  <2>2. StandsFor(new)
    BY <1>1, <2>1, RecordStands DEF Tallies, TypeOK
  <2>3. result' = [result EXCEPT ![w] = new] /\ UNCHANGED <<results, stats, merged>>
    BY <1>4 DEF ProcessRecord, mergeVars
  <2>4. \A v \in Workers : StandsFor(result'[v])
    BY <1>1, <2>2, <2>3 DEF TypeOK, Tallies
  <2>5. QED  BY <1>2, <2>3, <2>4 DEF Tallies, Books
<1>5. ASSUME NEW w \in Workers, SendResult(w)  PROVE Tallies'
  <2>1. /\ Range(results') = Range(results) \cup {result[w]}
        /\ UNCHANGED <<result, stats, merged>>
    BY <1>1, <1>5, RangeAppend DEF SendResult, TypeOK
  <2>2. QED  BY <1>2, <2>1 DEF Tallies, Books
<1>6. CASE MergeResult
  <2> DEFINE r == Head(results)
  <2>1. /\ r \in WorkerResult /\ Books \in WorkerResult
        /\ Range(results) = {r} \cup Range(results')
        /\ stats' = MergeTally(stats, r.tally) /\ merged' = merged \cup r.rows
        /\ result' = result
    BY <1>1, <1>6, RangeTail DEF MergeResult, TypeOK, WorkerResult, Books
  <2>2. Disjoint(r.rows, merged)
    BY <2>1 DEF Rows, NoRowTwice, InResults, Disjoint
  <2>3. StandsFor([tally |-> MergeTally(Books.tally, r.tally),
                   rows |-> Books.rows \cup r.rows])
    BY <2>1, <2>2, MergeStands DEF Tallies, Books
  <2>4. QED  BY <1>2, <2>1, <2>3 DEF Tallies, Books
<1>7. QED
  BY <1>3, <1>4, <1>5, <1>6
     DEF Next, Reader, Worker, Terminated, vars, mergeVars, Start, FailToOpen,
         ReadRecord, ReadEOF, SendBatch, FlushBatch, CloseBatches, CloseResults,
         Return, Receive, EndOfBatches, WgDone

IInv == Control /\ Rows /\ Tallies

(* The inductive invariant of the loader. *)
LEMMA InductiveInvariant == Spec => []IInv
<1>1. Init => Tallies
  <2> SUFFICES ASSUME Init  PROVE Tallies
    OBVIOUS
  <2>1. Range(results) = {}
    BY DEF Init, Range
  <2>2. QED
    BY <2>1, EmptyStands DEF Init, Tallies, Books, NewWorkerResult
<1>2. QED
  BY <1>1, TalliesStep, ControlInvariant, RowsInvariant, PTL DEF Spec, IInv

----------------------------------------------------------------------------
(* The loader implements one sequential pass over the rows.                *)

(* When the loader returns, everything it read has been merged. *)
LEMMA AllMerged ==
  ASSUME IInv, pc = "merge", results = <<>>
  PROVE  merged = 1 .. readRows
<1>1. /\ \A w \in Workers : worker[w] = "exited" /\ pending[w] = <<>> /\ batches = <<>>
      /\ Range(<<>>) = {}
  BY DEF IInv, Control, Phases, Range
<1>2. batches = <<>>
  BY <1>1, LoaderAssumption
<1>3. HeldByReader = {} /\ InChannel = {} /\ InResults = {}
  BY <1>1, <1>2 DEF HeldByReader, InChannel, InResults
<1>4. AtWorkers = {}
  BY <1>1 DEF AtWorkers, AtWorker, HeldByWorker, Tallied
<1>5. QED  BY <1>3, <1>4 DEF IInv, Rows, NoRowLost

(* The return hands out the books of the sequential pass. *)
LEMMA ReturnIsLoad ==
  ASSUME IInv, Return
  PROVE  /\ readRows = Sequential!RowsToRead
         /\ stats = Sequential!SequentialBooks
         /\ input.headerOk
<1>1. merged = 1 .. readRows
  BY AllMerged DEF Return
<1>2. /\ Control /\ TypeOK /\ Progress /\ pc = "merge"
  BY DEF IInv, Control, Counted, Return
<1>3. readRows = Sequential!RowsToRead
  BY <1>2, InputType DEF Progress, Sequential!RowsToRead, TypeOK
<1>4. ASSUME NEW c \in Counter
      PROVE  stats[c] = Cardinality({n \in 1 .. Sequential!RowsToRead :
                                       c \in Increments(Sequential!Record(n))})
  BY <1>1, <1>3 DEF IInv, Tallies, StandsFor, Books, Hits, RowAt, Sequential!Record
<1>5. stats \in [Counter -> Nat]
  BY <1>2 DEF TypeOK
<1>6. stats = Sequential!SequentialBooks
  <2> DEFINE N(c) == Cardinality({n \in 1 .. Sequential!RowsToRead :
                                    c \in Increments(Sequential!Record(n))})
  <2>1. Sequential!SequentialBooks = [c \in Counter |-> N(c)]
    <3>1. \A S : Sequential!Cardinality(S) = Cardinality(S)
      BY DEF Sequential!Cardinality, Cardinality
    <3>2. QED  BY <3>1 DEF Sequential!SequentialBooks
  <2>2. \A c \in Counter : stats[c] = N(c)
    BY <1>4
  <2> HIDE DEF N
  <2>3. QED  BY <1>5, <2>1, <2>2
<1>7. QED  BY <1>2, <1>3, <1>6 DEF Progress

(* Whatever the interleaving of the reader and the workers, the loader     *)
(* answers once, and its answer is the books of a sequential pass over     *)
(* exactly the rows the file and the limit allow. *)
THEOREM LoaderIsSequential == Spec => ImplementsSequential
<1> DEFINE answer == CASE pc = "done" -> "ok" [] pc = "failed" -> "error" [] OTHER -> "none"
           books == IF pc = "done" THEN stats ELSE EmptyTally
<1>1. Init => Sequential!Init
  BY DEF Init, Sequential!Init, EmptyTally
<1>2. IInv /\ [Next]_vars => [Sequential!Next]_<<input, answer, books>>
  <2> SUFFICES ASSUME IInv, [Next]_vars
               PROVE  [Sequential!Next]_<<input, answer, books>>
    OBVIOUS
  <2>1. input' = input
    BY InputFixed
  <2>2. CASE Return
    <3>1. pc = "merge" /\ pc' = "done" /\ stats' = stats
      BY <2>2 DEF Return, mergeVars
    <3>2. QED
      BY <2>1, <2>2, <3>1, ReturnIsLoad DEF Sequential!Next, Sequential!Load
  <2>3. CASE FailToOpen
    BY <2>1, <2>3 DEF FailToOpen, Sequential!Next, Sequential!Fail
  <2>4. CASE UNCHANGED vars
    BY <2>4 DEF vars
  <2>5. CASE MergeResult
    BY <2>1, <2>5 DEF MergeResult
  <2>6. CASE \/ Start \/ ReadRecord \/ ReadEOF \/ SendBatch \/ FlushBatch
             \/ CloseBatches \/ CloseResults
    <3>1. pc \notin {"done", "failed"} /\ pc' \notin {"done", "failed"}
      BY <2>6 DEF Start, ReadRecord, ReadEOF, SendBatch, FlushBatch, CloseBatches,
         CloseResults, AfterRow
    <3>2. QED  BY <2>1, <3>1
  <2>7. ASSUME NEW w \in Workers, Worker(w)
        PROVE  UNCHANGED <<input, answer, books>>
    <3>1. pc' = pc /\ stats' = stats
      BY <2>7 DEF Worker, Receive, ProcessRecord, EndOfBatches, SendResult, WgDone,
         mergeVars
    <3>2. QED  BY <2>1, <3>1
  <2>8. QED
    BY <2>2, <2>3, <2>4, <2>5, <2>6, <2>7 DEF Next, Reader, Terminated
<1>3. QED
  BY <1>1, <1>2, InductiveInvariant, PTL DEF Spec, ImplementsSequential, Sequential!Spec

----------------------------------------------------------------------------
(* The memory that the loader holds.                                       *)

(* No batch grows beyond its size, and no channel beyond its capacity. *)
Sizes == /\ Len(currentBatch) <= BatchSize
         /\ pc = "read" => Len(currentBatch) < BatchSize
         /\ Len(batches) <= BatchesCap
         /\ \A i \in DOMAIN batches : Len(batches[i]) <= BatchSize
         /\ \A w \in Workers : Len(pending[w]) <= BatchSize

(* A batch is sent as soon as it is full, and one that is sent is replaced. *)
LEMMA SizesStep == Control /\ Sizes /\ [Next]_vars => Sizes'
<1> SUFFICES ASSUME Control, Sizes, [Next]_vars  PROVE Sizes'
  OBVIOUS
<1>1. TypeOK /\ Phases /\ BatchSize \in Nat \ {0}
  BY LoaderAssumption DEF Control, Counted
<1>2. BatchesCap \in Nat /\ BatchesCap' = BatchesCap
  BY LoaderAssumption, FS_CardinalityType DEF BatchesCap
<1>3. /\ batches \in Seq(Batch) /\ DOMAIN batches = 1 .. Len(batches) /\ Len(batches) \in Nat
      /\ \A b \in Batch : Len(b) \in Nat
  BY <1>1 DEF TypeOK, Batch
<1>4. CASE ReadRecord
  <2>1. Len(currentBatch') = Len(currentBatch) + 1
    BY <1>1, <1>4 DEF ReadRecord, TypeOK, Batch
  <2>2. Len(currentBatch) \in Nat
    BY <1>1 DEF TypeOK, Batch
  <2>3. QED  BY <1>1, <1>2, <1>4, <2>1, <2>2 DEF ReadRecord, Sizes
<1>5. CASE SendBatch \/ FlushBatch
  <2>1. currentBatch \in Batch /\ batches' = Append(batches, currentBatch)
    BY <1>1, <1>5 DEF SendBatch, FlushBatch, TypeOK
  <2>2. /\ Len(batches') = Len(batches) + 1 /\ DOMAIN batches' = 1 .. Len(batches) + 1
        /\ \A i \in 1 .. Len(batches) : batches'[i] = batches[i]
        /\ batches'[Len(batches) + 1] = currentBatch
    BY <1>3, <2>1
  <2>3. Len(batches') <= BatchesCap
    BY <1>2, <1>3, <1>5, <2>2 DEF SendBatch, FlushBatch
  <2>4. \A i \in DOMAIN batches' : Len(batches'[i]) <= BatchSize
    <3>1. TAKE i \in DOMAIN batches'
    <3>2. i \in 1 .. Len(batches) \/ i = Len(batches) + 1
      BY <1>3, <2>2
    <3>3. QED  BY <1>3, <2>2, <3>2 DEF Sizes
  <2>5. Len(currentBatch') <= BatchSize /\ (pc' = "read" => Len(currentBatch') < BatchSize)
    BY <1>1, <1>5 DEF SendBatch, FlushBatch, readerVars, Sizes
  <2>6. pending' = pending
    BY <1>5 DEF SendBatch, FlushBatch
  <2>7. QED  BY <1>2, <2>3, <2>4, <2>5, <2>6 DEF Sizes
<1>6. ASSUME NEW w \in Workers, Receive(w)  PROVE Sizes'
  <2>1. /\ Head(batches) = batches[1] /\ Len(batches') = Len(batches) - 1 /\ 1 \in DOMAIN batches
        /\ DOMAIN batches' = 1 .. Len(batches) - 1
        /\ \A i \in 1 .. Len(batches) - 1 : batches'[i] = batches[i + 1]
    BY <1>3, <1>6 DEF Receive
  <2>2. pending' = [pending EXCEPT ![w] = batches[1]]
    BY <1>6, <2>1 DEF Receive
  <2>3. \A v \in Workers : Len(pending'[v]) <= BatchSize
    BY <1>1, <2>1, <2>2 DEF Sizes, TypeOK
  <2>4. \A i \in DOMAIN batches' : Len(batches'[i]) <= BatchSize
    <3>1. TAKE i \in DOMAIN batches'
    <3>2. i + 1 \in DOMAIN batches /\ batches'[i] = batches[i + 1]
      BY <1>3, <2>1
    <3>3. QED  BY <3>2 DEF Sizes
  <2>5. pc' = pc /\ currentBatch' = currentBatch
    BY <1>6 DEF Receive, readerVars
  <2>6. QED  BY <1>2, <1>3, <2>1, <2>3, <2>4, <2>5 DEF Sizes
<1>7. ASSUME NEW w \in Workers, ProcessRecord(w)  PROVE Sizes'
  <2>1. pending[w] \in Seq(Nat \ {0}) /\ pending[w] # <<>>
    BY <1>1, <1>7 DEF ProcessRecord, TypeOK, Batch
  <2>2. Len(Tail(pending[w])) <= BatchSize
    BY <1>1, <2>1 DEF Sizes
  <2>3. \A v \in Workers : Len(pending'[v]) <= BatchSize
    BY <1>1, <1>7, <2>2 DEF ProcessRecord, Sizes, TypeOK
  <2>4. QED  BY <1>2, <1>7, <2>3 DEF ProcessRecord, readerVars, Sizes
<1>8. CASE Start
  BY <1>1, <1>2, <1>8 DEF Start, readerVars, Sizes, Phases
<1>9. CASE \/ FailToOpen \/ ReadEOF \/ CloseBatches \/ CloseResults \/ MergeResult \/ Return
           \/ UNCHANGED vars
  BY <1>2, <1>9 DEF FailToOpen, ReadEOF, CloseBatches, CloseResults, MergeResult, Return,
     vars, readerVars, Sizes
<1>10. ASSUME NEW w \in Workers, EndOfBatches(w) \/ SendResult(w) \/ WgDone(w)  PROVE Sizes'
  BY <1>2, <1>10 DEF EndOfBatches, SendResult, WgDone, readerVars, Sizes
<1>11. QED
  BY <1>4, <1>5, <1>6, <1>7, <1>8, <1>9, <1>10 DEF Next, Reader, Worker, Terminated

(* A set whose elements all are at some place of a table is no larger than *)
(* the table. *)
LEMMA FitsTable ==
  ASSUME NEW I, IsFiniteSet(I), NEW J, IsFiniteSet(J), NEW S, NEW at,
         \A n \in S : \E p \in I \X J : at[p] = n
  PROVE  /\ IsFiniteSet(S) /\ Cardinality(S) \in Nat
         /\ Cardinality(I) \in Nat /\ Cardinality(J) \in Nat
         /\ Cardinality(S) <= Cardinality(I) * Cardinality(J)
<1> DEFINE P == I \X J
<1>1. IsFiniteSet(P) /\ Cardinality(P) = Cardinality(I) * Cardinality(J)
  BY FS_Product
<1>2. \A n \in S : \E p \in P : at[p] = n
  OBVIOUS
<1> HIDE DEF P
<1> DEFINE f == [p \in P |-> at[p]]
           R == {at[p] : p \in P}
<1>3. S \subseteq R
  BY <1>2
<1>4. f \in Surjection(P, R)
  BY DEF Surjection
<1> HIDE DEF R, f
<1>5. IsFiniteSet(R) /\ Cardinality(R) <= Cardinality(P)
  BY <1>1, <1>4, FS_Surjection
<1>6. IsFiniteSet(S) /\ Cardinality(S) <= Cardinality(R)
  BY <1>3, <1>5, FS_Subset
<1>7. /\ Cardinality(S) \in Nat /\ Cardinality(R) \in Nat
      /\ Cardinality(I) \in Nat /\ Cardinality(J) \in Nat
  BY <1>5, <1>6, FS_CardinalityType
<1>8. QED  BY <1>1, <1>5, <1>6, <1>7

(* The places of a batch or of a channel. *)
LEMMA Places ==
  ASSUME NEW n \in Nat
  PROVE  IsFiniteSet(1 .. n) /\ Cardinality(1 .. n) = n
BY FS_Interval

(* A sequence has no more values than places. *)
LEMMA RangeFits ==
  ASSUME NEW s \in Batch, Len(s) <= BatchSize
  PROVE  /\ Cardinality(Range(s)) \in Nat /\ Cardinality(Range(s)) <= BatchSize
<1>1. s \in Surjection(1 .. Len(s), Range(s)) /\ Len(s) \in Nat
  BY DEF Batch, Surjection, Range
<1>2. IsFiniteSet(1 .. Len(s)) /\ Cardinality(1 .. Len(s)) = Len(s)
  BY <1>1, FS_Interval
<1>3. IsFiniteSet(Range(s)) /\ Cardinality(Range(s)) <= Len(s)
  BY <1>1, <1>2, FS_Surjection
<1>4. Cardinality(Range(s)) \in Nat
  BY <1>3, FS_CardinalityType
<1>5. QED  BY <1>1, <1>3, <1>4, LoaderAssumption

(* However large the file, the loader holds as many unaggregated rows as   *)
(* its batches may have: the reader's, those of the channel, one of every  *)
(* worker. *)
THEOREM MemoryIsBounded == Spec => []BoundedMemory
<1>1. Init => Sizes
  <2> SUFFICES ASSUME Init  PROVE Sizes
    OBVIOUS
  <2>1. Cardinality(Workers) \in Nat
    BY LoaderAssumption, FS_CardinalityType
  <2>2. QED  BY <2>1, LoaderAssumption DEF Init, Sizes, BatchesCap
<1>2. ASSUME Control, Sizes
      PROVE  BoundedMemory
  <2> DEFINE W == Cardinality(Workers)
             B == BatchSize
             InHands == UNION {HeldByWorker[w] : w \in Workers}
  <2>1. W \in Nat /\ B \in Nat \ {0} /\ BatchesCap = 2 * W /\ IsFiniteSet(Workers)
    BY LoaderAssumption, FS_CardinalityType DEF BatchesCap
  <2>2. TypeOK
    BY <1>2 DEF Control, Counted
  <2>3. IsFiniteSet(1 .. B) /\ Cardinality(1 .. B) = B
    BY <2>1, Places
  <2>4. Cardinality(HeldByReader) \in Nat /\ Cardinality(HeldByReader) <= B
    <3>1. Cardinality(Range(currentBatch)) \in Nat /\ Cardinality(Range(currentBatch)) <= B
      BY <1>2, <2>2, RangeFits DEF Sizes, TypeOK
    <3>2. Cardinality({}) = 0
      BY FS_EmptySet
    <3>3. QED  BY <2>1, <3>1, <3>2 DEF HeldByReader
  <2>5. Cardinality(InChannel) \in Nat /\ Cardinality(InChannel) <= BatchesCap * B
    <3> DEFINE at == [p \in (1 .. BatchesCap) \X (1 .. B) |->
                        IF p[1] \in DOMAIN batches THEN batches[p[1]][p[2]] ELSE 0]
    <3>1. ASSUME NEW n \in InChannel
          PROVE  \E p \in (1 .. BatchesCap) \X (1 .. B) : at[p] = n
      <4>1. PICK i \in DOMAIN batches : n \in Range(batches[i])
        BY DEF InChannel, Range
      <4>2. batches[i] \in Seq(Nat \ {0}) /\ Len(batches[i]) <= B
        BY <1>2, <2>2 DEF Sizes, TypeOK, Batch
      <4>3. PICK j \in 1 .. Len(batches[i]) : batches[i][j] = n
        BY <4>1, <4>2 DEF Range
      <4>4. i \in 1 .. BatchesCap
        BY <1>2, <2>1, <2>2 DEF Sizes, TypeOK
      <4>5. j \in 1 .. B
        BY <2>1, <4>2
      <4>6. at[<<i, j>>] = n
        BY <4>3, <4>4, <4>5
      <4>7. <<i, j>> \in (1 .. BatchesCap) \X (1 .. B)
        BY <4>4, <4>5
      <4>8. QED  BY <4>6, <4>7
    <3>2. IsFiniteSet(1 .. BatchesCap) /\ Cardinality(1 .. BatchesCap) = BatchesCap
      BY <2>1, Places
    <3> HIDE DEF at, B
    <3>3. /\ Cardinality(InChannel) \in Nat
          /\ Cardinality(InChannel) <= Cardinality(1 .. BatchesCap) * Cardinality(1 .. B)
      <4> DEFINE I == 1 .. BatchesCap
                 J == 1 .. B
      <4>1. IsFiniteSet(I) /\ IsFiniteSet(J)
        BY <2>3, <3>2
      <4>2. \A n \in InChannel : \E p \in I \X J : at[p] = n
        BY <3>1
      <4> HIDE DEF I, J
      <4>3. Cardinality(InChannel) \in Nat /\ Cardinality(InChannel) <= Cardinality(I) * Cardinality(J)
        BY <4>1, <4>2, FitsTable
      <4>4. QED  BY <4>3 DEF I, J
    <3>4. QED  BY <2>3, <3>2, <3>3
  <2>6. Cardinality(InHands) \in Nat /\ Cardinality(InHands) <= W * B
    <3> DEFINE at == [p \in Workers \X (1 .. B) |-> pending[p[1]][p[2]]]
    <3>1. ASSUME NEW n \in InHands
          PROVE  \E p \in Workers \X (1 .. B) : at[p] = n
      <4>1. PICK w \in Workers : n \in Range(pending[w])
        BY DEF HeldByWorker
      <4>2. pending[w] \in Seq(Nat \ {0}) /\ Len(pending[w]) <= B
        BY <1>2, <2>2 DEF Sizes, TypeOK, Batch
      <4>3. PICK j \in 1 .. Len(pending[w]) : pending[w][j] = n
        BY <4>1, <4>2 DEF Range
      <4>4. j \in 1 .. B
        BY <2>1, <4>2
      <4>5. <<w, j>> \in Workers \X (1 .. B) /\ at[<<w, j>>] = n
        BY <4>3, <4>4
      <4>6. QED  BY <4>5
    <3> HIDE DEF at, InHands, B
    <3>2. /\ Cardinality(InHands) \in Nat
          /\ Cardinality(InHands) <= Cardinality(Workers) * Cardinality(1 .. B)
      <4> DEFINE J == 1 .. B
      <4>1. IsFiniteSet(Workers) /\ IsFiniteSet(J)
        BY <2>1, <2>3
      <4>2. \A n \in InHands : \E p \in Workers \X J : at[p] = n
        BY <3>1
      <4> HIDE DEF J
      <4>3. Cardinality(InHands) \in Nat /\ Cardinality(InHands) <= Cardinality(Workers) * Cardinality(J)
        BY <4>1, <4>2, FitsTable
      <4>4. QED  BY <4>3 DEF J
    <3>3. QED  BY <2>3, <3>2
  <2> HIDE DEF InHands, W, B
  <2>7. /\ BatchesCap * B = W * B + W * B /\ W * B \in Nat
        /\ B * (1 + 3 * W) = B + W * B + W * B + W * B
    BY <2>1
  <2>8. Cardinality(HeldByReader) + Cardinality(InChannel) + Cardinality(InHands) <= B * (1 + 3 * W)
    BY <2>1, <2>4, <2>5, <2>6, <2>7
  <2>9. QED  BY <2>8 DEF BoundedMemory, InHands, W, B
<1>3. QED
  BY <1>1, <1>2, SizesStep, ControlInvariant, PTL DEF Spec
----------------------------------------------------------------------------
(* The books balance.                                                      *)

(* Two parts of a finite set that do not overlap. *)
LEMMA TwoParts ==
  ASSUME NEW S, NEW A, NEW B, IsFiniteSet(S), S = A \cup B, A \cap B = {}
  PROVE  /\ IsFiniteSet(A) /\ IsFiniteSet(B) /\ Cardinality(A) \in Nat /\ Cardinality(B) \in Nat
         /\ Cardinality(S) = Cardinality(A) + Cardinality(B)
<1>1. IsFiniteSet(A) /\ IsFiniteSet(B)
  BY FS_Subset
<1>2. Cardinality(A) \in Nat /\ Cardinality(B) \in Nat /\ Cardinality({}) = 0
  BY <1>1, FS_CardinalityType, FS_EmptySet
<1>3. Cardinality(A \cup B) = Cardinality(A) + Cardinality(B) - Cardinality(A \cap B)
  BY <1>1, FS_Union
<1>4. Cardinality(A \cup B) = Cardinality(S) /\ Cardinality(A \cap B) = 0
  BY <1>2
<1>5. QED  BY <1>1, <1>2, <1>3, <1>4

(* If f counts, for each k, the elements that g sends to k, then its sum   *)
(* counts all elements. *)
LEMMA SumOfParts ==
  ASSUME NEW T, IsFiniteSet(T), NEW S, NEW g \in [T -> S], NEW f \in [S -> Nat],
         \A k \in S : f[k] = Cardinality({n \in T : g[n] = k})
  PROVE  SumOf(f) = Cardinality(T)
<1> DEFINE Part(k) == {n \in T : g[n] = k}
           D == UNION {{k} \X (1 .. f[k]) : k \in S}
           b == [k \in S |-> CHOOSE h : h \in Bijection(1 .. f[k], Part(k))]
           F == [d \in D |-> b[d[1]][d[2]]]
<1>1. \A k \in S : b[k] \in Bijection(1 .. f[k], Part(k))
  <2>1. TAKE k \in S
  <2>2. IsFiniteSet(Part(k))
    BY FS_Subset
  <2>3. ExistsBijection(1 .. Cardinality(Part(k)), Part(k))
    BY <2>2, FS_CardinalityType
  <2>4. \E h : h \in Bijection(1 .. f[k], Part(k))
    BY <2>3 DEF ExistsBijection
  <2>5. QED  BY <2>4
<1>2. \A k \in S : /\ \A i \in 1 .. f[k] : b[k][i] \in T /\ g[b[k][i]] = k
                   /\ \A i, j \in 1 .. f[k] : b[k][i] = b[k][j] => i = j
                   /\ \A n \in T : g[n] = k => \E i \in 1 .. f[k] : b[k][i] = n
  <2>1. TAKE k \in S
  <2> DEFINE h == b[k]
             P == Part(k)
  <2>2. h \in Bijection(1 .. f[k], P)
    BY <1>1
  <2> HIDE DEF h, P
  <2>3. /\ h \in [1 .. f[k] -> P]
        /\ \A i, j \in 1 .. f[k] : h[i] = h[j] => i = j
        /\ \A n \in P : \E i \in 1 .. f[k] : h[i] = n
    BY <2>2 DEF Bijection, Injection, Surjection, IsInjective
  <2>4. QED  BY <2>3 DEF h, P
<1> HIDE DEF b
<1>3. \A d : d \in D <=> \E k \in S : \E i \in 1 .. f[k] : d = <<k, i>>
  OBVIOUS
<1> HIDE DEF D
<1>4. F \in [D -> T]
  BY <1>2, <1>3
<1>5. ASSUME NEW c \in D, NEW d \in D, F[c] = F[d]
      PROVE  c = d
  <2> PICK k \in S : \E i \in 1 .. f[k] : c = <<k, i>>
    BY <1>3
  <2>1. PICK i \in 1 .. f[k] : c = <<k, i>>
    OBVIOUS
  <2> PICK m \in S : \E j \in 1 .. f[m] : d = <<m, j>>
    BY <1>3
  <2>2. PICK j \in 1 .. f[m] : d = <<m, j>>
    OBVIOUS
  <2>3. b[k][i] = b[m][j]
    BY <1>5, <2>1, <2>2
  <2>4. k = m
    BY <1>2, <2>3
  <2>5. i = j
    BY <1>2, <2>3, <2>4
  <2>6. QED  BY <2>1, <2>2, <2>4, <2>5
<1>6. ASSUME NEW n \in T
      PROVE  \E d \in D : F[d] = n
  <2>1. g[n] \in S
    OBVIOUS
  <2>2. PICK i \in 1 .. f[g[n]] : b[g[n]][i] = n
    BY <1>2, <2>1
  <2>3. <<g[n], i>> \in D
    BY <1>3, <2>1
  <2>4. F[<<g[n], i>>] = n
    BY <2>2, <2>3
  <2>5. QED  BY <2>3, <2>4
<1> HIDE DEF F
<1>7. F \in Injection(D, T)
  BY <1>4, <1>5 DEF Injection, IsInjective
<1>8. F \in Surjection(D, T)
  BY <1>4, <1>6 DEF Surjection
<1>9. Cardinality(D) = Cardinality(T)
  BY <1>7, <1>8, FS_Injection
<1>10. QED  BY <1>9 DEF SumOf, D

IsValid(row) == Parses(row) /\ ~(row.date.year < MinYear)

(* What processRecordIntoAggregation adds for a record, counter by counter. *)
LEMMA WhatARowAdds ==
  ASSUME NEW row
  PROVE  /\ <<"rows", "TotalRows">> \in Increments(row)
         /\ <<"rows", "InvalidRows">> \in Increments(row) <=> ~Parses(row)
         /\ <<"rows", "FilteredRows">> \in Increments(row) <=> Parses(row) /\ ~IsValid(row)
         /\ <<"rows", "ValidRows">> \in Increments(row) <=> IsValid(row)
         /\ <<"rows", "RelevantRows">> \in Increments(row) <=> IsValid(row) /\ Relevant(row.type)
         /\ \A y : <<"year", y>> \in Increments(row) <=> IsValid(row) /\ y = row.date.year /\ y # 0
         /\ \A k, f : <<"cell", k, f>> \in Increments(row)
                        <=> IsValid(row) /\ k = CellOf(row) /\ f \in ValueCounts(row)
<1>1. CASE ~Parses(row)
  <2>1. Increments(row) = {<<"rows", "TotalRows">>, <<"rows", "InvalidRows">>}
    BY <1>1 DEF Increments
  <2>2. QED  BY <1>1, <2>1 DEF IsValid
<1>2. CASE Parses(row) /\ ~IsValid(row)
  <2>1. Increments(row) = {<<"rows", "TotalRows">>, <<"rows", "FilteredRows">>}
    BY <1>2 DEF Increments, IsValid
  <2>2. QED  BY <1>2, <2>1
<1>3. CASE IsValid(row)
  <2>1. Increments(row) = {<<"rows", "TotalRows">>} \cup ValidIncrements(row) /\ Parses(row)
    BY <1>3 DEF Increments, IsValid
  <2>2. QED  BY <1>3, <2>1 DEF ValidIncrements
<1>4. QED  BY <1>1, <1>2, <1>3 DEF IsValid

(* A record is counted once as relevant or other, and in one group. *)
LEMMA OneClass ==
  ASSUME NEW row
  PROVE  /\ "Count" \in ValueCounts(row)
         /\ "RelevantCount" \in ValueCounts(row) <=> Relevant(row.type)
         /\ "OtherCount" \in ValueCounts(row) <=> ~Relevant(row.type)
         /\ "ViolentCount" \in ValueCounts(row) <=> row.type \in Violent
         /\ "PropertyCount" \in ValueCounts(row) <=> row.type \in Property
         /\ "WeaponsCount" \in ValueCounts(row) <=> row.type \in Weapons
         /\ "SevereCount" \in ValueCounts(row) <=> row.type \in Severe
         /\ Relevant(row.type) <=> row.type \in Violent \cup Property \cup Weapons \cup Severe
         /\ Violent \cap Property = {} /\ (Violent \cup Property) \cap Weapons = {}
         /\ (Violent \cup Property \cup Weapons) \cap Severe = {}
<1>1. /\ Violent \cap Property = {} /\ (Violent \cup Property) \cap Weapons = {}
      /\ (Violent \cup Property \cup Weapons) \cap Severe = {}
  BY DEF Violent, Property, Weapons, Severe
<1>2. QED  BY <1>1 DEF ValueCounts, ClassCounts, Relevant

At(t, c) == IF c \in Counter THEN t[c] ELSE 0

(* A tally that stands for rows counts, in every counter, those of them    *)
(* that bump it. *)
LEMMA TallyCounts ==
  ASSUME TypeOK, NEW r \in WorkerResult, StandsFor(r)
  PROVE  /\ IsFiniteSet(r.rows)
         /\ \A n \in r.rows : RowAt(n) \in Row \cup {Unreadable}
         /\ \A c : /\ IsFiniteSet(Hits(r.rows, c))
                   /\ At(r.tally, c) = Cardinality(Hits(r.rows, c))
                   /\ At(r.tally, c) \in Nat
<1>1. IsFiniteSet(r.rows) /\ r.rows \in SUBSET (Nat \ {0})
  BY DEF StandsFor, WorkerResult
<1>2. \A n \in r.rows : RowAt(n) \in Row \cup {Unreadable}
  <2>1. input.file \in Seq(Row \cup {Unreadable})
    BY LoaderAssumption DEF TypeOK
  <2>2. QED  BY <1>1, <2>1 DEF RowAt
<1>3. ASSUME NEW c
      PROVE  /\ IsFiniteSet(Hits(r.rows, c)) /\ At(r.tally, c) \in Nat
             /\ At(r.tally, c) = Cardinality(Hits(r.rows, c))
  <2>1. IsFiniteSet(Hits(r.rows, c))
    BY <1>1, FS_Subset DEF Hits
  <2>2. CASE c \in Counter
    BY <2>1, <2>2, FS_CardinalityType DEF At, StandsFor
  <2>3. CASE c \notin Counter
    <3>1. Hits(r.rows, c) = {}
      BY <1>2, <2>3 DEF Hits, Counter
    <3>2. QED  BY <2>1, <2>3, <3>1, FS_EmptySet DEF At
  <2>4. QED  BY <2>2, <2>3
<1>4. QED  BY <1>1, <1>2, <1>3

(* Such a tally balances. *)
LEMMA TallyBalances ==
  ASSUME TypeOK, NEW r \in WorkerResult, StandsFor(r)
  PROVE  Balanced(r.tally)
<1> DEFINE R == r.rows
           N(c) == At(r.tally, c)
           H(c) == Hits(R, c)
           Value(k, f) == N(<<"cell", k, f>>)
           V == {n \in R : IsValid(RowAt(n))}
           Rel == {n \in V : Relevant(RowAt(n).type)}
           Years == {row.date.year : row \in {q \in Row : Parses(q)}}
<1>1. /\ IsFiniteSet(R) /\ \A n \in R : RowAt(n) \in Row \cup {Unreadable}
      /\ \A c : IsFiniteSet(H(c)) /\ N(c) = Cardinality(H(c)) /\ N(c) \in Nat
  BY TallyCounts
<1>2. /\ H(<<"rows", "TotalRows">>) = R
      /\ H(<<"rows", "InvalidRows">>) = {n \in R : ~Parses(RowAt(n))}
      /\ H(<<"rows", "FilteredRows">>) = {n \in R : Parses(RowAt(n)) /\ ~IsValid(RowAt(n))}
      /\ H(<<"rows", "ValidRows">>) = V
      /\ H(<<"rows", "RelevantRows">>) = Rel
      /\ \A y : H(<<"year", y>>) = {n \in V : y = RowAt(n).date.year /\ y # 0}
      /\ \A k, f : H(<<"cell", k, f>>) = {n \in V : k = CellOf(RowAt(n)) /\ f \in ValueCounts(RowAt(n))}
  BY WhatARowAdds DEF Hits
<1> HIDE DEF N, H
<1>3. \A k : /\ H(<<"cell", k, "Count">>) = {n \in V : CellOf(RowAt(n)) = k}
             /\ H(<<"cell", k, "RelevantCount">>) = {n \in Rel : CellOf(RowAt(n)) = k}
  BY <1>2, OneClass
<1>4. N(<<"rows", "TotalRows">>) = N(<<"rows", "ValidRows">>) + N(<<"rows", "InvalidRows">>)
                                   + N(<<"rows", "FilteredRows">>)
  <2> DEFINE A == H(<<"rows", "InvalidRows">>)
             B == H(<<"rows", "FilteredRows">>)
  <2>1. R = V \cup (A \cup B) /\ V \cap (A \cup B) = {} /\ A \cap B = {}
    BY <1>2 DEF IsValid
  <2> HIDE DEF A, B, V, R
  <2>2. IsFiniteSet(A \cup B) /\ Cardinality(R) = Cardinality(V) + Cardinality(A \cup B)
    BY <1>1, <2>1, TwoParts
  <2>3. Cardinality(A \cup B) = Cardinality(A) + Cardinality(B)
    BY <2>1, <2>2, TwoParts
  <2>4. /\ N(<<"rows", "TotalRows">>) = Cardinality(R) /\ N(<<"rows", "ValidRows">>) = Cardinality(V)
        /\ N(<<"rows", "InvalidRows">>) = Cardinality(A)
        /\ N(<<"rows", "FilteredRows">>) = Cardinality(B)
    BY <1>1, <1>2 DEF A, B
  <2>5. /\ N(<<"rows", "ValidRows">>) \in Nat /\ N(<<"rows", "InvalidRows">>) \in Nat
        /\ N(<<"rows", "FilteredRows">>) \in Nat
    BY <1>1
  <2>6. QED  BY <2>2, <2>3, <2>4, <2>5
<1>5. ASSUME NEW k \in Cells
      PROVE  Value(k, "Count") = Value(k, "RelevantCount") + Value(k, "OtherCount")
  <2> DEFINE A == H(<<"cell", k, "RelevantCount">>)
             B == H(<<"cell", k, "OtherCount">>)
             S == H(<<"cell", k, "Count">>)
  <2>1. S = A \cup B /\ A \cap B = {}
    BY <1>2, OneClass
  <2>2. IsFiniteSet(S) /\ Value(k, "Count") = Cardinality(S)
        /\ Value(k, "RelevantCount") = Cardinality(A) /\ Value(k, "OtherCount") = Cardinality(B)
    BY <1>1
  <2> HIDE DEF A, B, S
  <2>3. QED  BY <2>1, <2>2, TwoParts
<1>6. ASSUME NEW k \in Cells
      PROVE  Value(k, "RelevantCount") = Value(k, "ViolentCount") + Value(k, "PropertyCount")
                                         + Value(k, "WeaponsCount") + Value(k, "SevereCount")
  <2> DEFINE A == H(<<"cell", k, "ViolentCount">>)
             B == H(<<"cell", k, "PropertyCount">>)
             C == H(<<"cell", k, "WeaponsCount">>)
             D == H(<<"cell", k, "SevereCount">>)
             S == H(<<"cell", k, "RelevantCount">>)
             AB == A \cup B
             ABC == AB \cup C
  <2>1. S = ABC \cup D /\ ABC \cap D = {}
    BY <1>2, OneClass
  <2>2. ABC = AB \cup C /\ AB \cap C = {}
    BY <1>2, OneClass
  <2>3. AB = A \cup B /\ A \cap B = {}
    BY <1>2, OneClass
  <2>4. /\ IsFiniteSet(S) /\ Value(k, "RelevantCount") = Cardinality(S)
        /\ Value(k, "ViolentCount") = Cardinality(A) /\ Value(k, "PropertyCount") = Cardinality(B)
        /\ Value(k, "WeaponsCount") = Cardinality(C) /\ Value(k, "SevereCount") = Cardinality(D)
    BY <1>1
  <2> HIDE DEF A, B, C, D, S, AB, ABC
  <2>5. IsFiniteSet(ABC) /\ Cardinality(ABC) \in Nat /\ Cardinality(D) \in Nat
        /\ Cardinality(S) = Cardinality(ABC) + Cardinality(D)
    BY <2>1, <2>4, TwoParts
  <2>6. IsFiniteSet(AB) /\ Cardinality(AB) \in Nat /\ Cardinality(C) \in Nat
        /\ Cardinality(ABC) = Cardinality(AB) + Cardinality(C)
    BY <2>2, <2>5, TwoParts
  <2>7. /\ Cardinality(A) \in Nat /\ Cardinality(B) \in Nat
        /\ Cardinality(AB) = Cardinality(A) + Cardinality(B)
    BY <2>3, <2>6, TwoParts
  <2>8. QED  BY <2>4, <2>5, <2>6, <2>7
<1>7. IsFiniteSet(V) /\ IsFiniteSet(Rel)
  BY <1>1, FS_Subset
<1>8. \A n \in V : RowAt(n) \in Row /\ Parses(RowAt(n))
  BY <1>1 DEF IsValid, Parses, Unreadable
<1>9. N(<<"rows", "ValidRows">>) = SumOf([k \in Cells |-> Value(k, "Count")])
  <2> DEFINE g == [n \in V |-> CellOf(RowAt(n))]
             f == [k \in Cells |-> Value(k, "Count")]
  <2>1. g \in [V -> Cells]
    BY <1>8 DEF Cells
  <2>2. \A k \in Cells : f[k] = Cardinality({n \in V : g[n] = k})
    <3>1. TAKE k \in Cells
    <3>2. {n \in V : g[n] = k} = {n \in V : CellOf(RowAt(n)) = k}
      OBVIOUS
    <3>3. {n \in V : g[n] = k} = H(<<"cell", k, "Count">>)
      BY <1>3, <3>2
    <3>4. QED  BY <1>1, <3>3
  <2>3. f \in [Cells -> Nat]
    BY <1>1
  <2>4. N(<<"rows", "ValidRows">>) = Cardinality(V)
    BY <1>1, <1>2
  <2> HIDE DEF g, f, V
  <2>5. SumOf(f) = Cardinality(V)
    BY <1>7, <2>1, <2>2, <2>3, SumOfParts
  <2>6. QED  BY <2>4, <2>5 DEF f
<1>10. N(<<"rows", "RelevantRows">>) = SumOf([k \in Cells |-> Value(k, "RelevantCount")])
  <2> DEFINE g == [n \in Rel |-> CellOf(RowAt(n))]
             f == [k \in Cells |-> Value(k, "RelevantCount")]
  <2>1. g \in [Rel -> Cells]
    BY <1>8 DEF Cells
  <2>2. \A k \in Cells : f[k] = Cardinality({n \in Rel : g[n] = k})
    <3>1. TAKE k \in Cells
    <3>2. {n \in Rel : g[n] = k} = {n \in Rel : CellOf(RowAt(n)) = k}
      OBVIOUS
    <3>3. {n \in Rel : g[n] = k} = H(<<"cell", k, "RelevantCount">>)
      BY <1>3, <3>2
    <3>4. QED  BY <1>1, <3>3
  <2>3. f \in [Cells -> Nat]
    BY <1>1
  <2>4. N(<<"rows", "RelevantRows">>) = Cardinality(Rel)
    BY <1>1, <1>2
  <2> HIDE DEF g, f, Rel
  <2>5. SumOf(f) = Cardinality(Rel)
    BY <1>7, <2>1, <2>2, <2>3, SumOfParts
  <2>6. QED  BY <2>4, <2>5 DEF f
<1>11. ASSUME MinYear > 0
       PROVE  N(<<"rows", "ValidRows">>) = SumOf([y \in Years |-> N(<<"year", y>>)])
  <2> DEFINE g == [n \in V |-> RowAt(n).date.year]
             f == [y \in Years |-> N(<<"year", y>>)]
  <2>1. g \in [V -> Years]
    BY <1>8
  <2>2. \A n \in V : RowAt(n).date.year # 0
    BY <1>11 DEF IsValid
  <2>3. \A y \in Years : f[y] = Cardinality({n \in V : g[n] = y})
    <3>1. TAKE y \in Years
    <3>2. {n \in V : g[n] = y} = H(<<"year", y>>)
      BY <1>2, <2>2
    <3>3. QED  BY <1>1, <3>2
  <2>4. f \in [Years -> Nat]
    BY <1>1
  <2>5. N(<<"rows", "ValidRows">>) = Cardinality(V)
    BY <1>1, <1>2
  <2> HIDE DEF g, f, V, Years
  <2>6. SumOf(f) = Cardinality(V)
    BY <1>7, <2>1, <2>3, <2>4, SumOfParts
  <2>7. QED  BY <2>5, <2>6 DEF f
<1>12. QED  BY <1>4, <1>5, <1>6, <1>9, <1>10, <1>11 DEF Balanced, N, At

(* All tallies balance at every moment, the private ones of the workers,   *)
(* those on their way and the merged one, whatever the rows and however    *)
(* they were dealt to the workers. *)
THEOREM BooksAlwaysBalance == Spec => []BooksBalance
<1>1. ASSUME IInv
      PROVE  BooksBalance
  <2>1. TypeOK /\ Tallies
    BY <1>1 DEF IInv, Control, Counted
  <2>2. \A w \in Workers : Balanced(result[w].tally)
    BY <2>1, TallyBalances DEF Tallies, TypeOK
  <2>3. \A i \in DOMAIN results : Balanced(results[i].tally)
    <3>1. \A i \in DOMAIN results : results[i] \in WorkerResult /\ StandsFor(results[i])
      BY <2>1 DEF Tallies, TypeOK, Range
    <3>2. QED  BY <2>1, <3>1, TallyBalances
  <2>4. Balanced(stats)
    <3>1. Books \in WorkerResult /\ StandsFor(Books) /\ Books.tally = stats
      BY <2>1 DEF Tallies, TypeOK, Books, WorkerResult
    <3>2. Balanced(Books.tally)
      BY <2>1, <3>1, TallyBalances
    <3>3. QED  BY <3>1, <3>2
  <2>5. QED  BY <2>2, <2>3, <2>4 DEF BooksBalance
<1>2. QED  BY <1>1, InductiveInvariant, PTL
=============================================================================
