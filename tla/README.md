# Verification of the crime-prediction system

TLA+ modules, TLC runs and TLAPS proofs about the Go code in `src/internal`:
a concurrent CSV loader, the construction of a training set and its files, a
parallel trainer and its evaluation, a cluster of ML nodes with a dispatcher, a
prediction cache, and a history of predictions in MongoDB.
`PROJECT.json` relates every definition to its lines of the source.

## 1. The system

| Component | State | Operations | Interacts by |
|---|---|---|---|
| Loader (`crime/loader.go`) | a reader goroutine, `workers` worker goroutines, two bounded channels, a WaitGroup, private and merged counts | `LoadAndAggregateCSV` | channels of batches and of results |
| Training set (`ml/features.go`) | none; a pure function with two passes | `BuildSamples` | takes the loader's aggregates |
| Training (`ml/train.go`) | weights, epoch, one goroutine per chunk, a channel | both `TrainLogisticRegression...` | channel of partial gradients, WaitGroup |
| Dispatcher (`cluster/dispatcher.go`, `client.go`) | one goroutine per node, a channel | `DispatchTopRequest`, `SendTCPRequest` | one TCP connection per request |
| Registry (`cluster/roundrobin.go`) | node list, cursor, mutex | `NextNode`, `ActiveNodes`, `Nodes` | shared by all API handlers |
| ML node (`node/`) | the loaded model, read only | `predict`, `predict_batch`, `health` | TCP, one goroutine per connection |
| Storage (`storage/`) | none of its own: Redis and MongoDB | cache get/set, insert, history | one TCP connection per command |
| Prepared data, model file, exports (`ml/prepared.go`, `ml/types.go`, `ml/export.go`, `crime/export.go`) | files | save, load | a file that one program writes and another reads |
| Metrics (`ml/metrics.go`) | none | `Evaluate`, `EvaluateCompact` | takes the loaded matrix |
| REST API, commands (`internal/api`, `cmd/`) | documented, not in the repository | `POST /predict`, ... | calls everything above |

What is hard about it: the loader and the trainer wait for their goroutines
*before* they read the channel that these goroutines write, so a missing slot is
a deadlock; a row must be counted once on its way through four owners;
`DispatchTopRequest` merges partial tops of nodes that may crash, hang or answer
late; handlers share the registry's cursor and the cache; the training set must
not see the weeks that the test predicts; the features of a cell are computed
twice, in the trainer and in the node, and so is an evaluation; a model is
replaced while its answers are still in the cache; a disk may fail or a program
be killed in the middle of a file; an insert may be stored although it timed
out. `PROJECT.json` lists each of these
hazards at its line, with the properties that would catch it, or the reason why
none does yet.

## 2. Modules

| Module | Models | Read it with |
|---|---|---|
| `Aggregation` | what one CSV row adds to the counts: parsing outcomes, filter, classification, cell | `processRecordIntoAggregation`, `mergeWorkerResultInto` |
| `AbstractLoader` | what a load promises: one sequential pass | |
| `Loader` (extends `Aggregation`) | the reader, the workers and their channels | `LoadAndAggregateCSV`, `processBatches` |
| `TopN` | what a dispatch promises: the best N of all candidates, or an error | |
| `Dispatch` | dispatcher, its goroutines, connections, nodes that crash and restart | `DispatchTopRequest`, `SendTCPRequest`, `handleConnection`, `PredictBatch` |
| `Registry` | handlers taking turns on `NextNode` | `NextNode` |
| `GradientDescent` | what a training promises: sequential batch gradient descent | |
| `Training` | epochs, chunks, goroutines, partial sums | `computeGradientForWorkers` and its compact twin |
| `Samples` | labels, sampling, split, re-split, standardizer | `BuildSamples`, `splitByTargetWeek` |
| `FeatureHistory` | operators: totals, averages, trends over the past weeks | `buildFeatureContext`, `avgCount`, `contextCount`, `rawFeatures` |
| `Features` (extends `FeatureHistory`) | one cell as the trainer and as a node sees it | `rawFeatures`, `buildFeatures` |
| `Prepared` | the save of a test set, its file, its two loaders | `SavePreparedObservationsCSV`, `LoadPreparedObservations(Compact)CSV` |
| `Metrics` | the two evaluators and the AUC | `Evaluate`, `EvaluateCompact`, `aucApprox` |
| `Pipeline` (composes `Prepared` and `Metrics`) | from `cmd/prepare` to the report of `cmd/train` | |
| `Predictions` | handlers, cache and node behind `POST /predict` | `CacheKey`, `GetCachedPrediction`, `SetCachedPrediction`, `Predict` |
| `Serving` | the model file, nodes that crash and restart, the cache and its TTL | `SaveJSON`, `LoadModel`, `NextNode`, `SetJSON` |
| `History` | what saves and queries of records promise | `SavePrediction`, `History` |
| `Bson` | operators: documents to bytes and back | `encodeBSON`, `decodeBSON` |
| `Records` (extends `Bson`, implements `History`) | the same calls over OP_MSG, byte by byte | `InsertPrediction`, `FindPredictions`, `runCommand`, `readOPMsg` |
| `LoaderProofs`, `DispatchProofs`, `RegistryProofs`, `TrainingProofs`, `SamplesProofs`, `PipelineProofs`, `PredictionsProofs`, `ServingProofs` | theorems about the module they are named after; `SamplesProofs` also about `Features`, the other half of `ml/features.go`, whose specification is called `CellSpec` for that reason | section 5 |
| `MC...` | small instances for TLC | |

Conventions. `pc` is where the main goroutine is, `task`, `worker` or `conn`
where another process is; an action is one step between two operations that
another process can observe (a channel operation, `Wait`, `Done`, a message).
Steps of private computation are part of the action before or after them. A
buffered channel is a sequence with a capacity in the guard of the send, a
closed channel a flag; in `Dispatch`, where the close coincides with the end of
the wait, the flag is `pc`. History variables (`rows`, `merged`, `picks`,
`before`, `gone`) are named as such and are read by no guard. A definition whose name begins with
`Bug` is a variant of the one after it with a plausible mistake; no
specification uses it. Put in the place of the original it makes a property
fail, which shows that the property depends on the code.

What is abstracted:

* Counts. A `WorkerResult` and the final books are one function from counters
  (`<<"rows", f>>`, `<<"year", y>>`, `<<"type", t>>`, `<<"cell", k, f>>`) to
  naturals; absent map keys count zero, as in Go.
* Scores and gradients. Scores are naturals that only order candidates, equal
  scores are possible, and an unstable sort may return any descending order. A
  gradient is how often each sample is in it and which weights it was taken at.
  Rounding is left out.
* Text. Dates, numbers and JSON are what parsing makes of them; where the parse
  itself matters (`"0.5"` is positive, and becomes 0) its result is modelled.
* Bytes. Where bytes are modelled (`Bson`, `Records`) a byte has 32 values and an
  `int32` is two of them, so that the integers have ends TLC can reach; a name is
  one byte. The structure of documents and messages is that of the code.
* Files. A row of `Prepared` is two pieces and the buffer of `csv.Writer` three,
  so that a file may end inside a row. What gzip keeps back and when it writes is
  its own choice, up to `Hold` pieces; a piece of a `.gz` file is what stands for it
  in compressed form.
* Time. A deadline may expire at any moment until the answer was read. The TTL of a
  cache entry may end at any moment, except in `Serving`, which counts ages.

How the parts compose: `Loader` is built on `Aggregation`; `Features` on
`FeatureHistory`; `Records` on `Bson`, and it implements `History` under a
refinement mapping (documents and messages become what they mean, a record its
`request_id`, a time its milliseconds); `Pipeline` joins `Prepared` and
`Metrics` step by step: the rows that the compact loader returns are the set
that is evaluated. `Predictions` and `Serving` are two views of `POST /predict`,
one of its data with a fixed model, one of its versions with time.

Some inputs are excluded by named assumptions: a file with a persistent read
error and no row limit (`LoaderAssumption`; the loader would append nil records
for ever, see the hazards) and non-positive `workers` or `batchSize`, which the
code replaces before it uses them.

## 3. Properties and runs

**`loader`** (2 workers, batches of 2, files of up to 6 rows and one of 15, 10 calls). Files
end on and off a batch boundary, at a row limit, beyond one, in a read fault, or
are empty; rows are of every class of `ClassifyCrimeType` that matters, invalid,
too old, unreadable, without a type, with a district of `0.5`. `NoRowLost` and
`NoRowTwice` follow every row through its owners, `BooksBalance` relates the
counts of each tally at every moment, `ReadsWhatItShould` gives the limits,
`NoSendOnClosed` excludes the panic, `ImplementsSequential` is the refinement of
`AbstractLoader`, `Termination` the absence of a deadlock or a lost wake-up.
A file of fifteen rows, which the other files do not need, makes the reader block
on the channel of four batches, for `BoundedMemory` (at most the announced rows
are in flight) and `ResultsNeverBlock`.
Two workers suffice for every race between workers, since they interact only
through the channels; the proofs of section 5 lift the bound.

**`dispatch`** (3 nodes, one marked inactive in most requests; 1 crash). Requests
have ties inside and across chunks, the best two in one chunk, fewer candidates
than nodes, no candidates, `topN` zero, too large and in range, an input that a
node rejects, no active node, no registry. `ImplementsTopN` is the refinement of
`TopN`: an "ok" is the exact top of all candidates. `AllOrNothing` relates the
outcome and the nodes reported as used to what each node did, `Termination`
holds whatever the nodes do. A request
with three active nodes gives `PartsAreFair` and `SendersNeverBlock` (no
goroutine is stuck or left behind) something to distribute.
One crash is enough for a node to die in each of its phases; a second one could
only repeat this on another connection.

**`registry`** (4 nodes of any statuses, 2 callers, at most 14 steps of the
cursor): `Balanced`, `ErrorMeansNone`; that the mutex is given back shows in
the absence of a deadlock. `MaxNext` bounds `r.next`,
which grows without bound in the code; 14 lets the cursor wrap three times.

**`training`** (up to 7 samples, 4 workers, 50 epochs): samples that divide
among the workers and that do not, workers without a chunk, no samples, one
worker, defaults. `ImplementsDescent` refines `GradientDescent`; it also covers
the epochs whose loss is reported and the stop without samples.

**`samples`** (up to 6 weeks, 4 slots a week in place of 168, up to 3 zones, all
combinations of 3 cuts, 3 sampling ratios and 3 limits): `TrainBeforeTest` and
`NoLookahead` exclude temporal leaks, also after the re-split, `NothingDropped`
ties the sets to the reported counts, `ResplitIsProper` says when a re-split
leaves the training set empty. The threshold of ten observations is the code's,
so the instances lie on both sides of it.

**`features`** (all 168 hours, zones in and outside the one-hot groups, invalid
queries; every map of up to three aggregates over two weeks with a gap, three
zones and two slots, gone through in every order; a single crime in each of the
fourteen weeks before the cell, in the cell itself or in its zone, its district or
its slot only; a series of 12 weeks that never changes). The trainer makes vectors
of the cells of its grid only (`InGrid`), a node of any query. `KnownSkew` names
exactly the features that differ between them: `is_night`,
`is_friday_saturday_night`, the month, and the past, which a node always fills with
zero. The windows are those of the code, and so is where they end: twelve weeks for
the cell's own counts, four for those of its zone, district and slot. A crime of
five weeks ago next door leaves no trace (`Eventful`), and the single crimes lie on
both sides of either end. `ContextIsSum` is about the totals, in whatever order the
map is gone through; `ColdStart` says which trend is an artefact of the first weeks.

**`pipeline`** (up to 3 samples of 2 features and a table of 5, buffers of 3 pieces,
gzip keeping back up to 4, every limit, 4 models; any write may fail with part of it
written, and `cmd/prepare` may be killed at any step). `LosesOnlyBuffers` is how far
a nil error can be trusted: the deferred close drops the errors of its flush and of
gzip, so what csv's buffer and, in a `.gz` file, gzip held may be missing (in the
code 4 KiB, and at `BestSpeed` a block of 64 KiB before compression), but nothing
more, and nothing at all of a compressed file that has its footer. Five rows are
enough to end with both buffers full, so that the bound is met. `LoadedIsPrefix`
says what the two loaders read back, and that they agree. `EvaluatorsAgree` and
`AucIsAShareOfPairs` hold for models with too few and too many weights, each
evaluator with its own loop over them, and for ties left in any order.
`ReportsWhatWasPrepared` goes end to end: a fault of the disk or a kill never shows
as a report of fewer compressed samples. Three rows fill a buffer, overflow it and
end inside it.

**`predictions`** (2 handlers, 2 places of which one is invalid, 2 weeks, 1
feature vector): `ScoreOfTheQuery` and `EveryQueryAnswered`.

**`serving`** (2 handlers, 1 cache key, 2 nodes, 2 models, a TTL of 2 and a
request of at most 1 tick): the model file is emptied and rewritten in place, nodes
crash and load it. `TypeOK` includes that no node runs half a model;
`StaleBounded`: no answer is of a model that no node has run for longer than the
TTL and one request; `FreshEventually`: once the nodes settle, so do the answers.
A second handler that stores late is what the bound depends on; a third adds
nothing to one entry.

**`records`** (2 saves, 1 query with each of 3 limits, 4 pairs of records; a
connection may end after any byte). `ImplementsHistory` is the refinement,
`RecentHistory` is the invariant of `History` that holds through it (newest
first, nothing twice, nothing newer left out), `RoundTrip` says that MongoDB can
read each command and what the format keeps of a record (32 bits of an `int`,
milliseconds, no features). With
`MaxLimit` 2, a limit of 3 is one beyond the bound; two records in any order of
time are enough to be in the wrong one. That a first batch would cut a longer
history does not happen here, and cannot in the code while the largest limit is
below it (`RecordsAssumption`): what is checked is that no larger limit is sent.

Two runs are expected to find a violation; each is a disagreement between the
code and what the repository says of it, described under "findings":
**`features_skew`** (`ServedAsTrained`: a node and the trainer have different
hours for *night*) and **`history_empty`** (`EmptyMeansNone`: a query that
MongoDB refuses, with `ok: 0`, becomes an empty history without an error).

Smaller disagreements, each pinned by a property that does hold:

* `trainUntilYear` is ignored by the re-split, although
  `internal/ml/features_test.go:28` calls a later training week a leak:
  `TrainBeforeTest` still holds, `ResplitIsProper` says what it does.
* The cache key of a query with features lacks the place
  (`docs/pc4/IMPLEMENTACION_FASE_5.md:39`), so a hit may name another one:
  `ScoreOfTheQuery` promises the score only.
* "Cada predicción o recomendación queda registrada" (`:18` there): a reply with
  `writeErrors` has `ok: 1` and counts as stored, so `History` has no property
  that a nil error means a stored record; the features of an input are not
  recorded, as `RoundTrip` spells out.
* A save of prepared observations returns nil before its last flush and the close
  of gzip: `LosesOnlyBuffers`.

Deadlock is checked in all runs; a process that has returned stutters in a
`Terminated`, `Idle` or `Done` action of its own.

## 4. Fairness

* `Loader`, `Training`: weak fairness of every goroutine. The Go scheduler runs
  each runnable goroutine, and channel waiters are served in order.
* `Dispatch`: weak fairness of the dispatcher and of each sender, which includes
  the expiry of its deadline. Nothing is assumed of a node, which may never
  answer nor restart.
* `Predictions`: weak fairness of what a handler can always do by its deadlines
  (give up on Redis, on the node, on MongoDB). Nothing is assumed of the services.
* `Serving`: weak fairness of a handler's steps and of time; nothing is assumed
  of the nodes or of the training. `FreshEventually` is conditional on the nodes
  having settled.
* `Pipeline`, `Samples`, `Features`: safety only, since these are sequential
  programs that a kill may end anywhere. `Registry` and `Records`: safety only;
  a call of theirs can always go on, by its next step or its deadline.

## 5. Proofs

Eight modules prove, for every value of the constants, what the runs show on
small instances. Each theorem is `Spec => []P`, or `Spec => P` for a refinement
and an action property, with `P` the definition that the run checks.

| Module | Theorem | Property |
|---|---|---|
| `LoaderProofs` | `TypeCorrect` | `TypeOK` |
| | `WaitGroupCounts` | the WaitGroup counts the workers that have not called `Done` |
| | `ReadingIsBounded` | `ReadsWhatItShould` |
| | `NoDeadlockOnResults`, `NoPanicOnSend` | `ResultsNeverBlock`, `NoSendOnClosed` |
| | `EveryRowKept`, `EveryRowOnce` | `NoRowLost`, `NoRowTwice` |
| | `MemoryIsBounded` | `BoundedMemory` |
| | `BooksAlwaysBalance` | `BooksBalance` |
| | `LoaderIsSequential` | `ImplementsSequential` |
| `DispatchProofs` | `WorkIsShared` | `PartsAreFair` |
| | `SendersAreFree` | `SendersNeverBlock` |
| | `NoPartialAnswer` | `AllOrNothing` |
| | `DispatchImplementsTopN` | `ImplementsTopN` |
| `RegistryProofs` | `RoundRobinIsBalanced`, `ErrorsAreTrue` | `Balanced`, `ErrorMeansNone` |
| `TrainingProofs` | `NoDeadlockOnPartials` | `PartialsNeverBlock` |
| | `TrainingIsDescent` | `ImplementsDescent` |
| `SamplesProofs` | `NoLeakFromTheTest`, `FeaturesAreKnown` | `TrainBeforeTest`, `NoLookahead` |
| | `SamplesAddUp`, `BothSetsAreUsed` | `NothingDropped`, `ResplitIsProper` |
| | `SkewIsKnown` | `KnownSkew` |
| | `TotalsAreSums`, `TrendsStartCold` | `ContextIsSum`, `ColdStart` |
| `PipelineProofs` | `SavedButItsBuffers`, `NothingIsMadeUp` | `LosesOnlyBuffers`, `LoadedIsPrefix` |
| | `EvaluationsAgree`, `AreaIsAShare` | `EvaluatorsAgree`, `AucIsAShareOfPairs` |
| | `ReportsTheTable` | `ReportsWhatWasPrepared` |
| `PredictionsProofs` | `AnswersAreScores` | `ScoreOfTheQuery` |
| `ServingProofs` | `NoHalfModel`, `AnswersAreRecent` | `TypeOK`, `StaleBounded` |

### What is assumed

Only the named assumption of each module, which gives the inputs their types.
Four of them say more. `LoaderAssumption` excludes a persistent read error
without a row limit. `SamplesAssumption` says of the calendar that a later week
is of no earlier year, which is what makes a split by year one by time, and that
the aggregates are finitely many. `PipelineAssumption` bounds the length of the
tables by `MaxRows` and what gzip keeps back by `Hold`, which are arbitrary, gives a label the two values that
`BuildSamples` gives it, and all rows of a table one width: `rawFeatures` always
returns the features of `FeatureNames`, and a loader refuses a file with another
header. `FeaturesAssumption` says of the aggregates what the loader makes of them:
they are finitely many, no group of a cell is larger than its total, and their
weeks can be numbered from 1.

### The inductive invariants

None of the properties is inductive as it stands. What each needs:

* **Loader**: `IInv == Control /\ Rows /\ Tallies`, in three layers. `Control` is
  the types, the WaitGroup (`wg` is the number of active workers), `Phases` (what
  the workers have done when the reader is past each of its waits), `RoomForAll`
  (the results channel holds at most one result per worker that has sent) and
  `Progress` (how far the reader is from its limit). The properties of the
  channels need all of it: that `wg = 0` means that all have sent is what makes
  closing the results channel safe. `Rows` says where each row is; it is inductive
  over `Control`, since the owners of a row change only in the steps that the
  phases allow. `Tallies` says that a tally counts exactly the rows it stands
  for; with `Rows`, merging adds counts of disjoint sets. At the return all rows
  read are merged (`AllMerged`), so the books are those of the sequential pass
  (`ReturnIsLoad`); every other step stutters. `Sizes` bounds each batch, for
  `MemoryIsBounded`. `BooksBalance` adds up over an unbounded set of counters. A
  sum of naturals is stated as the size of a disjoint union (`SumOf`), so that it
  splits like one (`SumOfParts`) without an induction, and each row adds one to
  both sides (`WhatARowAdds`, `OneClass`). The years balance only if
  `MinYear > 0`, and the property says so: a record of year 0 would be counted as
  valid but not under a year.
* **Dispatch**: `Counts` (the WaitGroup counts the goroutines under way, the
  channel holds what the others have sent), `Phases`, `Forks` (a goroutine for
  each chunk with candidates, and its node among the used), `Answered` (a goroutine
  succeeds only with what its node wrote) and `FailuresStay` (a failure, once in the channel, is
  still there or has been noticed). `AllOrNothing` needs the last two: nothing
  else connects a crash to the outcome. `PartsAreFair` is arithmetic (`(k - 1) %
  parts` deals each candidate once, and two chunks differ by one at most), over
  the fact that `InOrder` lists a finite set once and in order (`InOrderLists`).
  The refinement adds three parts. `Own`: what a goroutine holds, and a node wrote,
  is either a failure or the best of the goroutine's own chunk. `Parted`: without an
  active node the call does not get past its first check. `Merges`: while the call
  is under way, each partial that was sent is in the channel, or was a success and
  has been merged, once. That the chunks make up the whole request is
  `ChunksPartition`. What a sort does is proved of its loops: `ExchangeSort` returns
  a descending rearrangement of its argument (each sweep puts the best of the rest
  in its place), and so does the unstable sort of a node, whichever one it returns.
  That a candidate of the global top is in the top of its chunk, and that the merged
  tops therefore have the same top, is counting: whoever beats it in its chunk beats
  it in the request.
* **Registry**: `InTurn` (after some number of rounds, exactly the active nodes
  before the cursor have had one turn more), `StillToCome` (the caller in the loop
  has turns enough left to reach every active node) and `NoFalseError`. The
  cursor is never reset, so what `Balanced` is about is its remainder (`IndexStep`).
* **Training**: `Phases`, `RoomForAll`, and `Gathered`: each sample of a chunk that
  has been computed is in the sum or in one partial, once and at the current
  weights. When the channel is empty this is `Complete`, the full gradient.
  The chunks are a partition for any division (`ChunksAreDisjoint`,
  `EverySampleHasAChunk`): the size is rounded up, so the last chunks may be
  short or absent. `Progress` relates epoch, weights and the reported losses.
* **Samples**: `FirstPass` (what the counts of the first pass say of the cells)
  and `Observed` (each observation is that of a candidate cell) beside the
  properties themselves. `SplitByYear` and `ResplitMoves` show that both splits
  cut the weeks in two, `CutWeekExists` that the week of the re-split is one of
  the data, `CollectAgrees` that the second pass picks what the first one counted.
* **Pipeline**: `Buffered` (disk, gzip and buffer together are the first pieces, in
  order, as long as no write has failed), `Results` (what is known of the disk when
  the save has answered) and `NotLoaded`. That no more than two buffers are on their
  way (`PendingIs`, `Passes`) bounds what a failing close can lose (`Breaks`);
  `MorePieces` and `FewerPieces` are about
  the writes, `KnownRows` and `ObservationsAre` about what the loaders make of
  the first pieces of a file, `CompactIs` that the two agree. The evaluation has an
  invariant of its own, `EvalInv`, over `Rowed` (what the compact loader returned is
  a sequence of rows, of a compressed file as many as were asked for). It says that
  samples and matrix are those of the loaded rows, that the counters are those
  of the samples before `next` (`Counted`, `Upto`), and that `scored` holds one entry
  for each of these, or later a sorted rearrangement of all. A place of the flattened
  matrix is a row and a column (`PlaceInMatrix`), so a sample read from it is the
  one that was loaded (`SampleIs`). The two evaluators have loops of their own, and
  both add up the same terms (`LogitIs`, `CompactLogitIs`), of which there is one sum
  (`LogitUnique`). For the area, the ranks of the positives in a
  sorted list, less the ranks they would have alone, are the number of pairs of a
  positive and a negative before it (`RanksCountPairs`, by taking one more element
  at a time), and a sort keeps the labels (`SortKeepsLabels`).
* **Features**: `CellInv` is `ContextIsSum` with the types and `Computed` (the
  trainer's vector was made when the map was gone through). The sum over a
  map does not depend on the order (`SumExists`), which `ContextIsSum` needs for
  each turn of the loop and the theorems for each window. A total is zero only if
  nothing happened in its cells (`TotalsCount`), an average only if nothing
  happened in its window (`AverageIsZero`). A level of averages is empty when
  nothing happened in its longest window (`NothingToAverage`), and is not when
  something did (`SomethingToAverage`), and so a history is empty exactly when the
  cell is not `Eventful` (`NothingHappened`, `SomethingHappened`): twelve weeks for
  the cell itself, and four for its district and slot, which its zone is within.
  For `ColdStart`, a window over a series that began in week 1 sees as many weeks as
  there are, up to its length (`SeenWeeks`).
* **Predictions**: `CacheIsRight` (an entry answers every query with its key, not
  only the one that filled it) over `KeyDecides` (a key says all that a score
  depends on), and `HandlerIsRight` for what a handler is about to store.
* **Serving**: `Recent` gives each place where an answer can be (node, handler,
  cache) the time since its model was last run, and `NothingYet` says that a
  handler has none before it asks. That the bound is `TTL + Delay` and not `TTL`
  comes from the handler that stores late.

Loops and sums are recursive functions in the modules that the proofs are about, so
that what they compute is proved by induction. The induction rules of the
library take an operator and cannot be used; they are derived, for sets of
numbers and of subsets, from the fact that a set of naturals has a least element
(`Least`, `NextReachesAll`, `NextReachesBound`, `SubsetsInduction`), which the library
has as well-foundedness. That such a function exists at all is one of the things
to prove (`LoopExists`, `SumExists`).

Each invariant was model-checked on the instances of section 3 before it was
proved; the theorems remove the bounds of that section for their properties.

### Only model-checked

* Liveness under fairness (`Termination`, `EveryQueryAnswered`,
  `FreshEventually`), which is out of the prover's reach.
* `RoundTrip`, `RecentHistory`, `ImplementsHistory`: a document may hold documents,
  so `Bson` encodes and decodes by recursive operators, which a module with
  theorems cannot use, and a document is not of a fixed depth that a recursive
  function could be given as its domain.
* The two properties that are violated, `ServedAsTrained` and `EmptyMeansNone`;
  `SkewIsKnown` proves how far the first one fails.

## 6. Not modelled

* `storage/redis.go`: the bytes of RESP. `Predictions` and `Serving` take a command
  as one exchange that may fail.
* The arithmetic of floats: standardizer, gradients, log loss, rounding, and with it
  the thresholds of `PredictRiskLabel`; the order of partial sums.
* A TTL of less than a second, which `SetJSON` turns into 300 seconds: the TTL is
  configured in whole seconds, and a missing one is replaced before.
* Data with more features than names, at which the compact trainer panics; the
  loader refuses such a file when it is given the expected names.
* JSON, and the formatting of numbers in CSV files.
* The order of rows in `crime/export.go` and the ranked levels in `ml/export.go`;
  their writes and flushes are those of `Prepared`.
* `health` and `Ping`, which change nothing.
* `internal/api` and `cmd/` are not in the repository. The order of steps of
  `POST /predict` comes from `docs/pc4/IMPLEMENTACION_FASE_5.md`, that of the
  programs from `README.md`; both are marked external, like Redis, MongoDB and the
  crash of a node.
* A read error that persists, in a load without a row limit (see the hazards), and
  an `Accept` that fails for ever, which is retried in a busy loop.

## 7. Plan

The order of the work was: the loader and the dispatcher, which are concurrent and
lose data or hang when they are wrong; the trainer; the files and the
evaluation; the services behind `POST /predict`; then the proofs, in the order of
section 5. What is left:

1. `Records`: replies whose documents have a depth of at most `n`, with encoder and
   decoder as recursive functions on `0 .. n`, would bring `RoundTrip` within reach
   of the prover.
2. The hazards without a property (`PROJECT.json`): a persistent read error, the order
   of float sums, and the weeks that are missing in the data and labelled as if
   nothing had happened.
