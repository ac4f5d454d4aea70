# A verification model of the retrieval benchmark

TLA+ modules, TLC configurations and TLAPS proofs for `rag-retrieval-benchmark`: a FastAPI
service and scripts that store documents as chunks in PostgreSQL (full text and pgvector) and
in Qdrant, search them with several strategies, and benchmark those strategies. Paths below
are relative to the repository root (`src/` in `PROJECT.json`).

## 1. Inventory

| Part | State it keeps | Operations | Interacts with |
|---|---|---|---|
| Document API (`app/api/routes.py`) | none of its own; a session and a Qdrant client per request | `POST`/`PATCH`/`DELETE /documents` | ingestion pipeline, sessions, Qdrant |
| Search API (`app/api/routes.py`) | a session and a Qdrant client per request | `POST /search` | factory, retrievers, embeddings, metrics |
| Benchmark API (`app/api/routes.py`) | the results directory | run, list runs, read a run | runner, artifact files |
| Ingestion pipeline (`app/ingestion/pipeline.py`) | rows, chunks, labels, points | ingest documents to PostgreSQL, queries to PostgreSQL, documents to Qdrant, ensure the collection | chunking, embeddings, both stores |
| Chunking (`app/ingestion/chunking.py`) | none | `chunk_text` | called inside the ingest transaction |
| Synthetic data (`app/ingestion/synthetic.py`) | none | generate documents and labelled queries | seed script |
| Seed script (`scripts/seed.py`) | none; three phases, each visible to the others | seed both stores, or one | pipeline, runs beside the API |
| Models, migrations (`app/db/models.py`, `alembic/`) | the schema: unique checksum, cascading foreign key | | pipeline |
| Session and pool (`app/db/session.py`) | engine, pool of 10 + 20 connections | open, close | every handler |
| Factory, router (`app/retrievers/factory.py`, `router.py`) | none | choose retrievers by strategy and query | search API, runner |
| Retrievers (`postgres.py`, `qdrant.py`, `hybrid.py`) | none; share the request's session and client | search; fuse two lists | stores, embeddings |
| Filters (`filters.py`, `qdrant.py`) | none | filters to SQL, to a Qdrant filter | retrievers |
| Embeddings (`app/embeddings/`) | a model or a URL | embed texts, embed a query | pipeline, dense retrievers |
| Evaluation (`app/evaluation/`, `scripts/benchmark.py`) | rows of one run, result files | run a benchmark, metrics, summaries, files | retrievers, PostgreSQL |
| Observability (`app/observability/metrics.py`) | process-wide gauges, counters, histograms | HTTP middleware, `observe_retrieval` | every request |
| Application, config, logging, schemas | settings | wiring, validation | everything |
| Tests, load test, dashboards, compose files | | | not part of the running system |

How they interact: handlers are coroutines of one event loop and interleave at every `await`;
the seed and benchmark scripts are processes beside the API. They share the two stores and
nothing else, and no transaction spans both stores. A request's two retrievers share one
session. The middleware's metrics are shared by all requests of the process.

What is hard here, and what makes each part correct:

- **Writes** commit PostgreSQL and then call Qdrant. Any call may fail, a call may have taken
  effect although its answer was lost, and requests for the same document overlap. Correct
  means: a reader of PostgreSQL sees each write whole or not at all; contents stay unique; Qdrant
  receives what was committed; writing a document again repairs what a failure left behind;
  labels name documents that exist; nobody waits for ever.
- **Searches** run one or two tasks; the first exception ends the request and not the other
  task. Correct means: nothing runs on or stays open after an answer, no client is closed
  while it is needed, and every search is answered even when connections are short.
- **Fusion** combines limited lists with ties and empty lists. Correct means: what both
  retrievers agree on is kept, and the answer is full when it can be.
- **Chunking** loops inside a transaction on the event loop. Correct means: it ends, loses
  nothing, overlaps exactly.
- **Metrics** are changed at both ends of overlapping requests, around code that sets the
  route and may raise. Correct means: gauge, histogram and counters tell one story.
- **Live stores**: a search queries one or two stores at one or two moments while documents are
  written. Correct means: PostgreSQL never shows half a document, and what was last written of
  a document at rest is found in every store.
- **Benchmarks** read their queries once, search live stores for a long time, and write five
  files that others list and read meanwhile. Correct means: stored results are whole, a reported
  run is found, all strategies are measured on the same queries, and metrics, names and summaries
  say the same of the same rows.

`PROJECT.json` lists every hazard at its line.

## 2. Modules

| Module | What it models |
|---|---|
| `Ingestion` | documents, bodies, chunks, and the jobs that write them; shared data of the next two |
| `Corpus` | the abstract specification of the write path: a map of documents and its chunk index, replaced atomically by each job |
| `DocumentStore` | the write path itself, concurrent and failing; refines `Corpus` for PostgreSQL |
| `Chunking` | `chunk_text` |
| `Ordering` | Python's `sorted()`, for `Fusion` and `Evaluation` |
| `Fusion` | candidate limits, reciprocal rank and weighted fusion, the cut to `top_k` |
| `Search` | the search handler, `asyncio.gather`, session, pool and client |
| `RequestMetrics` | the HTTP middleware and `observe_retrieval` |
| `LiveSearch` | `Search` composed with `DocumentStore`: what searches see of stores that are being written |
| `Evaluation` | the pure part of the benchmark: strategy specs, retrieval metrics, percentiles, summaries |
| `BenchmarkRun` | benchmark runs, their files, and the handlers that list and read them |
| `MC*` | definitions that give small instances to TLC |
| `DataProofs` | lemmas about sorting and sums, for the two below that need them |
| `DocumentStoreProofs`, `ChunkingProofs`, `FusionProofs`, `SearchProofs`, `LiveSearchProofs`, `BenchmarkRunProofs`, `RequestMetricsProofs` | the theorems about each module and their proofs |

### DocumentStore

A *request* is a slot in which one job runs at a time: an API write, a delete, or a seed run over
a list of documents. A *body* is everything a write stores under an id; its `Checksum` is
that of its content and `ChunkCount` the number of chunks it is cut into, so two bodies may have
the same content with other attributes. A chunk is `(doc, index, body)`: both stores key it by
`uuid5(document:index)`.

| Variable | Code |
|---|---|
| `row`, `chunks`, `labels` | the committed tables `documents`, `chunks`, `benchmark_queries` |
| `points`, `collection` | the Qdrant collection and whether it exists |
| `late` | per slot, a call to Qdrant its caller has given up and Qdrant may still apply |
| `pc`, `job`, `at` | the call a handler awaits, its job, the document its loop has reached |
| `txn` | its open transaction: rows staged, chunks deleted and inserted |
| `unsent` | the points its Qdrant loop has not sent |
| `overlapped`, `suspect` | history only: which documents other requests ran on meanwhile, and which documents are not claimed to agree |

| Action | Code |
|---|---|
| `LockRow`, `WriteRow`, `RejectRow` | `INSERT ... ON CONFLICT (id) DO UPDATE`, in the two waits it can meet: the row lock of its id, and an undecided writer of its checksum; `RejectRow` is the `IntegrityError` |
| `ReplaceChunks` | delete, chunk, embed, insert, on to the next document |
| `Commit(answered)` | `session.commit()`; not answered: committed, and an exception in the handler |
| `StoreQueries` | `ingest_queries_postgres` |
| `EnsureCollection`, `CreateCollection` | look up, then create: two requests may both create |
| `Flush`, `Finish` | a batch of `BatchSize` points in loop order, the partial last one, the return |
| `DeleteRow`, `DeletePoints`, `DeleteFromNoCollection` | the `DELETE` handler |
| `AbortDeadlocked` | PostgreSQL ends a deadlock by failing one of its members |
| `Fail` | any awaited call raises without effect; a crash is every request failing |
| `GiveUp`, `Land` | the Qdrant client times out while its call is on the way; Qdrant applies it at any later moment, once |

Chunks are inserted one statement at a time inside the transaction; no other statement can
observe or change them in between, because the transaction holds the row lock of their
document, so `ReplaceChunks` is one step. The labels of a seed are those of all its documents,
which `generate_queries` makes true for fewer than ten documents and bounds from above for more.
A delete of a row that another transaction has inserted but not committed finds nothing and
does not wait; one of a committed row waits for its lock. PostgreSQL's part (READ COMMITTED,
row locks, the unique index, deadlock detection) is external and modelled from its documented
behaviour.

### Search

A *search* is a request of which only what matters to control is kept: strategy, backend,
what the router reads of the query, and whether its filters are supported. `leg` is the state
of its lexical and dense task, `session` that of its `AsyncSession`, `client` whether its
Qdrant client is open. `StartLeg` runs a task to its first suspension, in `gather`'s order;
`Query` is what a leg does when it reaches its store; `Resume` is the handler after the search
returned or raised; `CloseClient` the `finally`; `Leave` the end of `get_session`; `Forget` the
moment the last task of the request has ended. SQLAlchemy's part is external: a second
statement raises while the session is still provisioning its connection; statements on a bound
session share the connection one after the other; a session cannot be closed while it is
provisioning. The run that
committed benchmark results for `hybrid_pgvector` fits: the runner reads its queries through the
same session first, so its searches find the session bound.

In a search that fails, `"failed"` is a leg the code itself made raise and `"lost"` one whose call
failed though it might have succeeded; `RaisesOnlyOnSharedSession` is about searches without a lost leg,
whatever happens to the others.

### LiveSearch

The state of both modules side by side, and two variables more. `seen` is what each leg's query
could choose from: `Read` takes it from the committed `chunks` or from `points` at one moment
between sending the query and its answer, which is what a `SELECT` at READ COMMITTED and a
search of the collection do; Qdrant refuses without a collection. `quiet` is history: the documents at rest since the search
was received, neither written nor suspect. What the query ranks and cuts is left out, so that
the properties speak of what it may find. Writers do not count against `PoolSize`.

### Evaluation and BenchmarkRun

`sorted` is `OrderedBy` of `Ordering`: the element with `n - 1` others before it is the `n`-th.
Without recursion, it can be proved about. `unique_preserving_order` is written with it, too.
`Evaluation` keeps the names of the code. Metrics are exact fractions; of the logarithms in
`ndcg_at_k` only that gains decrease with the rank is assumed (`GainAssumption`); percentiles
are in hundredths of the unit of time, so that interpolation is exact. A strategy name is split
into its base and its `_rrf` or `_weighted` suffix, and a display name is such a pair.

| Variable of `BenchmarkRun` | Code |
|---|---|
| `table` | `benchmark_queries`, which a seed run may replace at any moment (`Reseed`) |
| `pc`, `config`, `queries`, `rows` | the locals of `run_benchmark`; rows by cell (spec, query) instead of by position |
| `dirs`, `content`, `artifacts` | the run directories, each run's `results.json` (missing, opened, complete), its other files |
| `reader` | one `GET /benchmark/runs` or `GET /benchmark/runs/{run_id}`, and which runs had been reported before it asked |

`Request` is the handler's look for the config, or the script's start; `ReadConfig` parses the
specs; `ReadQueries` is the one `select`; `Measure` a search and its row, in loop order;
`RejectTopK` the `ValueError` of `precision_at_k`; `FinishSearches` the `finally` and the payload;
`MakeDirectory`, `OpenJson`, `WriteJson` and `WriteOthers` the files in order. Writing
`results.json` is two steps, because `write_text` truncates before it writes; the CSV and the
summary are one each, as nothing in the code reads them. `FailRun` is any call that raises, or the
end of the process. A reader tests for existence and then reads, in two calls to a thread.

### Fusion, Chunking, RequestMetrics

`Fusion` computes with exact fractions instead of floats, and compares them by
cross-multiplication (`Less`). Rounding is monotone and a sum of two does not depend on their order, so a chunk that
is at least as good in each list keeps a score at least as high, and ties are broken by insertion
order in the code and in the model: `AgreedOrder` carries over. The differences
`AgreementWins` rests on are at least 2/121 - 1/61 with the default k, far above rounding.
`Chunking` represents a text by its number of tokens and a chunk by its window.
`RequestMetrics` keeps one counter per label (method and path are one "url"), sums retrieval
counters over strategies, and lets a handler answer or raise at any point it may. Cancellation at
shutdown is left out: the process and its counters end with it.

## 3. Runs

| Run | Question | Bounds |
|---|---|---|
| `doc_writes` | Are writes atomic, contents unique, does Qdrant follow, does a retry repair? | 2 documents, 3 bodies, 2 requests, batches of 1, all failures, no collection at the start; 1.7 million states |
| `doc_seeds` | The same for seed runs in every mode beside API writes; do labels resolve? | 2 documents, 2 bodies, one list of 2, batches of 2, all failures, calls that land late; 3.1 million states |
| `doc_live` | Is every write answered? | full seed runs over lists in either order, no failures, fair; deletes are left out, as they wait for one lock and hold nothing meanwhile |
| `doc_overlap` | Do the stores agree when nothing runs? (no) | 1 document, 2 bodies of one chunk, 2 requests, no failures |
| `chunking` | Is `chunk_text` right for every small input? | up to 12 tokens, sizes -1 to 5, overlaps -1 to 6 |
| `fusion` | Is fusion right for every pair of lists? | lists up to 3 of 4 chunks with 3 scores, lists of 4 of 5 chunks, k = 3, multiplier 2, `top_k` 1 to 3; the chunks of the short lists are symmetric, as ids are only compared for equality |
| `search_faults` | What can a search leave behind, which raise without a failed call, is every search answered? | 2 requests, every strategy, 1 connection, all failures, fair |
| `search_shared` | Does `hybrid_pgvector` answer? (no) | 1 request, hash embeddings |
| `live_search` | What do searches see of documents that are being written? | 1 writer, 1 search at a time of every strategy but adaptive (which is routed to one of the others' shapes), 1 document, bodies of 1 and 2 chunks, all failures, late calls, no collection at the start; 2.9 million states |
| `bench` | Are results whole, found, measured on one set of queries, and consistent? | 1 run and 1 reader; 4 configs: two hybrids, the default, an unknown strategy, `top_k` 0; tables of 0, 1 and 2 queries labelled by chunk, by document or not at all; 4 lists of results, 2 latencies; 0.4 million states |
| `metrics_counts` | Do the metrics tell one story? | 3 requests at a time, 5 in all (`MaxRequests`), 3 urls |
| `metrics_labels` | Are labels templates? (no) | 1 request |

Why the bounds are enough: two requests are what a race, a lock conflict and a deadlock take;
two documents are what a checksum conflict takes, and a seed list; a body of two chunks
and one of one chunk give a growing and a shrinking document, full and partial batches. Two bodies with
one checksum let a write keep the content and change the attributes. One benchmark run is enough
for its own rows and files, which no other run touches; that several runs and readers do not disturb each other is left to the theorems (`Found`, `StoredWhole`), which are about any number of runs. Two specs
and two queries are what a summary by both needs, and two latencies what a percentile
interpolates. One writer and one search are what a read between two steps of a write takes, and the theorems
carry it to any number of both. Fusion's lists of four over
five chunks reach the last rank at which agreement must win (`k + 1`; one further and it may tie). Deadlock
checking is off only where behaviours end by design: one call per behaviour in
`fusion`, and `MaxRequests` in the metrics runs.

What holds:

- `ChunksMatchRows`, `ChecksumsUnique`, `WritesAreAtomic`: for a reader of PostgreSQL each job
  happens at once or not at all, whatever fails.
- `QdrantFollowsPostgres`: while a request writes Qdrant, PostgreSQL holds the same bodies,
  unless another request overlapped it on that document (what happens then is `doc_overlap`).
- `SettledAgreement`: once a job on a document ran alone and succeeded, both stores agree on it,
  whatever came before, calls that land late included: a document they touch is suspect again,
  and so is a job they overtake. Excluded are points beyond the last chunk of the new body, jobs that
  write one store only, and deletes whose spelling of the id is not canonical: the model
  marks those documents as suspect until the next such job, because the code gives no more.
- `LabelsResolve`: without deletes, stored labels name stored documents.
- `RequestsEnd`, `SearchesEnd`: no lock, deadlock or full pool keeps a caller waiting for ever.
- `EveryTokenCovered`, `OverlapsExactly`, `MatchesReference`, `Progress` of chunking.
- `AgreedOrder`, `AnswerFull`, `AgreementWins` of fusion; the last needs
  `candidate_k <= k + 1`, that is `top_k <= 12` with the defaults of 60 and 5. Beyond it a chunk
  both lists rank low may lose to one that a single list ranks first.
- `WholeBodies`: whatever a query of PostgreSQL may choose from has all chunks of one body of each
  document, or none of them, at whatever moment of whatever writes.
- `SettledSearch`: a search that succeeds has found in each store it queried exactly what was last
  written of every document at rest since the search was received; so the two legs of a hybrid
  search agree on it.
- `StoredRowsAreWhole`, `ReportedRunsFound`: no results of half a run are stored, and a run whose
  id was handed out is read and listed by everyone who asks later. A run that is not yet reported
  may be listed, missing or half written: the code promises no more.
- `SameQueries`, `MetricsAgree`, `SummariesAddUp`, `NamesTell`: strategies of a run are measured on the same queries;
  the five metrics of a row tell one story, for documents found through two chunks and for
  queries nothing is relevant to as well; every row is counted once by each grouping and percentiles lie in order; rows of one name
  come from one retriever, unless the entries are for the adaptive strategy.
- `NothingLeftBehind`, `ClientOutlivesSearch`: only a two-leg search that raised leaves a task or
  a connection behind.
- `RaisesOnlyOnSharedSession`: when no call fails only two legs on one session raise.
- `GaugeIsInFlight`, `EndedAreCounted`, `SearchesObserved` of the metrics.

What does not hold, as the violation runs show:

1. Two overlapping writes of one document may reach the stores in opposite orders and leave
   them different for good, with two successful answers (`doc_overlap`).
2. `hybrid_pgvector` (and adaptive with that backend) raises when both legs reach
   PostgreSQL while the session is getting its connection, always so with hash embeddings
   (`search_shared`).
3. Metric labels are concrete paths, document ids included (`metrics_labels`): the middleware
   asks for the route before the router has run.

Others that have no run of their own:

- Replacing a document by a shorter one leaves the old points in Qdrant, with one client and no
  failure: `ingest_documents_qdrant` upserts and never deletes. In `doc_overlap` every body is one chunk, so
  that only overlap can separate the stores; with `Requests = {r1}` and `Bodies = {"short", "long"}`
  `DocumentStore_overlap.cfg` violates `StoresAgreeAtRest` this way. `SettledAgreement` and
  `SettledSearch` leave those points out.
- A `DELETE` with another spelling of the UUID removes the row and keeps the points: with
  `Requests = {r1}`, `Bodies = {"short"}` and `Spellings = {"other"}` the same configuration shows it.
  `SettledAgreement` takes such a document for suspect, so it says nothing of it.
- A request whose handler raises is in the latency histogram and the error counter and not in the
  request counter (`EndedAreCounted` states the difference).
- Entries for the adaptive strategy keep the name of the config, so two that differ in
  backend or fusion method are summarized as one (`NamesTell` excepts them).
- `docs/benchmark_methodology.md:8` asks for a warm-up; the runner measures its first search like any
  other. Line 7 asks for identical datasets: the runner fixes the queries (`SameQueries`) and not the
  stores, which may be written while it runs.
- A benchmark reads its queries through the session its searches use, which is therefore bound:
  `hybrid_pgvector` is measured there although `POST /search` raises for it.
- `results_path` (`app/api/routes.py:96`) is a constant, whatever `benchmark_results_dir` is.

## 4. Fairness

`DocumentStore`: every request's next step is weakly fair, as the event loop resumes each
coroutine whose call was answered. `LockRow`, `Decide` (the unique check) and `DeleteRow` are
strongly fair: other requests may take and release a lock again and again, and PostgreSQL serves
the queue of a lock in order. `AbortDeadlocked` is weakly fair: the deadlock detector runs. Starting
jobs and failures are not fair. `Search`: weak fairness of each request's steps, strong fairness
of getting a connection, because the pool is first come, first served. The other runs check
safety only.

## 5. Proofs

TLAPS proves the following for every value of the constants, from the named assumptions of each
module only.

- `DocumentStoreProofs`: `Typed`, `ChunksAlwaysMatch`, `ChecksumsStayUnique`, `WritesAtomic`,
  `QdrantAlwaysFollows`. `ChunksMatchRows` is not inductive: a commit writes what a transaction
  staged. `PgInv` adds that staged rows and chunks are the part of the job the loop has
  reached (`StagedFollows`, `ChunksFollow`), that locks exclude each other (`LocksExclusive`) and
  that no combination of commits can clash (`NoClashStaged`); the proof has one lemma per
  action that touches the transaction and one (`MoveInside`, `PgAfter`, `PgFree`) for those that do
  not. The refinement of `Corpus` then has one interesting step, `Commit`; all others stutter.
  `QdrantFollowsPostgres` needs `OverlapInv`: two active requests know of each other's
  documents, so what an undisturbed one is about to commit is its job.
- `ChunkingProofs`: `Typed`, `NoTokenLost`, `ExactOverlap`, `LoopMovesOn`, `ClosedForm`, from the loop
  invariant `LoopInv`: until the last window all windows are full, the next starts `overlap`
  tokens before the end of the latest, and everything before that is covered. For `ClosedForm`
  `ExactInv` adds where each window starts and that the text reaches past the latest full one
  (`FirstsFit`), which fixes the quotient in `CountFor` from both sides.
- `DataProofs`, which speaks of no module of the system: a finite set in a strict order has exactly
  one element at each place (`Places`, `OrderedBySorts`: `OrderedBy` lists every element once, and
  in the order); the sum of a function over a finite set is what the community module's fold
  returns (`SumStep`, `SumRemove`), it is that of its classes (`SumOfClasses`), and of a falling
  table the first `n` entries have the largest sum of any `n` (`FirstAreLargest`). The fold chooses a
  table of partial sums, so the lemmas show that such a table exists and that any two agree
  (`SumsExist`, `SumsAgree`). Inductions are by a least counterexample (`LeastNumber`,
  `SmallestSet`), since the library's induction theorems are beyond the provers.
- `FusionProofs`: `Typed`, `AgreedOrderKept`, `AnswerIsFull`, `AgreementAlwaysWins`. `Better` is a strict
  order of the candidates, so the answer is their beginning in that order; what remains is
  arithmetic about fractions. A chunk ahead in each list scores at least as much from each
  and comes earlier if the scores are equal. The chunks of a list cut at `candidate_k >= top_k` are enough
  for a full answer. With `n <= k + 1` candidates per list, two reciprocals of at least
  `1 / (k + n)` are together more than one of at most `1 / (k + 1)`.
- `SearchProofs`: `Typed`, `CleanUnlessHybridRaised`, `ClientOpenLongEnough`, `OnlySharedSessionsRaise`. The invariant is a
  conjunction of facts about single requests, and each step changes one request: `StepIsLocal`
  reduces the proof to that one. `FailuresFit` gives the three reasons for which the code itself
  fails a leg; without lost legs and unsupported filters the shared session remains.
- `DocumentStoreProofs`, second part: `SettledAgree`, `LabelsNameDocuments`. `SettledAgreement` speaks of the moment after a job;
  `SettleInv` follows the job there: `SentFits` (each point of a job that is filling Qdrant is still unsent
  or is the only one with its key, `Sole`, unless another job or a late call was at the document),
  `SuspectsKnown` (documents that two jobs wrote, or one job in part, are suspect) and
  `Undisturbed` (a job disturbs the agreement only once its transaction is over). There is one lemma for each action that changes
  points or ends a job. `LabelsNameDocuments` assumes that nobody deletes (`Spellings = {}`):
  `LabelInv` adds that a run past its commit finds its documents stored, and no upsert takes a
  row away.
- `LiveSearchProofs`: `WholeAtEveryMoment`, `SettledFound`, `LivePartsKeepTheirSpecs`, `LiveTyped`. `SawIndex` remembers that what a leg saw in
  PostgreSQL was the index of some table of documents, by `ChunksMatchRows`; `SawRow` that what
  it saw of a quiet document is what its row says now, by `SettledAgree`'s invariant when it was
  read and because only a job on the document changes its row. `LivePartsKeepTheirSpecs`: each step of
  the composition is a step of `DocumentStore`, or stutters there, and likewise of `Search`; so what
  is proved of either holds of the composition, and `LiveTyped` takes `Search`'s types from
  `SearchProofs`, instantiated for its searches.
- `BenchmarkRunProofs`: `Typed`, `StoredWhole`, `Found`, `OneQuerySet`, `NamesTellRetrievers`,
  `MetricsTellOneStory`, `SummariesCountEveryRow`.
  `RowsFit` ties each row to the spec and the query of its cell, `FilesFit` each file to the
  stage of its run, `ReaderFits` a reader to the runs reported before it asked; that reported
  runs stay reported and their files as they are makes `Found` inductive.
  `MetricsTellOneStory`: `Measured` says which results a row was computed from; a hit is a place
  whose first occurrence has a relevant value (`HitsAreFound`, `UniqueOrder`), so there are as many hits as relevant values
  found, and ndcg is at most 1 because the ideal ranks come first (`FirstAreLargest`).
  `SummariesCountEveryRow`: groups are the classes of the rows (`SumOfClasses`), and the
  percentiles of a sorted list rise with `p` (`PercentilesAscend`), as an interpolation within one
  gap or across gaps.
- `RequestMetricsProofs`: `Typed`, `GaugeExact`, `EndedCounted`, `SearchesCounted`. `Labelled` says that a request in
  flight keeps the label it entered with; the gauge is the cardinality of a set that gains or
  loses one element. `SearchesCounted`: the counter of searches moves with the set of requests
  whose search was observed, and each of them leaves it as a response or as an error.

Every safety invariant and action property of a passing run is stated by a theorem.

The assumptions on constants that these use are what the code gives: sizes are positive, the
settings have their types, sentinels are not values. `InputsAssumption` of `BenchmarkRun` asks for
a gain at every rank up to `top_k` and for finite sets of labels; `LabelsNameDocuments` is about
systems in which nobody deletes and says so in its statement.

Only model-checked: liveness (`RequestsEnd`, `SearchesEnd`), which is out of the prover's reach.
The violation runs are counterexamples and need no proof.

## 6. Not modelled

Embedding values, ranking functions and SQL or Qdrant query evaluation: a search returns a
list, best first. Field validation, formatting, measured times, the layout of charts and
summaries, logging, and the schema migrations. The tables `benchmark_runs` and
`benchmark_results`, which nothing writes. The pool limit for writes. Of the synthetic data
only what ingestion depends on. Embeddings in the wrong order or number: `zip(strict=True)` turns
a wrong number into an exception (`Fail`); the order is the service's promise. Which backend a
metric label should name: the code has no rule to check it against. More than one late call per slot.

## 7. Plan

1. `DocumentStore` with `Corpus` (done): the stores everything else reads.
2. `Chunking`, `Fusion` (done): the algorithms writes and searches rest on.
3. `Search`, `RequestMetrics` (done): request lifetimes.
4. `Evaluation`, `BenchmarkRun` (done): benchmark runs and their files.
5. `LiveSearch` (done): searches over stores that are being written.
6. Proofs of every invariant the runs check (done).
7. Still worth having: the pool shared by writes and searches; what filters select in each
   store; proofs of the safety part of liveness - who waits in `RequestsEnd` waits for a request that
   can move, or is in a deadlock that is found; and that what a connection is waited for in
   `SearchesEnd` is given back.
