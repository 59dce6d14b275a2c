# vechealth: verification project

TLA+ models of vechealth (Rust core, Python bindings, connectors, reports and
interpretation), the TLC configurations that check them on small instances, and
TLAPS proofs that hold for every value of the constants. Paths below are
relative to the repository; `py/` stands for
`rust/bindings/python/vechealth/`.

    tlc -workers 2 -config Fetch.cfg Fetch        # one run
    tlapm FetchProofs.tla                         # one module of proofs

## 1. Inventory

### Parts, state and interaction

| Part | Source | State it keeps | Operations |
|---|---|---|---|
| Exact k-NN search | `rust/core/src/knn.rs` | none; a bounded buffer per row, one block per worker | candidate selection on f32 similarities, exact re-ranking |
| Evaluator | `rust/core/src/knn.rs` | vectors; `normalized_cache`, `norms_cache`, `normalization_report`; `knn_cache` | `get_knn`, `ensure_normalized` |
| Metrics, `compute_all` | `rust/core/src/metrics/`, `hub_inspector.rs` | none | eight metrics in sequence over one evaluator, the first error ends the call |
| Python evaluator | `rust/bindings/src/lib.rs` | PyO3's borrow flag, the GIL, the evaluator | every method of `VecHealthEvaluator` |
| Memory and batch size | `rust/core/src/resources.rs`, `resolve_batch_size` | none | estimate, automatic batch, warning |
| Connectors | `rust/connectors/src/*.rs`, `py/connectors/*.py` | cursor, rows so far, expected dimension; the source is shared with its other clients | page through a collection, build an evaluator |
| Local loaders | `rust/connectors/src/local.rs` | none; the file may be replaced while it is read | npy, csv, parquet to an evaluator |
| Reports | `rust/report/src/` | the files reports are saved in | `save`, `load`, `compare` |
| Noise filter | `py/interpretation/noise_filter.py` | none | a verdict per statistic |
| Command line | `py/cli.py` | exit status | `analyze`, `compare --fail-on-significant` |
| Interpretation | `py/interpretation/*.py` | `DiagnosisContext`, `FullReport` | signature match, recommendations with action and parameter, drift, status, order by three priority variants |
| Hub inspection | `py/hub_inspector.py` | the example provider's `_cache` | `inspect_hubs`, example provider, `compare_hub_snapshots` |

A source is read by a connector, which gives its rows to the evaluator. A call
from Python resolves a batch size (and may warn, which runs Python code), copies
queries if there are any, then releases the GIL and runs metrics, each of which
asks the evaluator for k neighbours. `compute_report` also hashes the vectors,
before it releases the GIL, and wraps the numbers for `save`; `compare` sets two
reports side by side, the noise filter judges the changes and the command line
turns the verdicts into an exit status. The interpretation layer works from two
snapshots of the same numbers; it may quote the strongest hubs, which
`inspect_hubs` looks up with one or two further calls on the same evaluator.

### What is hard, and what makes each part correct

* **Cache and history.** One k-NN cache answers every k it is wide enough for,
  and it survives errors and panics. A reply must not depend on what was asked
  before. Where f32 rounding makes it depend, only in a harmless direction.
* **Threads.** Calls give up the GIL with the object borrowed. The borrow flag
  must match the calls in progress on every path (return, error, warning turned
  into an exception, panic); what `get_knn` decided must hold when it is used.
* **Concurrent writers.** No connector pages inside a transaction. No row that
  was there all along may be missed, no row taken twice, no full source called
  empty, and the loop must end.
* **Saturation and clamps.** The memory estimate gets its arguments from the
  caller. No overflow may hide an excess, and advice must help.
* **Fail-closed diagnosis.** A family is named only when the observation
  establishes it, a repair called fixable only on the family it was validated
  on, on each of three ways to a report.
* **Two calls, one answer.** `inspect_hubs` makes two calls on an evaluator that
  other threads use in between, and its example provider keeps an old report:
  hubs, citers and metrics must still fit together.
* **Files and the gate.** `fs::write` truncates and then writes; a reader or a
  crash may fall in between. The gate must pass only over two reports that were
  saved whole, and only when nothing assessable left its floor.

`PROJECT.json` lists the individual hazards at their lines.

## 2. Modules

| Module | Models | Extends or composes |
|---|---|---|
| `KnnSearch` | the search as operators: buffer, candidates, ranking, blocks, panics | |
| `Metrics` | what each metric makes of neighbour lists | `KnnSearch` |
| `MetricTruth` | what the reply to a request should be, from the true neighbours, without f32 | `Metrics` |
| `MetricOracle` | **abstract specification**: a request is submitted, and answered as a function of the vectors and the request | |
| `Evaluator` | the caches under single metrics and `compute_all`, one action per metric and outcome | `MetricTruth`; refines `MetricOracle` |
| `MCEvaluator` | all placements of up to four vectors, requests | `Evaluator` |
| `PyEvaluator`, `MCPyEvaluator` | one Python object under several threads: GIL, borrow flag, steps of `get_knn` | |
| `HubInspection`, `MCHubInspection` | `inspect_hubs`, the example provider and the comparison of two inspections, among other callers | `Evaluator` |
| `Fetch` | the connectors' paging against other writers, and the file loaders | |
| `BatchSize` | the estimate, the batch and the warning in saturating arithmetic | |
| `PriorityVariants` | three priority scores and the order they give | |
| `Diagnosis`, `MCDiagnosis` | two snapshots to context, full report, metric reports | `PriorityVariants` |
| `Reports`, `MCReports` | saves, a load and a comparison over shared files | |
| `KnnSearchProofs` | theorems about the search as a function | `KnnSearch` and `TLAPS` |
| `EvaluatorProofs` | theorems, among them that `Evaluator` implements `MetricOracle` | `Evaluator`, `KnnSearchProofs` |
| `HubInspectionProofs` | theorems | `HubInspection`, `EvaluatorProofs` |
| `PyEvaluatorProofs`, `FetchProofs`, `BatchSizeProofs`, `DiagnosisProofs`, `ReportsProofs` | theorems | their module and `TLAPS` |

An operator with the comment "mutant" is not part of a model: it is a plausible
bug of the definition after it. Put in place of that definition, it makes the
property it is paired with in `PROJECT.json` fail, which shows that the property
depends on that piece of code.

### KnnSearch, Metrics

A set of vectors is its matrix of exact distances, its matrix of f32
similarities and the kind of each row (ordinary, zero norm, not finite).
Floating point appears as two facts: several distances may share one similarity,
and comparisons with NaN are false. `InsertTopK` is `insert_top_k` slot by slot;
an index out of bounds is `SearchPanics`: a row all of whose similarities are NaN
leaves its slots empty, and the empty index is looked up. `Searchable` says when
that cannot happen: every row is finite, or there are only two rows (a buffer of
one slot takes a NaN, since no comparison refuses it).
Means are sums, NaN as soon as one term is (`Total`). Skewness, medians, the
intrinsic-dimension estimator and the covariance spectrum, which are functions
of modelled data, are left out.

### Evaluator and MetricOracle

`vectors`, `normalized` (three caches that are always filled together), `knn`,
`call` (steps left, results, searches) and `reply`. Each metric is an action
whose guard is the code's success path; its failures are one action per kind.
`Oracle == INSTANCE MetricOracle WITH pending <- call.request` is the refinement:
a call in progress is a pending request, `Begin` is `Submit`, the last step of a
call is `Answer`, the others stutter. `MetricOracle` is told what to answer
(`Truth`, from `MetricTruth`) and knows nothing of vectors; what it adds is that
nothing else may matter.

### HubInspection

Every call `inspect_hubs` makes is a request to `Evaluator`: `identify_hubs`, and,
when categories are given, `get_knn` for the citers. Between the two, and between
inspections, the evaluator's other callers run (`OtherCall`); the second call may
find one of them at work, which PyO3 refuses. One inspection is in progress at a
time; two would only add further callers. A report carries, beside the code's
fields, the citers its dispersion was computed from and the widths of the cache
that answered. Normalised entropies are a table. `example` is the provider's
`_cache`, which is never filled again.

A cache widened between two inspections may change the lists, as
`WiderCacheNoFarther` allows. Hubs are then reported as new that were there
before, although `hub_inspector.py:270-272` calls them "points that were not
problematic before". `RepeatsAgree` and its companions therefore speak of caches
of the same width, or of similarities that order the rows as the distances do
(`SameLists`).

### PyEvaluator

Per thread a program counter in the places where `lib.rs` changes the borrow, the
GIL or the caches. `&mut self` methods take `borrow` from 0 to -1,
`compute_anisotropy` and the getters share. Of the evaluator only "normalised"
and "columns of the cache" remain, the two things `get_knn` decides on. A call
is the list of k its metrics ask for. Entering while borrowed is refused, which
is PyO3's behaviour and external. Before it releases the GIL a call may do work
in Rust (`Prepare`): queries are copied, and `compute_report` hashes every float
of the vectors (`lib.rs:1248`). A thread there holds on to the GIL; nothing makes
it yield until it is through.

### Fetch

`source` is the call, `store` what is under each id now, `cursor` a row id
(pgvector, Milvus, Weaviate, Pinecone, LanceDB), the next row (Qdrant) or a
number of rows (Chroma). One action per paging protocol (`KeysetPage`,
`ScrollPage`, `OffsetPage`, `ListPage` and `FetchListed`, and `MilvusBatch`,
`WeaviatePage`, `LanceBatch` over an SDK's iterator); other clients insert,
overwrite and delete between any two requests. `version` is the version of the
table a LanceDB scan is pinned to, or the file that was opened: `ReadNpy`,
`ReadCsv` and `ReadParquet` take all its rows at once, but `load_npy` opens the
path again when the array is not float32, and may then find another file. What a
source declares of its dimension (`Declared`) differs: Qdrant, LanceDB and
Parquet say it, the others have it from the first row. `steady` is a history variable: rows present
from `Open` on. What a server answers is external: the first rows of those asked
for, at that moment, in its scan order.

### BatchSize

`Limit` stands for 2^64 - 1 and every product and sum saturates at it, as in the
code; the properties compare with exact arithmetic.

### Diagnosis

Readings and deltas are in hundredths, and the tables (families, members,
evidence, weights, confounders, severe losses) are constants. The cosine
similarity of the deltas to a family is any of a set of values, independent of
the deltas: more situations than the code can meet, so what holds here holds
there. `FromSnapshots`, `BuildFullReport` and `BuildMetricReport` are the three
entry points; each may be called in any order on the same snapshots.
`AlsoMatched` repeats the check of `similarity_to_family`. NaN readings are kept
apart, because `min(1.0, nan)` is 1.0 in Python. `Action` is what
`build_recommendation` makes of a match (level, action, where its parameter comes
from, whether it is fixable), `Change` the direction `interpret_drift` gives, and
`PriorityVariants` the order of the metrics under any of the three variants, with
the stable reverse sort. Wording, badges and examples are left out.

### Reports

A file is a sequence of cells of report text. `Open` truncates, `Write` writes
from the start, `Fail` is a crash or an I/O error between the two; a load opens,
reads in any pieces `read_to_string` may get, and parses. `Phantom` stands for a
text of two reports that parses; of its values nothing is said. JSON turns a
float that is not finite into null: a metric or an epsilon then does not load
(`Finite`), a threshold becomes adaptive (`Reloaded`). The bindings take any float
for the two parameters, so a report in memory may have an epsilon of NaN, which
`compare` finds different from none (`EpsilonsDiffer`). The values in a report are integers on
a scale where the floors are exact.

## 3. Runs

| Run | Question | Bounds |
|---|---|---|
| `evaluator_exact` | does a cached evaluator behave as if nothing had ever been asked? | up to 4 vectors, k to 3, blocks of 1 and 3, unlimited calls |
| `evaluator_rounded` | where f32 merges distances, what still holds, and what do hub inspections promise? | up to 4 vectors, k of 0, 1, 2 and 4, blocks of 1, unlimited calls; 4 sets of 5 vectors that are inspected at k of 1, 2 and 5, with arrays of ids and labels that are long enough and too short |
| `py_evaluator` | can threads tear the object, or starve? | 3 threads, 4 vectors, a call that widens the cache and one that fails half-way |
| `fetch` | is a fetch under concurrent writes as good as a snapshot, and does it end? | 3 ids, pages of 2, 2 dimensions, all connectors and kinds of files, unlimited writes |
| `batch_size` | does silence mean it fits, and does advice help? | `Limit` 100, sizes, batches and thresholds around each clamp |
| `diagnosis` | is what a report says established, on every path and under every priority variant? | 4 metrics, 3 families, similarities below, at and a margin above the threshold |
| `reports` | is what is loaded and passed by the gate what was saved? | 3 analyses, 2 paths, 5 reports |
| `evaluator_first_column`, `evaluator_one_search`, `fetch_chroma`, `fetch_int4`, `diagnosis_ambiguous` | disagreements of code and documentation, see 6 | |

Why the bounds are enough for the interesting cases:

* **Evaluators.** With four rows and k = 1 the buffer of 2k candidates is smaller
  than the three other rows, so selection really drops rows; k = 2 and 3 reach
  the caps n - 1 and n. All ultrametric placements at three distances give every
  pattern of ties, duplicates and clusters. Blocks of 3 over 4 rows leave a short
  last block. `Coarse` merges duplicates and near duplicates into one f32 value.
  The state of a call sequence is only the cache, so unlimited calls are covered.
* **Inspections.** With five rows a search for one neighbour ranks two of four
  candidates, one for two ranks all: the placements are such that the two find
  different hubs, and other callers widen the cache at any moment. `Sharp` is such
  a placement with similarities that tell all distances apart.
* **Threads.** Three allow one to compute, one to be refused and one to hold the
  GIL. `<<2, 3, 2>>` widens and then slices the cache, `<<1, 4>>` fails after it
  filled it.
* **Fetch.** Three rows with pages of two give a full page, a short one and a
  boundary that a row can cross in each direction. The proofs cover every size.
* **Reports.** Two writers of one path and a third elsewhere, with one file of
  each side; reports of one and two cells, so a mix can parse. The five reports have
  epsilons that are the same, as far apart as the tolerance, and NaN.

`CHECK_DEADLOCK FALSE` is set in the runs of things that end: a fetch, one choice
of a batch, one pair of snapshots, three saves and a comparison. `reports` uses
symmetry in analyses and paths; it checks invariants only. The evaluator's
constants `OrphanDist`, `Infinity` and `Root2` are points on the scale of
distances, chosen to be in the order the code's constants are.

### Fairness

* `PyEvaluator!FairSpec`: a thread inside Rust runs on (WF of `Compute`; SF of
  `Proceed` while it still holds the GIL); the
  interpreter makes a thread give up the GIL after its switch interval (WF of
  `YieldGil`); a thread that waits for the GIL gets it again and again, and with
  it proceeds (SF of `TakeGil`, `Proceed`). Nothing is assumed of callers: no
  thread need ever call. Strong fairness is needed because the GIL is taken away
  again and again.
* `Fetch!FairSpec`: the connector goes on, or its request fails (WF of `Step`).
  Requests are bounded by the clients' timeouts. Writers are not fair and may
  never stop. That the id space is finite is what makes the loops end; over an
  unbounded one a writer that always adds ahead of the cursor keeps a fetch
  going, as it does in reality.

## 4. Properties

Invariants unless stated otherwise; the modules state each next to its
definition.

* `Evaluator`: `CacheIsSearch`; `SearchIsExact` (of the search, where f32 orders
  as the distances do); `ImplementsOracle` (refinement); `PanicsOnlyOnZeroK`,
  `NonFiniteNeverAnswered`, `WiderCacheNoFarther`, `NearestMeansAgree`.
  `CacheNeverNarrows` (action property) is proved and has no run.
* `HubInspection`: `HubTypeOK`, `CitersAreCounted` (the two calls of one report
  agree), `RepeatsAgree` (no hub is made up or lost between two inspections),
  `ExampleIsTheMaximum` (an old example fits a new metric), `PathologyIsMixed`.
* `PyEvaluator`: `BorrowTracksCalls`, `DecisionsStayValid`, `CallsReturn`
  (liveness). `CacheNeverNarrows` is proved and has no run.
* `Fetch`: `SteadyRowsFetched`, `NoRowTwice`, `EmptyMeansEmpty`, `FetchEnds`
  (liveness). Chroma is exempt from the first two; `fetch_chroma` shows why.
* `BatchSize`: `SilentMeansFits`, `AdviceIsSound` (of `LowerAdviceHelps` and
  `SmallerAdviceJustified`), `AutoIsLargestWithinBudget`.
* `Diagnosis`: `MatchIsEstablished`, `FailClosed`, `AmbiguityIsCautious`,
  `UrgentIsMeasured`, `GroupedIsNotNormal`, `EvidenceOutranksReliability`,
  `PathsAgree`.
* `Reports`: `LoadedWasSaved`, `SaveReplaces`, `GateHolds`, `NoiseIsMeasured`,
  `SilentMeansComparable`. `GateHolds` speaks of baselines other than zero, and
  `SilentMeansComparable` excepts an epsilon of NaN in memory: see 6 for both.

## 5. Proofs

For every value of the constants that satisfies the named assumptions of the
modules (which TLC evaluates on each run):

* **KnnSearchProofs.** What the search computes, for every matrix of distances
  and similarities (`VectorsOK`), every k and number of rows. `BatchIndependence`:
  the result does not depend on the batch size, from `GlobalRowIsRow` (block
  number and offset give back the row). `PanicsWhereNotSearchable`: it panics
  exactly where a row is not finite and there are more than two. `SearchExact`:
  where similarities order the rows as the distances do, it finds the true
  neighbours, ties in the order of rows. `WiderNoFarther`: the first k of a wider
  search are nowhere farther than those of a search for k. The argument has two
  halves. The buffer: `Keeps` is the invariant of `insert_top_k` over the rows
  offered so far (in order, no row twice, and nothing left out is `Better` than
  anything kept); with a NaN among the similarities `TopKOfNaN` says which slots
  stay empty. The ranking: `Closer` is a total order, so the rows before a row
  number its rank and every rank is taken once (`RanksAreTaken`). `TopK` is a
  recursive function, and induction over its argument is done on the set of the
  numbers for which the claim holds (`NatInductionSet`), which needs no operator
  parameter.
* **EvaluatorProofs.** `IInv == TypeOK /\ CacheIsSearch /\ QueueOK`: `QueueOK`,
  that every step still to run has a natural k and a positive block, is what
  makes the result of a search the one of blocks of one row, so `CacheIsSearch`
  is inductive with it. `CacheNeverNarrows` follows: only `Recomputed` writes the
  cache, when it is narrower than asked.
  What replies say needs where their parts came from. `AInv` adds `Found` (the
  cache came from a search that did not panic), `Place` (the steps left are the
  end of the request) and `Answering`, `Replied`: each result so far is what its
  metric makes of the first k columns of a search of some width, at least k, and
  of the same search for two steps if nothing up to the second asks for more than
  the first. From `AInv` and the facts about the search follow `PanicFree`,
  `NonFiniteRefused`, `WiderIsBetter` and `NearestMeansEqual`, for every rounding of similarities. `ExactSearch` assumes
  `FineSimilarities` (finite vectors' similarities order rows as their distances
  do, as `SearchIsExact` must: `evaluator_first_column` shows why).
  `Refinement`: with `FineSimilarities`, and requests for at least one neighbour
  (`SomeNeighbour`; on 0 the search panics), `Spec` implies `ImplementsOracle`, for
  every number of vectors, every request and history. `RInv` adds to `AInv` that
  the results so far are the oracle's (`TruthSoFar`) and that a filled cache
  belongs to vectors that could be normalised and searched (`Healthy`).
  `StepIsRight` goes through the metrics one by one; `FirstError` says that the
  first failing step is the one the oracle reports.
* **HubInspectionProofs.** `InspectorIsACaller`: `HubSpec` implies `Spec`, so all
  that is proved of the evaluator holds under inspections. `HInv` adds to `AInv`
  what an inspection in progress waits for (`InProgress`: the call it made is
  still whole, and the hubs it has came from a search) and that the reports kept
  are functions of the vectors, the arguments and the widths of the two caches
  that answered (`Reported`; `ReportsComeFromSearch`). The rest is about the
  lists: a row occurs as often as rows cite it (`OccursOncePerCiter`), hubs are in
  the order of their strength (`HubsInOrder`), and the sums over sets that
  counts and entropies are made of can be taken one member at a time
  (`SumIsSums`), which gives induction over subsets (`SubsetInduction`). From these, `HubsAreRight`,
  `HalvesAgree`, `SnapshotsAgree`, `ExampleFits`, `PathologyIsSound` and
  `NoHubsMadeUp` (reports from caches of one width list the same hubs).
  The occurrences of all rows add up to n times k (`CountsAddUp`, row by row), so
  the strongest hub of a report occurs at least k times, and none as often as
  there are rows (`HubsStandOut`).
  `PathologyIsSound` uses of the entropy only `EntropyAssumption`: 0 for one
  category, the whole for an even spread.
* **PyEvaluatorProofs.** The borrow flag as a lock: `BorrowTracksCalls` makes a
  thread in a mutable call the only thread in any call (`WriterIsAlone`), so what
  it decided stays true. `CacheIsNormalized` is the strengthening: a call that
  finds enough columns skips `ensure_normalized`.
* **FetchProofs.** With a positive page size (the theorems assume it; see 6 for
  zero). `IInv` says of each row: once the cursor has passed a row that was there
  all along it is taken, and what is taken is behind the cursor. Chroma has no
  such invariant; `OffsetInv`, that a fetch which took nothing is still at offset
  0, is enough for `EmptyMeansEmpty`.
* **BatchSizeProofs.** Lemmas on saturating products: if the saturated result is
  below `Limit`, it is the exact one; then case analysis of the clamps. `AdviceSound`
  joins the two halves of the advice.
* **DiagnosisProofs.** The invariant: every result is the value of its operator on
  what was seen, which never changes. The work is in the operators: with a
  positive margin at most one family can be established. `EvidenceFirst` needs
  `WeightsAssumption`: one grade of evidence outweighs any two reliabilities.
* **ReportsProofs.** `SettledInv` (what is known of a side once it is loaded),
  `FileInv` and `AloneInv` (an undisturbed save between its two steps).
  `LoadedIsSaved` rests on `CellsInv`: a file is empty or begins with a whole
  report, since saves write from the start. Over a file no two saves reach, what
  has been read is a part of one such text (`ReadInv`), and a text that parses and
  begins with a whole report is that report (`LoadInv`). `SilenceMeansComparable`
  takes from `SettledInv` that whatever was loaded is finite, and so only a current
  report in memory can have an epsilon of NaN (`OnlyNaNIsSilent`).

The assumptions about constants are few. `InputsAssumption` and
`InspectionsAssumption` say what a request and an inspection are made of;
`NearestAssumption` that outliers and duplicates look at the nearest neighbour
only, and an adaptive threshold or a search for duplicates beside a dispersion
comes after it, as `compute_all` has it;
`NoneAssumption` that None is not a list. `FineSimilarities` and `SomeNeighbour`
are hypotheses of the two theorems that need them and hold of the data sets of
`evaluator_exact`.

Model-checked only: the liveness properties `CallsReturn` and `FetchEnds`
(liveness under fairness, and `ENABLED`, are out of the prover's reach), and the
disagreements of section 6, which are counterexamples. Every other property of a
passing run is stated by a theorem. The modules use no RECURSIVE operators.

## 6. Where code and documentation disagree

Each has a run that finds a counterexample:

* `evaluator_first_column`: "column 0 is always the true nearest *other*
  neighbor" (`rust/bindings/src/lib.rs:973`). Only the 2k rows of greatest f32
  similarity are ranked exactly (`knn.rs:282`), so with enough rows in one f32
  value the nearest may not be a candidate.
* `evaluator_one_search`: "`compute_all()` runs one exact k-NN search"
  (`docs/reference.md:44`); with `k_intrinsic_dim > k`, the default, it runs two.
* `fetch_chroma`: "Each pulls the *complete* collection"
  (`docs/reference.md:188`); offset paging misses a row when an earlier one is
  deleted between two pages.
* `fetch_int4`: "`id_column` must be an integer primary/unique key"
  (`lib.rs:882`); an `int4` key makes `row.get::<i64>` panic.
* `diagnosis_ambiguous`: the full report gives "no family above the threshold" as
  the reason for an ambiguous match, for which `_review_reason` has other words:
  `build_full_report` does not set `signature_ambiguous` (`report.py:339`).

Seen while modelling, without a run:

* pgvector never asks for the metric and Qdrant drops unknown names, so the
  warning of `docs/reference.md:211` is not raised (`pgvector.rs:131`,
  `qdrant.rs:181`).
* `page_size = 0` makes pgvector report a full table as `EmptySource`
  (`pgvector.rs:85`), although `lib.rs:882` says it only controls rows per
  round-trip.
* `py/__init__.py:5-7` calls the evaluator safe in a multi-threaded service;
  overlapping calls on one object raise `RuntimeError` (already borrowed).
* "All `compute_*` methods release the GIL for the duration of the Rust-side
  computation" (`lib.rs:796`; `_core.pyi:218` says it too). `compute_report` holds
  it while it hashes every float of the matrix (`lib.rs:1248`).
* `compare` gives "warnings about anything that would make the comparison
  misleading" (`compare.rs:1-2`). Of an epsilon of NaN, which the bindings accept
  and with which no row is a duplicate, it gives none (`compare.rs:115`). Such a
  report cannot be loaded once saved, so this concerns reports in memory.
* `fingerprint.rs:1-3` says the fingerprint lets `compare` tell whether two
  reports are about the same data; `compare` reads only `dim` of it.
* A report with an infinite metric is saved as null and cannot be loaded again.
  Compared in memory, infinite against infinite gives NaN per cent, which exceeds
  no floor; `NoiseIsMeasured` holds because such a baseline never loads.
* `--fail-on-significant` passes any change from a baseline of exactly zero: the
  percentage is undefined and the verdict "unassessed".
* Two saves to one path while a third party loads from it may be read as a mix
  (`Phantom`); `save` neither locks nor renames.

## 7. Not modelled

* Badges, limitations, reliability messages, the domain caveat and the other
  texts: tables without decisions.
* `python/vechealth`: the prototype the Rust core replaced. Packaging and stubs.
* Of modelled parts: URLs, credentials and value conversion of connectors, the
  decoding of numbers in files; the notes of hub reports; the numeric estimators
  named in 2; argument parsing and printing of the command
  line; timestamps, tags and versions of reports; the calibration of thresholds.
  In `Reports` a baseline has always been loaded: a program that compares two
  reports it has just computed is left out.

## 8. Plan

Built in this order: search and evaluator with their oracle, threads, connectors
and files, batch size, diagnosis with its priority variants, reports, hub
inspection; each with its proofs, then the search itself, and on it the rest of
the evaluator's and the inspections' properties. What could follow:

1. Compose `PyEvaluator` with `Evaluator`, to let a panic of the search itself
   meet a second thread.
2. Several inspections at once over `PyEvaluator`'s threads: `HubInspection` has
   the refusal, not the GIL.
3. An abstract specification of a fetch (a set of rows between the steady ones
   and all that were ever there), with the connectors shown to implement it.
4. Tags and timestamps of reports.
