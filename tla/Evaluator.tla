----------------------------- MODULE Evaluator -----------------------------
(***************************************************************************)
(* VecHealthEvaluator (rust/core/src/knn.rs) with its lazily filled        *)
(* caches, under the metric functions of rust/core/src/metrics: a request  *)
(* runs one metric step after another against the shared k-NN cache, and   *)
(* the first step that fails or panics ends it, leaving the caches as that *)
(* step left them. Callers are sequential here; PyEvaluator adds threads.  *)
(***************************************************************************)
EXTENDS MetricTruth

CONSTANTS
  Datasets,      \* the sets of vectors an evaluator may be built from
  Requests(_)    \* Requests(v), what callers ask of an evaluator over v

\* A step names a neighbourhood size, a usize, and a block size: the bindings
\* refuse batch_size = 0 (resolve_batch_size) and choose at least 1 themselves.
StepOK(s) == s.k \in Nat /\ s.b \in Nat \ {0}

ASSUME InputsAssumption ==
  \A v \in Datasets :
    /\ VectorsOK(v)
    /\ \A request \in Requests(v) :
         /\ request \in Seq({request[i] : i \in DOMAIN request})
         /\ \A i \in DOMAIN request :
              /\ StepOK(request[i])
              /\ request[i].metric = "qmas" => request[i].arg.copies \in Seq(Rows(v))

\* The metrics of the nearest neighbour ask for one neighbour, and only
\* compute_all, after its dispersion, leaves the outlier threshold open. It
\* looks for duplicates after the dispersion too, and before any metric that
\* may ask for more neighbours.
ASSUME NearestAssumption ==
  \A v \in Datasets : \A request \in Requests(v) : \A i \in DOMAIN request :
    /\ request[i].metric \in {"outliers", "duplicates"} => request[i].k = 1
    /\ request[i].metric = "outliers" /\ request[i].arg = Adaptive =>
         i > 1 /\ request[1].metric = "dispersion"
    /\ \A j \in DOMAIN request :
         request[i].metric = "dispersion" /\ request[j].metric = "duplicates" =>
           i < j /\ (request[i].k > 0 => \A m \in i..j : request[m].k <= request[i].k)

VARIABLES
  vectors,       \* the vectors, fixed at construction
  normalized,    \* normalized_cache, normalization_report and norms_cache are Some
  knn,           \* knn_cache: NoCache or [k, rows]
  call,          \* the call in progress; call.todo = <<>> when there is none
  reply          \* what the last call returned or raised

vars == <<vectors, normalized, knn, call, reply>>

NoCache == [k |-> -1, rows |-> <<>>]

\* The call in progress: what was asked, the steps left, the results so far
\* and the number of k-NN searches it ran.
NoCall == [request |-> <<>>, todo |-> <<>>, results |-> <<>>, searches |-> 0]

-----------------------------------------------------------------------------
(* VecHealthEvaluator::new refuses a matrix without rows.                  *)

InitUnchecked ==  \* mutant: a matrix without rows is accepted
  /\ vectors \in Datasets
  /\ normalized = FALSE
  /\ knn = NoCache
  /\ call = NoCall
  /\ reply = Nothing

Init ==
  /\ vectors \in {v \in Datasets : v.n > 0}
  /\ normalized = FALSE
  /\ knn = NoCache
  /\ call = NoCall
  /\ reply = Nothing

Begin(request) ==
  /\ call.todo = <<>>
  /\ call' = [NoCall EXCEPT !.request = request, !.todo = request]
  /\ reply' = Nothing
  /\ UNCHANGED <<vectors, normalized, knn>>

-----------------------------------------------------------------------------
(* get_knn, by outcome. After KnnReady(s) the primed cache has at least    *)
(* s.k columns; a failing search leaves the k-NN cache alone.              *)

NeedSearchExact(k) == knn = NoCache \/ knn.k # k  \* mutant: the cache serves one k only
NeedSearch(k) == knn = NoCache \/ knn.k < k

\* ensure_normalized fills its three caches together, or fails before any.
EnsureNormalized ==
  /\ normalized \/ ~AllDegenerate(vectors)
  /\ normalized' = TRUE

Cached(s) ==
  /\ s.k < vectors.n
  /\ ~NeedSearch(s.k)
  /\ UNCHANGED <<normalized, knn>>

Recomputed(s) ==
  /\ s.k < vectors.n
  /\ NeedSearch(s.k)
  /\ EnsureNormalized
  /\ ~SearchPanics(vectors, s.k)
  /\ knn' = [k |-> s.k, rows |-> Search(vectors, s.k, s.b)]

KnnReady(s) == Cached(s) \/ Recomputed(s)

KTooLarge(s) ==
  /\ s.k >= vectors.n
  /\ UNCHANGED <<normalized, knn>>

CannotNormalize(s) ==
  /\ s.k < vectors.n
  /\ NeedSearch(s.k)
  /\ ~normalized
  /\ AllDegenerate(vectors)
  /\ UNCHANGED <<normalized, knn>>

SearchAborts(s) ==
  /\ s.k < vectors.n
  /\ NeedSearch(s.k)
  /\ EnsureNormalized
  /\ SearchPanics(vectors, s.k)
  /\ UNCHANGED knn

-----------------------------------------------------------------------------
(* The end of a step.                                                      *)

Deliver(result) ==
  LET results == Append(call.results, result)
      searches == call.searches + (IF knn' = knn THEN 0 ELSE 1)
  IN  /\ IF Len(call.todo) = 1
         THEN /\ call' = NoCall
              /\ reply' = Reply(call.request, "none", results)
         ELSE /\ call' = [call EXCEPT !.todo = Tail(@), !.results = results,
                                      !.searches = searches]
              /\ UNCHANGED reply
      /\ UNCHANGED vectors

Fail(error) ==
  /\ call' = NoCall
  /\ reply' = Reply(call.request, error, <<>>)
  /\ UNCHANGED vectors

\* s is the step to run now, and it computes the given metric.
Running(s, metric) ==
  /\ call.todo # <<>>
  /\ s = Head(call.todo)
  /\ s.metric = metric

\* A metric that reads the neighbour lists and nothing else.
GetKnn(s) ==
  /\ Running(s, "get_knn")
  /\ KnnReady(s)
  /\ Deliver(Slice(knn'.rows, s.k))

ComputeHubness(s) ==
  /\ Running(s, "hubness")
  /\ KnnReady(s)
  /\ Deliver(Hubness(vectors, Slice(knn'.rows, s.k)))

IdentifyHubsStep(s) ==
  /\ Running(s, "hubs")
  /\ KnnReady(s)
  /\ Deliver(IdentifyHubs(vectors, Slice(knn'.rows, s.k), s.arg))

\* Column 0 of a matrix without columns is out of bounds.
ComputeDispersion(s) ==
  /\ Running(s, "dispersion")
  /\ KnnReady(s)
  /\ IF s.k = 0
     THEN Fail("Panic")
     ELSE Deliver(Dispersion(vectors, Slice(knn'.rows, s.k), s.k))

\* Within compute_all the adaptive threshold comes from the dispersion step,
\* the first of the call.
ComputeOutliers(s) ==
  /\ Running(s, "outliers")
  /\ KnnReady(s)
  /\ Deliver(Outliers(vectors, Slice(knn'.rows, 1), s.arg,
                      IF s.arg = Adaptive THEN call.results[1][1] ELSE 0))

ComputeDuplicates(s) ==
  /\ Running(s, "duplicates")
  /\ KnnReady(s)
  /\ Deliver(Duplicates(vectors, Slice(knn'.rows, 1), s.arg))

ComputeIntrinsicDim(s) ==
  /\ Running(s, "intrinsic_dim")
  /\ s.k >= 2
  /\ KnnReady(s)
  /\ Deliver(IntrinsicDim(vectors, Slice(knn'.rows, s.k), s.k))

ComputeSnc(s) ==
  /\ Running(s, "snc")
  /\ KnnReady(s)
  /\ Deliver(Snc(vectors, Slice(knn'.rows, s.k), s.k))

\* The spectrum of the covariance matrix needs neither cache.
ComputeAnisotropy(s) ==
  /\ Running(s, "anisotropy")
  /\ UNCHANGED <<normalized, knn>>
  /\ Deliver(<<>>)

KnnMetrics == {"get_knn", "hubness", "hubs", "dispersion", "outliers",
               "duplicates", "intrinsic_dim", "snc"}

\* The error path of every metric that calls get_knn. compute_intrinsic_dim
\* reports k < 2 as KTooLarge before it touches the evaluator.
KnnMetricFails(s) ==
  /\ \E metric \in KnnMetrics : Running(s, metric)
  /\ IF s.metric = "intrinsic_dim" /\ s.k < 2
     THEN Fail("KTooLarge") /\ UNCHANGED <<normalized, knn>>
     ELSE \/ KTooLarge(s) /\ Fail("KTooLarge")
          \/ CannotNormalize(s) /\ Fail("AllVectorsDegenerate")
          \/ SearchAborts(s) /\ Fail("Panic")

-----------------------------------------------------------------------------
(* compute_qmas_score: the arguments, then the queries, then the documents *)
(* are checked; documents are normalised through the evaluator's cache.    *)

QmasArguments(s) ==
  IF s.arg.copies = <<>> THEN "EmptyInput"
  ELSE IF s.arg.cols # "same" THEN "DimensionMismatch"
  ELSE IF s.k = 0 THEN "KTooSmall"
  ELSE IF s.k > vectors.n THEN "KTooLarge"
  ELSE IF \A i \in DOMAIN s.arg.copies : vectors.kind[s.arg.copies[i]] = "zero"
       THEN "AllVectorsDegenerate"
  ELSE "none"

QmasRefused(s) ==
  /\ Running(s, "qmas")
  /\ \/ /\ QmasArguments(s) # "none"
        /\ Fail(QmasArguments(s))
     \/ /\ QmasArguments(s) = "none"
        /\ ~normalized
        /\ AllDegenerate(vectors)
        /\ Fail("AllVectorsDegenerate")
  /\ UNCHANGED <<normalized, knn>>

ComputeQmas(s) ==
  /\ Running(s, "qmas")
  /\ QmasArguments(s) = "none"
  /\ EnsureNormalized
  /\ UNCHANGED knn
  /\ IF QmasPanics(vectors, s.arg, s.k)
     THEN Fail("Panic")
     ELSE Deliver(Qmas(vectors, s.arg, s.k))

-----------------------------------------------------------------------------
Step ==
  \E s \in {Head(t) : t \in {call.todo} \ {<<>>}} :
    \/ GetKnn(s)
    \/ ComputeHubness(s)
    \/ IdentifyHubsStep(s)
    \/ ComputeDispersion(s)
    \/ ComputeOutliers(s)
    \/ ComputeDuplicates(s)
    \/ ComputeIntrinsicDim(s)
    \/ ComputeSnc(s)
    \/ ComputeAnisotropy(s)
    \/ KnnMetricFails(s)
    \/ QmasRefused(s)
    \/ ComputeQmas(s)

Next == Step \/ \E request \in Requests(vectors) : Begin(request)

Spec == Init /\ [][Next]_vars

-----------------------------------------------------------------------------
(* Properties.                                                             *)

\* Types; the cache never has n columns or more: get_knn's guard on k and the
\* constructor's on empty input see to it together.
TypeOK ==
  /\ vectors.n \in Nat \ {0}
  /\ normalized \in BOOLEAN
  /\ knn = NoCache \/ knn \in [k : 0..(vectors.n - 1), rows : {knn.rows}]
  /\ call.searches \in Nat

\* knn.rs keeps one k-NN cache and slices it for every k it covers. Whatever
\* calls, failures and panics came before, it holds the whole result of one
\* search of these vectors at the recorded k, the same for every batch_size,
\* and the normalised vectors a search reads are there.
CacheIsSearch ==
  knn # NoCache =>
    /\ normalized
    /\ 0 <= knn.k /\ knn.k < vectors.n
    /\ knn.rows = Search(vectors, knn.k, 1)

\* A step never drops the k-NN cache nor replaces it by a narrower one, so a
\* slice taken at a k served before stays in bounds.
CacheNeverNarrows ==
  [][knn # NoCache => knn' # NoCache /\ knn'.k >= knn.k]_vars

\* The index arithmetic of the search is safe: on finite vectors only k = 0
\* makes a call panic (an empty candidate buffer, or column 0 of no columns).
PanicsOnlyOnZeroK ==
  reply.error = "Panic" =>
    \/ ~AllFinite(vectors)
    \/ \E i \in DOMAIN reply.request : reply.request[i].k = 0

\* The other way round: vectors with a NaN or an infinity never produce k-NN
\* numbers, the search panics on them instead, unless there are two of them.
NonFiniteNeverAnswered ==
  \A i \in DOMAIN reply.results :
    reply.request[i].metric \in KnnMetrics /\ reply.request[i].k > 0
      => Searchable(vectors)

\* Serving a small k from a wide cache is never worse than searching for it:
\* more candidates were ranked exactly, so no column of a get_knn reply is
\* farther than the one a new evaluator would return.
WiderCacheNoFarther ==
  \A i \in DOMAIN reply.results :
    reply.request[i].metric = "get_knn" /\ reply.request[i].k > 0 =>
      LET own == Search(vectors, reply.request[i].k, 1)
      IN  \A r \in Rows(vectors) : \A c \in 1..reply.request[i].k :
            DistAt(vectors, reply.results[i], r, c) <= DistAt(vectors, own, r, c)

\* compute_all reports the mean nearest-neighbour distance twice, with the
\* dispersion and with the duplicates; both come from one search, so they
\* agree even where f32 rounding lets two searches pick different neighbours.
NearestMeansAgree ==
  \A i, j \in DOMAIN reply.results :
    reply.request[i].metric = "dispersion" /\ reply.request[j].metric = "duplicates"
      => reply.results[i][1] = reply.results[j][2]

\* knn.rs promises an exact search: candidates are chosen by f32 similarity
\* and ranked by exact distance. Where the similarities order the rows as the
\* distances do, what comes out are the true neighbours, and the search panics
\* on three or more vectors that are not all finite and on no others.
SearchIsExact ==
  ~AllDegenerate(vectors) =>
    \A k \in 1..(vectors.n - 1) :
      IF Searchable(vectors)
      THEN ~SearchPanics(vectors, k)
           /\ Search(vectors, k, 1) = TrueNeighbours(vectors, k)
      ELSE SearchPanics(vectors, k)

\* Where the search is exact the caches are invisible: every reply is the one
\* MetricOracle computes afresh.
Oracle == INSTANCE MetricOracle WITH pending <- call.request
ImplementsOracle == Oracle!OracleSpec

-----------------------------------------------------------------------------
(* What the documentation says, where the code does otherwise.             *)

\* rust/bindings/src/lib.rs:973 "column 0 is always the true nearest *other*
\* neighbor".
FirstColumnIsNearest ==
  \A i \in DOMAIN reply.results :
    reply.request[i].metric = "get_knn" /\ reply.request[i].k > 0 =>
      \A r \in Rows(vectors) : \A j \in Rows(vectors) \ {r} :
        DistAt(vectors, reply.results[i], r, 1) <= vectors.dist[r][j]

\* docs/reference.md:44 "compute_all() runs one exact k-NN search shared by all
\* of them".
OneSearchPerCall == call.searches <= 1
=============================================================================
