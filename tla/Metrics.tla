------------------------------ MODULE Metrics ------------------------------
(***************************************************************************)
(* The geometric metrics of rust/core/src/metrics and hub_inspector.rs,    *)
(* as functions of the vectors v and of the neighbour lists `rows` that    *)
(* get_knn(k) returned. Means over the n points are given as sums: n never *)
(* changes in the life of an evaluator. A result is a tuple.               *)
(***************************************************************************)
EXTENDS KnnSearch

CONSTANTS
  OrphanDist,    \* qmas: 0.3, on the scale of CosDist
  Infinity,      \* qmas: f64::INFINITY, above every CosDist
  Adaptive       \* outlier_distance_threshold = None

\* An f64 sum, NaN when one of the terms is.
Total(f) == IF NaN \in Range(f) THEN NaN ELSE SumFunction(f)
SumOver(S, f(_)) == Total([x \in S |-> f(x)])

Numbers(f) == Range(f) \ {NaN}

\* Distance of row r to its c-th neighbour, column c of the distances matrix.
DistAt(v, rows, r, c) == v.dist[r][rows[r][c]]

-----------------------------------------------------------------------------
(* Metrics that count indices.                                             *)

\* How many neighbour lists row j appears in.
Occurrences(v, rows, j) ==
  SumOver(Rows(v), LAMBDA r : Quantify(DOMAIN rows[r], LAMBDA c : rows[r][c] = j))

\* compute_hubness_score: the largest count and the number of orphans. The
\* skewness is a moment of the same counts.
Hubness(v, rows) ==
  LET occ == [j \in Rows(v) |-> Occurrences(v, rows, j)]
  IN  << Max({occ[j] : j \in Rows(v)}),
         Quantify(Rows(v), LAMBDA j : occ[j] = 0) >>

\* identify_hubs: (row, count) from the strongest hub on, equal counts by row,
\* at most topN of them.
IdentifyHubsUnsorted(v, rows, topN) ==  \* mutant: truncated without the sort
  [p \in 1..Min({topN, v.n}) |-> <<p, Occurrences(v, rows, p)>>]
IdentifyHubs(v, rows, topN) ==
  LET occ == [j \in Rows(v) |-> Occurrences(v, rows, j)]
      Stronger(a, b) == occ[a] > occ[b] \/ (occ[a] = occ[b] /\ a < b)
      Rank(j) == 1 + Quantify(Rows(v), LAMBDA m : Stronger(m, j))
  IN  [p \in 1..Min({topN, v.n}) |->
         LET hub == CHOOSE j \in Rows(v) : Rank(j) = p IN <<hub, occ[hub]>>]

\* compute_snc_score: Jaccard overlap of a point's list with each of its
\* neighbours' lists, scaled by 60, which unions of up to 6 rows divide.
Snc(v, rows, k) ==
  IF k = 0 THEN <<0>>
  ELSE LET set == [r \in Rows(v) |-> {rows[r][c] : c \in 1..k}]
           Overlap(r, c) ==
             LET both == Cardinality(set[r] \cap set[rows[r][c]])
             IN  (60 * both) \div (k + k - both)
       IN  << SumOver(Rows(v), LAMBDA r : SumOver(1..k, LAMBDA c : Overlap(r, c))) >>

-----------------------------------------------------------------------------
(* Metrics that read distances.                                            *)

\* Column 0 of the distances matrix.
Nearest(v, rows) == [r \in Rows(v) |-> DistAt(v, rows, r, 1)]

\* compute_dispersion_score: sums of column 0 and of the whole matrix.
Dispersion(v, rows, k) ==
  << Total(Nearest(v, rows)),
     SumOver(Rows(v), LAMBDA r : SumOver(1..k, LAMBDA c : DistAt(v, rows, r, c))) >>

\* compute_ndds_score: points whose nearest neighbour is closer than epsilon,
\* the sum and the least of those distances, 0 when all of them are NaN.
Duplicates(v, rows, epsilon) ==
  LET nearest == Nearest(v, rows)
  IN  << Quantify(Rows(v), LAMBDA r : Above(epsilon, nearest[r])),
         Total(nearest),
         IF Numbers(nearest) = {} THEN 0 ELSE Min(Numbers(nearest)) >>

\* compute_outlier_score. With the adaptive threshold of compute_all a point is
\* an outlier beyond three times the mean of column 0, whose sum is sum1nn.
Outliers(v, rows, threshold, sum1nn) ==
  LET Far(d) == IF threshold = Adaptive
                THEN NaN \notin {d, sum1nn} /\ v.n * d > 3 * sum1nn
                ELSE Above(d, threshold)
      nearest == Nearest(v, rows)
  IN  << Quantify(Rows(v), LAMBDA r : Far(nearest[r])),
         IF Numbers(nearest) = {} THEN 0 ELSE Max(Numbers(nearest)) >>

\* compute_intrinsic_dim_score: the estimate of a point is 0 when its k
\* distances coincide, and otherwise depends on the k distances alone; the
\* result kept here is the number of flat points and the sum of the windows.
IntrinsicDim(v, rows, k) ==
  << Quantify(Rows(v), LAMBDA r : \A c \in 1..k :
             DistAt(v, rows, r, c) = DistAt(v, rows, r, k)),
     SumOver(Rows(v), LAMBDA r :
       SumOver(1..k, LAMBDA c : c * DistAt(v, rows, r, c))) >>

-----------------------------------------------------------------------------
(* Queries against the documents.                                          *)
(* A query set q has q.cols, the columns of the query matrix relative to   *)
(* the documents' ("same" or "other"), and q.copies, a sequence of rows:   *)
(* query i is a copy of document q.copies[i].                              *)

\* 1 - cos, in units of half a squared chord: |a - b|^2 = 2 (1 - cos).
CosDist(d) == IF d = NaN THEN NaN ELSE d * d

\* The selection of compute_qmas_score keeps exactly k candidates, and looks up
\* the norm of each slot's index.
QueryCandidates(v, row, k) ==
  LET topK == TopK(v.sim[row], v.n, NoIndex, k)
  IN  {topK[p].idx : p \in DOMAIN topK}

QmasPanics(v, q, k) ==
  \E i \in DOMAIN q.copies : NoIndex \in QueryCandidates(v, q.copies[i], k)

\* Per query the least distance to a candidate (infinite while all compare
\* false) and the sum; a query is an orphan when the least is above OrphanDist.
Qmas(v, q, k) ==
  LET To(i) == [j \in QueryCandidates(v, q.copies[i], k) |->
                  CosDist(v.dist[q.copies[i]][j])]
      best == [i \in DOMAIN q.copies |-> Min(Numbers(To(i)) \cup {Infinity})]
  IN  << Total(best),
         SumOver(DOMAIN q.copies, LAMBDA i : Total(To(i))),
         Quantify(DOMAIN best, LAMBDA i : best[i] > OrphanDist) >>
=============================================================================
