----------------------------- MODULE MCReports -----------------------------
(* One statistic of each kind: a floor and k, a floor and epsilon, no floor *)
(* and the threshold, and one that needs queries.                           *)
EXTENDS Reports, TLC

MCKeys == {"max_occurrences", "ndds_fraction", "outlier_fraction", "qmas_mean_1nn"}
MCParameter ==
  [max_occurrences |-> "k", ndds_fraction |-> "duplicate_epsilon",
   outlier_fraction |-> "outlier_distance_threshold", qmas_mean_1nn |-> "none"]
MCFloor ==
  [max_occurrences |-> 301, ndds_fraction |-> 28, outlier_fraction |-> Unassessable,
   qmas_mean_1nn |-> 68]

Base ==
  [dim |-> 4, k |-> 5, k_intrinsic_dim |-> 20, duplicate_epsilon |-> 50, derived |-> 90,
   outlier_distance_threshold |-> 120, size |-> 2,
   metrics |-> [max_occurrences |-> 1000, ndds_fraction |-> 1000, outlier_fraction |-> 0]]
Queried(r, q) == [r EXCEPT !.metrics = ("qmas_mean_1nn" :> q) @@ @]

\* A baseline; one on the edge of a floor and beyond another, its threshold
\* derived; the same with another threshold, infinite distances of queries and
\* a drop; one with other parameters and a threshold that JSON loses; one that found
\* no duplicates for an epsilon that is no number.
MCResults ==
  {Base,
   [Base EXCEPT !.metrics.max_occurrences = 1301, !.metrics.ndds_fraction = 971,
                !.outlier_distance_threshold = Adaptive, !.size = 1],
   Queried([Base EXCEPT !.metrics.max_occurrences = 698, !.dim = 3, !.derived = 60,
                        !.outlier_distance_threshold = Adaptive], Infinite),
   Queried([Base EXCEPT !.k = 10, !.outlier_distance_threshold = Infinite,
                        !.duplicate_epsilon = 51, !.metrics.ndds_fraction = 0,
                        !.size = 1], 300),
   [Base EXCEPT !.duplicate_epsilon = NaN, !.metrics.ndds_fraction = 0,
                !.size = 1]}

Alike == Permutations(Analyses) \cup Permutations(Paths)
=============================================================================
