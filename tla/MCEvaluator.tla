---------------------------- MODULE MCEvaluator ----------------------------
(***************************************************************************)
(* Instances of Evaluator for TLC. The vectors are all the ultrametric     *)
(* placements (every finite ultrametric embeds in a Euclidean sphere) of   *)
(* up to MaxN rows at the distances 0 (duplicates), 1 (near duplicates)    *)
(* and Root2 (orthogonal), with zero-norm and non-finite rows.             *)
(***************************************************************************)
EXTENDS Evaluator

CONSTANTS
  MaxN,          \* rows of the largest set of vectors
  Coarse,        \* the f32 similarity of distances 0 and 1 is the same
  Ks,            \* neighbourhood sizes asked for
  BatchSizes     \* rows per block

Root2 == 4
Sim(d) == IF d = Root2 THEN 1
          ELSE IF Coarse THEN 3 ELSE 3 - d

Placements(n) ==
  LET R == 1..n
      Pairs == {p \in R \X R : p[1] < p[2]}
      At(f, i, j) == IF i = j THEN 0 ELSE f[<<Min({i, j}), Max({i, j})>>]
  IN  { [i \in R |-> [j \in R |-> At(f, i, j)]] :
          f \in {g \in [Pairs -> {0, 1, Root2}] :
                   \A i, j, m \in R :
                     At(g, i, j) <= Max({At(g, i, m), At(g, m, j)})} }

\* A zero-norm row is at Root2 from every row, itself included; a non-finite
\* one at NaN from the others.
Build(n, d, kind) ==
  LET Has(i, j, what) == what \in {kind[i], kind[j]}
      dist == [i \in 1..n |-> [j \in 1..n |->
        IF Has(i, j, "zero") THEN Root2
        ELSE IF Has(i, j, "nonfinite") THEN NaN
        ELSE d[i][j]]]
  IN  [n |-> n, kind |-> kind, dist |-> dist,
       sim |-> [i \in 1..n |-> [j \in 1..n |->
         IF Has(i, j, "nonfinite") THEN NaN ELSE Sim(dist[i][j])]]]

Regular(n) == {Build(n, d, [i \in 1..n |-> "ok"]) : d \in Placements(n)}

\* The degenerate inputs: every mix of kinds over rows that are otherwise near
\* duplicates, a non-finite row among two or three only.
Irregular ==
  UNION { {Build(n, [i \in 1..n |-> [j \in 1..n |-> IF i = j THEN 0 ELSE 1]], kind) :
             kind \in [1..n -> {"ok", "zero"} \cup (IF n > 1 THEN {"nonfinite"} ELSE {})]} :
          n \in 1..Min({3, MaxN}) }

NoRows == [n |-> 0, kind |-> <<>>, dist |-> <<>>, sim |-> <<>>]

MCDatasets == {NoRows} \cup Irregular \cup UNION {Regular(n) : n \in 1..MaxN}
\* Fine similarities order the rows as the distances do.
ASSUME FineIsFaithful ==
  ~Coarse => \A v \in MCDatasets : AllFinite(v) => OrderFaithful(v)

MCFiniteDatasets == UNION {Regular(n) : n \in 3..MaxN}

-----------------------------------------------------------------------------
MetricStep(metric, k, b, arg) == [metric |-> metric, k |-> k, b |-> b, arg |-> arg]

Queries(v) == {[cols |-> "same", copies |-> <<>>],
               [cols |-> "same", copies |-> <<v.n, 1>>],
               [cols |-> "other", copies |-> <<1>>]}

Block == Max(BatchSizes)

Single(v) ==
  {<<MetricStep("get_knn", k, b, 0)>> : k \in Ks, b \in BatchSizes}
  \cup {<<MetricStep(m, k, Block, 0)>> :
          m \in {"hubness", "dispersion", "intrinsic_dim", "snc"}, k \in Ks}
  \cup {<<MetricStep("hubs", k, Block, 2)>> : k \in Ks}
  \cup {<<MetricStep(m, 1, Block, 1)>> : m \in {"outliers", "duplicates", "anisotropy"}}
  \cup {<<MetricStep("qmas", k, Block, q)>> : k \in Ks, q \in Queries(v)}

\* compute_all_metrics: its order of metrics.
All(k, kid, b, threshold, queries) ==
  << MetricStep("dispersion", k, b, 0), MetricStep("hubness", k, b, 0),
     MetricStep("anisotropy", 1, b, 0), MetricStep("outliers", 1, b, threshold),
     MetricStep("duplicates", 1, b, 1), MetricStep("intrinsic_dim", kid, b, 0),
     MetricStep("snc", k, b, 0) >>
  \o [i \in 1..Len(queries) |-> MetricStep("qmas", k, b, queries[i])]

Queried(v) == <<[cols |-> "same", copies |-> <<v.n, 1>>]>>

MCRequests(v) ==
  IF v = NoRows THEN {}
  ELSE Single(v)
       \cup {All(k, kid, Block, 1, <<>>) : k \in Ks, kid \in Ks}
       \cup {All(k, kid, Block, Adaptive, Queried(v)) : k \in {1, 2}, kid \in {2, 3}}

KnnRequests(v) == {<<MetricStep("get_knn", k, 1, 0)>> : k \in Ks}
ReportRequests(v) == KnnRequests(v) \cup {All(k, kid, 1, 1, <<>>) : k \in Ks, kid \in Ks}
=============================================================================
