---------------------------- MODULE MetricTruth ----------------------------
(***************************************************************************)
(* What the reply to a request should be: computed from the true nearest   *)
(* neighbours of every row, without f32 and without a cache.               *)
(*                                                                         *)
(* A request is a sequence of steps, one per metric: one step for a        *)
(* compute_* method, up to eight for compute_all, whose metrics run in     *)
(* this order and whose first error is the reply. A step is a record       *)
(*    metric, k, b (rows per block), arg (epsilon, threshold, top_n or the *)
(*    query set; unused otherwise).                                        *)
(***************************************************************************)
EXTENDS Metrics

Reply(request, error, results) ==
  [request |-> request, error |-> error, results |-> results]
Nothing == Reply(<<>>, "none", <<>>)

\* The error of a search for k neighbours, "none" when it succeeds. Here and
\* below the conditions overlap, and the first one counts.
KnnError(v, k) ==
  IF k >= v.n THEN "KTooLarge"
  ELSE IF AllDegenerate(v) THEN "AllVectorsDegenerate"
  ELSE IF ~Searchable(v) THEN "Panic"
  ELSE "none"

QmasError(v, q, k) ==
  IF q.copies = <<>> THEN "EmptyInput"
  ELSE IF q.cols # "same" THEN "DimensionMismatch"
  ELSE IF k = 0 THEN "KTooSmall"
  ELSE IF k > v.n THEN "KTooLarge"
  ELSE IF \/ \A i \in DOMAIN q.copies : v.kind[q.copies[i]] = "zero"
          \/ AllDegenerate(v) THEN "AllVectorsDegenerate"
  ELSE IF QmasPanics(v, q, k) THEN "Panic"
  ELSE "none"

StepError(v, s) ==
  IF s.metric = "anisotropy" THEN "none"
  ELSE IF s.metric = "qmas" THEN QmasError(v, s.arg, s.k)
  ELSE IF s.metric = "intrinsic_dim" /\ s.k < 2 THEN "KTooLarge"
  ELSE KnnError(v, s.k)

StepValue(v, s) ==
  LET true == TrueNeighbours(v, s.k)
  IN  CASE s.metric = "get_knn"       -> true
        [] s.metric = "hubness"       -> Hubness(v, true)
        [] s.metric = "hubs"          -> IdentifyHubs(v, true, s.arg)
        [] s.metric = "dispersion"    -> Dispersion(v, true, s.k)
        [] s.metric = "outliers"      ->
             Outliers(v, true, s.arg, Dispersion(v, true, 1)[1])
        [] s.metric = "duplicates"    -> Duplicates(v, true, s.arg)
        [] s.metric = "intrinsic_dim" -> IntrinsicDim(v, true, s.k)
        [] s.metric = "snc"           -> Snc(v, true, s.k)
        [] s.metric = "qmas"          -> Qmas(v, s.arg, s.k)
        [] s.metric = "anisotropy"    -> <<>>

Truth(v, request) ==
  LET failing == {i \in DOMAIN request : StepError(v, request[i]) # "none"}
  IN  IF failing # {}
      THEN Reply(request, StepError(v, request[Min(failing)]), <<>>)
      ELSE Reply(request, "none", [i \in DOMAIN request |-> StepValue(v, request[i])])
=============================================================================
