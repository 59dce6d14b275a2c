-------------------------- MODULE MCHubInspection --------------------------
(***************************************************************************)
(* Instances of HubInspection for TLC: the evaluators of MCEvaluator, which *)
(* nobody inspects, and a few of five rows that are. Under Coarse the      *)
(* similarity hides near duplicates, so that a search for one neighbour,   *)
(* which ranks two candidates exactly, may miss the nearest.               *)
(***************************************************************************)
EXTENDS MCEvaluator, HubInspection

\* Rows in the same part of `clusters` are near duplicates, rows in the same
\* part of `copies` duplicates.
Five(clusters, copies) ==
  LET Together(parts, i, j) == \E part \in parts : {i, j} \subseteq part
  IN  Build(5, [i \in 1..5 |-> [j \in 1..5 |->
                  IF i = j \/ Together(copies, i, j) THEN 0
                  ELSE IF Together(clusters, i, j) THEN 1 ELSE Root2]],
            [i \in 1..5 |-> "ok"])

\* The same rows with similarities that tell all distances apart.
Sharp(v) == [v EXCEPT !.sim = [i \in Rows(v) |-> [j \in Rows(v) |-> Root2 + 1 - v.dist[i][j]]]]

Inspected ==
  {Five({1..5}, {{1, 5}, {3, 4}}), Sharp(Five({1..5}, {{1, 5}, {3, 4}})),
   Five({2..5}, {{3, 5}}), Five({{1, 2, 5}, {3, 4}}, {{1, 5}})}

HubDatasets == MCDatasets \cup Inspected

Arguments(k, topN, ids, labels) ==
  [k |-> k, topN |-> topN, b |-> Block, ids |-> ids, labels |-> labels]

Ids == <<13, 15, 11, 14, 12>>
Labels == <<"x", "y", "x", "y", "y">>

HubArguments(v) ==
  IF v \notin Inspected THEN {}
  ELSE {Arguments(1, 2, None, Labels), Arguments(1, 2, Ids, None), Arguments(1, 3, Ids, None),
        Arguments(2, 2, Ids, Labels), Arguments(5, 2, None, None),
        Arguments(1, 2, SubSeq(Ids, 1, 2), None), Arguments(2, 2, None, SubSeq(Labels, 1, 3))}

HubRequests(v) ==
  IF v \notin Inspected THEN MCRequests(v)
  ELSE UNION {{HubsCall(a), HubsCall([a EXCEPT !.topN = ExampleTop]), KnnCall(a)} :
                a \in HubArguments(v)}
       \cup {<<MetricStep("hubness", k, Block, 0)>> : k \in {1, 2}}

\* Normalised entropies of up to five points in two categories, in hundredths.
EntropyTable(counts, m) ==
  LET parts == {counts[c] : c \in DOMAIN counts}
  IN  IF Cardinality(DOMAIN counts) = 1 THEN 0
      ELSE CASE Cardinality(parts) = 1 -> 100
             [] parts = {1, 2} -> 92
             [] parts = {1, 3} -> 81
             [] parts = {1, 4} -> 72
             [] parts = {2, 3} -> 97
=============================================================================
