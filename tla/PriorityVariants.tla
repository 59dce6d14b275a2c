-------------------------- MODULE PriorityVariants --------------------------
(***************************************************************************)
(* The priority of a metric (interpretation/priority.py): three ways to    *)
(* combine the strength of a change, in hundredths, with what is known of  *)
(* the metric, and the order they put metrics in. Weights are in tenths;   *)
(* only the order of two scores of one variant matters, so each variant    *)
(* has a unit of its own.                                                  *)
(***************************************************************************)
EXTENDS Integers, FiniteSets

CONSTANTS
  Metrics, MetricOrder,      \* order of the keys of the current snapshot
  Evidence,                  \* causal_evidence of each metric: 2 strong, 1 weak, 0 none
  CausalWeight, CausalScore, \* CAUSAL_WEIGHT, and causal_score of the weighted sum
  Reliability                \* RELIABILITY_WEIGHT of each metric's category

ASSUME MetricsAssumption ==
  /\ IsFiniteSet(Metrics)
  /\ MetricOrder \in [Metrics -> Nat]
  /\ \A m, o \in Metrics : MetricOrder[m] = MetricOrder[o] => m = o

\* The weights leave room for every reliability between two grades of evidence.
ASSUME WeightsAssumption ==
  /\ Evidence \in [Metrics -> 0..2]
  /\ Reliability \in [Metrics -> 6..10]
  /\ CausalWeight \in [0..2 -> Nat \ {0}]
  /\ \A e \in 0..1 : 6 * CausalWeight[e + 1] > 10 * CausalWeight[e]
  /\ CausalScore \in [0..2 -> Nat]
  /\ \A e \in 0..1 : CausalScore[e + 1] - CausalScore[e] >= 2

Variants == {"multiplicative", "lexicographic", "weighted_sum"}  \* PRIORITY_VARIANTS
DefaultVariant == "multiplicative"

MultiplicativeWeightless(m, strength) ==  \* mutant: the causal weight is left out
  strength * 10 * Reliability[m]
Multiplicative(m, strength) == strength * CausalWeight[Evidence[m]] * Reliability[m]

Lexicographic(m, strength) == Evidence[m] * 10000 + strength * Reliability[m]

WeightedSum(m, strength) ==
  50 * strength + 350 * CausalScore[Evidence[m]] + 150 * Reliability[m]

Score(variant, m, strength) ==
  CASE variant = "multiplicative" -> Multiplicative(m, strength)
    [] variant = "lexicographic" -> Lexicographic(m, strength)
    [] variant = "weighted_sum" -> WeightedSum(m, strength)

\* The place of a metric among S by descending score; sort is stable, also in
\* reverse.
Ahead(variant, strengths, m, o) ==
  LET p == Score(variant, m, strengths[m])
      q == Score(variant, o, strengths[o])
  IN  p > q \/ (p = q /\ MetricOrder[m] < MetricOrder[o])

Place(variant, strengths, m) ==
  1 + Cardinality({o \in DOMAIN strengths : Ahead(variant, strengths, o, m)})

RankMetricsByPriority(variant, strengths) ==
  [m \in DOMAIN strengths |-> Place(variant, strengths, m)]
=============================================================================
