CONSTANTS
  Metrics <- MCMetrics
  MetricOrder <- MCMetricOrder
  Families <- MCFamilies
  FamilyOrder <- MCFamilyOrder
  Members <- MCMembers
  Evidence <- MCEvidence
  CausalWeight <- MCCausalWeight
  CausalScore <- MCCausalScore
  Reliability <- MCReliability
  Target <- MCTarget
  Confounders <- MCConfounders
  HasAction <- MCHasAction
  ParameterSource <- MCParameterSource
  SevereLoss <- MCSevereLoss
  Indexes = {"exact", "hnsw"}
  Approximate = {"hnsw", "ivfpq"}
  Readings <- MCReadings
  Similarities = {3, 5, 8}
  Threshold = 5
  Margin = 3
  NoFamily = "no family"
  NoContext = NoContext
  NoReport = NoReport
SPECIFICATION Spec
INVARIANT AmbiguityIsSaid
CHECK_DEADLOCK FALSE
