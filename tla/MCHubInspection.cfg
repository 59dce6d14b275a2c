CONSTANTS
  MaxN = 4
  Coarse = TRUE
  Ks = {0, 1, 2, 4}
  BatchSizes = {1}
  OrphanDist = 4
  Infinity = 1000
  Adaptive = Adaptive
  None = None
  Datasets <- HubDatasets
  Requests <- HubRequests
  Inspections <- HubArguments
  Entropy <- EntropyTable
SPECIFICATION HubSpec
INVARIANTS PanicsOnlyOnZeroK NonFiniteNeverAnswered WiderCacheNoFarther NearestMeansAgree
  HubTypeOK CitersAreCounted RepeatsAgree ExampleIsTheMaximum PathologyIsMixed
