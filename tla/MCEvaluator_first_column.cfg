CONSTANTS
  MaxN = 4
  Coarse = TRUE
  Ks = {1, 2}
  BatchSizes = {1}
  OrphanDist = 4
  Infinity = 1000
  Adaptive = Adaptive
  Datasets <- MCFiniteDatasets
  Requests <- KnnRequests
SPECIFICATION Spec
INVARIANT FirstColumnIsNearest
