CONSTANTS
  MaxN = 4
  Coarse = FALSE
  Ks = {1, 2, 3}
  BatchSizes = {1, 3}
  OrphanDist = 4
  Infinity = 1000
  Adaptive = Adaptive
  Datasets <- MCDatasets
  Requests <- MCRequests
SPECIFICATION Spec
INVARIANTS TypeOK CacheIsSearch SearchIsExact
PROPERTY ImplementsOracle
