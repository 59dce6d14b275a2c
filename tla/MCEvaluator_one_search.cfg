CONSTANTS
  MaxN = 4
  Coarse = FALSE
  Ks = {1, 2}
  BatchSizes = {1}
  OrphanDist = 4
  Infinity = 1000
  Adaptive = Adaptive
  Datasets <- MCFiniteDatasets
  Requests <- ReportRequests
SPECIFICATION Spec
INVARIANT OneSearchPerCall
