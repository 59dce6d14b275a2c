CONSTANTS
  MinBatch = 2
  MaxBatch = 6
  Budget = 30
  BytesPerF32 = 2
  VectorCopies = 2
  Limit = 100
  Sizes = {1, 2, 3, 5, 8, 20, 99, 100}
  DimSizes = {0, 1, 2, 7, 100}
  Batches = {0, 1, 2, 3, 4, 6, 9, 100}
  Threads = {1, 2, 3, 60}
  Thresholds = {0, 10, 20, 33, 40, 60, 75, 99, 100}
SPECIFICATION Spec
INVARIANTS TypeOK SilentMeansFits AdviceIsSound AutoIsLargestWithinBudget
CHECK_DEADLOCK FALSE
