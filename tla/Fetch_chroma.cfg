CONSTANTS
  Ids = {1, 2, 3}
  Connectors = {"chroma"}
  PageSizes = {1, 2}
  Dims = {1}
  Broken = {}
  Metrics = {"cosine"}
  KeyTypes = {"int8"}
SPECIFICATION Spec
INVARIANT CompleteCollection
CHECK_DEADLOCK FALSE
