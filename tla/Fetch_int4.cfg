CONSTANTS
  Ids = {1, 2}
  Connectors = {"pgvector"}
  PageSizes = {1, 2}
  Dims = {1}
  Broken = {}
  Metrics = {"cosine"}
  KeyTypes = {"int8", "int4"}
SPECIFICATION Spec
INVARIANT IntegerKeysAccepted
CHECK_DEADLOCK FALSE
