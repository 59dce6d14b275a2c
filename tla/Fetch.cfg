CONSTANTS
  Ids = {1, 2, 3}
  Connectors = {"pgvector", "qdrant", "chroma", "pinecone", "milvus", "weaviate", "lancedb",
                "npy", "csv", "parquet"}
  PageSizes = {2}
  Dims = {1, 2}
  Broken = {0}
  Metrics = {"dot"}
  KeyTypes = {"int8", "int4"}
SPECIFICATION FairSpec
INVARIANTS TypeOK SteadyRowsFetched NoRowTwice EmptyMeansEmpty
PROPERTY FetchEnds
CHECK_DEADLOCK FALSE
