SPECIFICATION MCSpec
CONSTANTS
  Providers = {"databricks", "snowflake", "bigquery"}
  Shapes <- MCShapes
  RowLimits <- MCRowLimits
  ChunkLimits <- MCChunkLimits
  MaxRows = {0, 1}
  MaxChunks = {0, 1}
  DefaultRows = 2
  DefaultChunks = 2
  MaxPoll = 2
  GetRetries = 1
  Requests = {r1, r2, r3, r4, r5}
  MaxSlots = 2
  MaxQueue = 2
  Clients = {c1, c2, c3}
  MaxSize = 2
  MaxPanics = 1
  MaxTokens = 3
  Nobody = Nobody
INVARIANTS
  LimiterSound
  StatementSound
  PoolSound
PROPERTIES
  TokensFresh
  CallsEnd
