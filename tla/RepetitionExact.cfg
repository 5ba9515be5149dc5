SPECIFICATION Spec
CONSTANTS
  a = a
  b = b
  c = c
  Requests = {a, b, c}
  Tokens <- MCTokens
  Prompt <- MCPrompt
  Instances <- MCInstances
  Batches <- MCBatches
  Drafts <- MCDrafts
  MaxBatch = 2
  NoToken = NoToken
  NoRequest = NoRequest
  HistoryWidth = 3
  CacheLimit = 2
  TileSize = 1
  TilePrograms = 2
  MaxOutput = 3
  MaxDiscards = 1
INVARIANTS
  TypeOK
  SlotsOwned
  HistoryServed
PROPERTY
  ImplementsDecode
CHECK_DEADLOCK FALSE
