SPECIFICATION Spec
CONSTANTS
  a = a
  b = b
  c = c
  Requests = {a, b, c}
  Tokens <- MCTokens
  Prompt <- WidePrompt
  Instances <- NativeInstance
  Batches <- AllBatches
  Drafts <- MCDrafts
  MaxBatch = 2
  NoToken = NoToken
  NoRequest = NoRequest
  HistoryWidth = 2
  CacheLimit = 8
  TileSize = 1
  TilePrograms = 2
  MaxOutput = 4
  MaxDiscards = 0
INVARIANTS
  HistoryServed
CHECK_DEADLOCK FALSE
