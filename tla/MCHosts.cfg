CONSTANTS
  Segments <- TwoLevels
  World = 4
  Weighting = "shard_size"
  Tokens <- Sizes
  ValLoss <- Losses
  Rounds = 2
  MaxLaunches = 2
  Rows <- SixRows
  DataPaths = 2
  Router <- Fits
  HostRouter <- HostFits
  Configs <- Runs
  AddEos = FALSE
  MaxDocTokens = 3
  MinDocTokens = 1
  SeqLen = 2
  DataWorker = {w1, w2}
  CacheSize = 1
  Verify = TRUE
  NumShards = 2
  ShardId = 0
  Targets = {1, 2, 3}
  FlushEvery = 2
  MaxRuns = 2
  MaxLeases = 3
  MaxStops = 1
SPECIFICATION MCSpec
INVARIANT RunsAreExact
INVARIANT SumsOneRound
INVARIANT ShardsAreTheRuns
INVARIANT IngestIsExact
PROPERTY JobsEnd
CHECK_DEADLOCK FALSE
