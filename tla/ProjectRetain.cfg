CONSTANTS
  Parts = {"project"}
  ProjSpecs <- SmallSpecs
  ProjImages = {1, 2}
  ProjRedis = {1}
  ProjMaxUid = 2
  ProjMaxEvents = 3
  PvRequests = {1, 2}
  PvMaxUid = 2
  PvMaxNs = 2
  PvMaxKid = 2
  PvMaxEdits = 5
  Importers = {1, 2}
  GhTtl = 2
  GhMaxFaults = 1
  RetryTop = 70
  BuildIds = {1}
  Pushers = {1, 2}
  Tails = {1}
  LogCap = 3
  LogRing = 2
  LogMaxPage = 2
  LogBatches = {1, 2}
  LogMaxEntries = 2
  RtUsers = {1, 2}
  RtDeps = {1, 2}
  RtMaxConns = 2
  RtMaxSubs = 1
  RtMaxAttempts = 1
  RtMaxEdits = 3
  WrSpecs <- SmallWrSpecs
  WrPlatforms = {"onpremise", "cloud"}
  WrMaxLives = 2
  WrMaxEdits = 1
SPECIFICATION PlatSpec
INVARIANT RetainKeepsDatabase
CHECK_DEADLOCK FALSE
