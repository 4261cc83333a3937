SPECIFICATION MCSpec
CONSTANTS
  SetupRequests = {f1, f2}
  SamePath = TRUE
  MaxKeys = 2
  MaxCrashes = 1
  MaxBroken = 1
  Fields = {"a", "b"}
  Values <- MCValues
  MaxDepth = 2
  Nested <- MCNested
  Tools = {x1}
  Scans = {s1, s2}
  Validations = {v1, v2}
  MaxRevision = 2
  MaxBuckets = 2
  MaxCounted = 3
  MaxSlot = 2
  MaxLives = 3
  Streams = {l1, l2}
  RingSize = 2
  QueueSize = 2
  MaxLogged = 4
  Clients = {h1, h2, m1}
  Loopback = {h1, h2}
  Entries = {a, b}
  Flushers = {f1, f2}
  MaxEntries = 2
  MaxLines = 3
  None = None
  Events = {a, b}
  Threads = {f1, f2}
  Threshold = 1
  MaxEvents = 1
  Deadline = 0
  MaxNow = 1
  NoEvent = NoEvent
  Invokes = {k1, k2, k3}
  Grants = {g1}
  GrantLimit <- MCLimits
  ChunkCap = 1
  MaxChunks = 2
  Requests = {r1}
  MaxTries = 2
SYMMETRY RecordsSymmetry
INVARIANTS
  SetupSafe MarketHasOurKey SampleMatches CatalogSafe MetricsSafe StreamsSafe
  AccessSafe NothingLost QueueOrdered BufferSafe RuntimeSafe CallsSafe
PROPERTIES
  SealKept BufferRefuses
CHECK_DEADLOCK FALSE
