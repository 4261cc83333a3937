SPECIFICATION MCSpec
CONSTANTS
  Requests = {r1, r2, r3}
  Operations = {"provider_start", "provider_stop", "provider_restart", "provider_reload", "consumer_start", "consumer_stop", "lock_node", "unlock", "shutdown"}
  Sealed = TRUE
  None = None
  Reads = {g1}
  Writes = {w1}
  Ttl = 1
  MaxTime = 2
  MaxTokens = 2
  Chats = {c1}
  ActionIds = {i1, i2}
  ToolNames = {"test_market_auth", "list_local_tools"}
  MaxRounds = 2
  MaxProposed = 2
  MaxConfirms = 2
INVARIANTS
  LockInv TasksKnown CacheFresh MarketSafe AssistantSafe
PROPERTIES
  RequestsAllEnd
CHECK_DEADLOCK FALSE
